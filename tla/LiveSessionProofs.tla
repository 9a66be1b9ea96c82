------------------------- MODULE LiveSessionProofs --------------------------
(***************************************************************************)
(* Theorems of LiveSession, for every number of users, sessions, layers    *)
(* and paths, every discipline of the hosts and every bound: types, and    *)
(* that what a client applies is what the server numbered, in any live     *)
(* session, with reloads, lost connections and users who come back.        *)
(***************************************************************************)
EXTENDS LiveSession, TLAPS

(***************************************************************************)
(* The methods of RenderStudioData keep the type of a layer's state.       *)
(***************************************************************************)
LEMMA OnLoadedType ==
    ASSUME NEW file \in Contents
    PROVE  OnLoaded(file) \in LayerState
BY DEF OnLoaded, LayerState, Contents, NoUpdates, Table

LEMMA RecordedFieldsType ==
    ASSUME NEW table \in Table, NEW p \in Paths, NEW k \in Keys, NEW v \in Value
    PROVE  RecordedFields(table, p, k, v) \in Seq(Field)
<1> DEFINE fields == IF table[p] = None THEN <<>> ELSE table[p]
           edit == [key |-> k, value |-> v]
<1>1. fields \in Seq(Field)
  BY DEF Table
<1>2. edit \in Field
  BY DEF Field
<1>3. Append(fields, edit) \in Seq(Field)
  BY <1>1, <1>2
<1>4. [i \in DOMAIN fields |-> IF fields[i].key = k THEN edit ELSE fields[i]] \in Seq(Field)
  BY <1>1, <1>2
<1>5. QED
  BY <1>3, <1>4 DEF RecordedFields

LEMMA SetType ==
    ASSUME NEW d \in LayerState, NEW p \in Paths, NEW k \in Keys, NEW v \in Value,
           HasSpec(d, p)
    PROVE  Set(d, p, k, v) \in LayerState
<1>1. d.mData[p] \in SpecData
  BY DEF HasSpec, LayerState, Contents
<1>2. [d.mData[p] EXCEPT ![k] = v] \in SpecData
  BY <1>1 DEF SpecData
<1>3. RecordedFields(d.mLocalDeltas, p, k, v) \in Seq(Field)
  BY RecordedFieldsType DEF LayerState
<1>4. QED
  BY <1>2, <1>3 DEF Set, LayerState, Contents, Table

LEMMA FetchLocalDeltasType ==
    ASSUME NEW d \in LayerState
    PROVE  FetchLocalDeltas(d) \in LayerState
BY DEF FetchLocalDeltas, LayerState, NoUpdates, Table

LEMMA AccumulateRemoteUpdatesType ==
    ASSUME NEW d \in LayerState,
           NEW updates \in Seq(ServerDelta \cup Acknowledge)
    PROVE  AccumulateRemoteUpdates(d, updates) \in LayerState
<1>1. ASSUME NEW i \in DOMAIN updates
      PROVE  [sequence |-> updates[i].sequence, updates |-> updates[i].updates,
              epoch |-> updates[i].epoch] \in Update
  BY <1>1 DEF Update, ServerDelta, Acknowledge
<1>2. QED
  BY <1>1 DEF AccumulateRemoteUpdates, LayerState

LEMMA ApplyDeltaType ==
    ASSUME NEW old \in SpecData \cup {None}, NEW p \in Paths, NEW fields \in Seq(Field),
           NEW unacknowledgedYet \in BOOLEAN
    PROVE  ApplyDelta(old, p, fields, unacknowledgedYet) \in SpecData \cup {None}
<1> DEFINE effective == {i \in DOMAIN fields : IsApplied(p, fields[i], unacknowledgedYet)}
           erasing == {i \in effective :
                          fields[i].key = TypeName /\ fields[i].value = EmptyToken}
           created == IF old = None \/ erasing # {} THEN [k \in Keys |-> {}] ELSE old
           remaining == {i \in effective : \A e \in erasing : i > e}
           After(k) == IF \E i \in remaining : fields[i].key = k
                       THEN LET i == CHOOSE i \in remaining : fields[i].key = k
                            IN  RemoteValue(fields[i], created[k], unacknowledgedYet)
                       ELSE created[k]
<1>1. created \in SpecData
  BY DEF SpecData, Value
<1>2. ASSUME NEW k \in Keys
      PROVE  After(k) \in Value
  <2>1. created[k] \in Value
    BY <1>1, <1>2 DEF SpecData
  <2>2. CASE \E i \in remaining : fields[i].key = k
    <3> DEFINE j == CHOOSE i \in remaining : fields[i].key = k
    <3>1. j \in remaining
      BY <2>2
    <3>2. fields[j] \in Field
      BY <3>1
    <3>3. fields[j].value \in Value
      BY <3>2 DEF Field
    <3>4. RemoteValue(fields[j], created[k], unacknowledgedYet) \in Value
      <4> HIDE DEF created, j
      <4> QED BY <2>1, <3>3 DEF RemoteValue, Value
    <3>5. QED
      BY <2>2, <3>4
  <2>3. CASE ~\E i \in remaining : fields[i].key = k
    BY <2>1, <2>3
  <2>4. QED
    BY <2>2, <2>3
<1>3. [k \in Keys |-> After(k)] \in SpecData
  <2> HIDE DEF After
  <2> QED BY <1>2 DEF SpecData
<1>4. QED
  BY <1>3 DEF ApplyDelta

LEMMA ApplyNextUpdateType ==
    ASSUME NEW d \in LayerState, HasNextUpdate(d)
    PROVE  ApplyNextUpdate(d) \in LayerState
<1> DEFINE update == CHOOSE u \in d.mRemoteDeltasQueue : IsNextUpdate(d, u)
           table == update.updates
           edited == {p \in PathsOf(table) : table[p] # <<>>}
           After(p) == IF p \in edited
                       THEN ApplyDelta(d.mData[p], p, table[p],
                                       p \in d.mUnacknowledgedFields)
                       ELSE d.mData[p]
<1>1. update \in Update
  BY DEF HasNextUpdate, LayerState
<1>2. table \in Table /\ update.sequence \in Nat
  BY <1>1 DEF Update
<1>3. ASSUME NEW p \in Paths
      PROVE  After(p) \in SpecData \cup {None}
  <2>1. d.mData[p] \in SpecData \cup {None}
    BY DEF LayerState, Contents
  <2>2. ASSUME p \in edited
        PROVE  ApplyDelta(d.mData[p], p, table[p], p \in d.mUnacknowledgedFields)
                   \in SpecData \cup {None}
    <3>1. table[p] \in Seq(Field)
      BY <1>2, <2>2 DEF Table, PathsOf
    <3>2. (p \in d.mUnacknowledgedFields) \in BOOLEAN
      OBVIOUS
    <3>3. QED
      BY <2>1, <3>1, <3>2, ApplyDeltaType
  <2>3. QED
    BY <2>1, <2>2
<1>4. [p \in Paths |-> After(p)] \in Contents
  <2> HIDE DEF After
  <2> QED BY <1>3 DEF Contents
<1>5. Append(d.applied, update) \in Seq(Update)
  BY <1>1 DEF LayerState
<1>6. ApplyNextUpdate(d) =
         [d EXCEPT !.mData = [p \in Paths |-> After(p)],
                   !.mUnacknowledgedFields = @ \ (PathsOf(table) \ edited),
                   !.mLatestAppliedSequence = update.sequence,
                   !.mRemoteDeltasQueue = @ \ {update},
                   !.applied = Append(@, update)]
  BY DEF ApplyNextUpdate
<1>7. QED
  <2> HIDE DEF update, After, edited
  <2> QED BY <1>2, <1>4, <1>5, <1>6 DEF LayerState

(***************************************************************************)
(* What is sent, and what a tick makes of a layer, has its type.           *)
(***************************************************************************)
LEMMA SeqOfSubset ==
    ASSUME NEW A, NEW B, A \subseteq B, NEW s \in Seq(A)
    PROVE  s \in Seq(B)
OBVIOUS

LEMMA ReloadedType ==
    ASSUME ClientTypeOK, NEW c \in Clients, NEW l \in Layers
    PROVE  Reloaded(c, l) \in LayerState
BY OnLoadedType, LiveClientAssumption DEF ClientTypeOK, Reloaded

LEMMA DeltaEventsType ==
    ASSUME ClientTypeOK, NEW c \in Clients, NEW l \in Layers
    PROVE  DeltaEvents(c, l) \in Seq(ClientEvent)
<1>1. Reloaded(c, l).mLocalDeltas \in Table
  BY ReloadedType DEF LayerState
<1>2. [type |-> "Delta", updates |-> Reloaded(c, l).mLocalDeltas] \in ClientEvent
  BY <1>1 DEF ClientEvent
<1>3. QED
  BY <1>2 DEF DeltaEvents

LEMMA AccumulatedType ==
    ASSUME ClientTypeOK, NEW c \in Clients, NEW l \in Layers
    PROVE  Accumulated(c, l) \in LayerState
<1>1. mAccumulatedAcknowledges[c][l] \in Seq(ServerDelta \cup Acknowledge)
  BY SeqOfSubset DEF ClientTypeOK
<1>2. mAccumulatedDeltas[c][l] \in Seq(ServerDelta \cup Acknowledge)
  BY SeqOfSubset DEF ClientTypeOK
<1>3. data[c][l] \in LayerState
  BY DEF ClientTypeOK
<1>4. FetchLocalDeltas(Reloaded(c, l)) \in LayerState
  BY ReloadedType, FetchLocalDeltasType
<1>5. QED
  BY <1>1, <1>2, <1>3, <1>4, AccumulateRemoteUpdatesType DEF Accumulated

LEMMA SendType ==
    ASSUME WireTypeOK, ClientTypeOK, NEW c \in Clients,
           NEW to \in [Layers -> Seq(ClientEvent)], Send(c, to)
    PROVE  toServer' \in [Sessions -> [Layers -> Seq(ClientEvent)]]
<1>1. CASE IsConnected(c)
  <2> DEFINE s == mWebsocketClient[c]
  <2>1. s \in Sessions
    BY <1>1 DEF ClientTypeOK, IsConnected, InLiveMode
  <2>2. [l \in Layers |-> toServer[s][l] \o to[l]] \in [Layers -> Seq(ClientEvent)]
    BY <2>1 DEF WireTypeOK
  <2>3. toServer' = [toServer EXCEPT ![s] = [l \in Layers |-> toServer[s][l] \o to[l]]]
    BY <1>1 DEF Send
  <2>4. QED
    BY <2>1, <2>2, <2>3 DEF WireTypeOK
<1>2. CASE ~IsConnected(c)
  BY <1>2 DEF Send, WireTypeOK
<1>3. QED
  BY <1>1, <1>2

LEMMA SendToOthersType ==
    ASSUME WireTypeOK, NEW s \in Sessions, NEW l \in Layers,
           NEW event \in ServerEvent, NEW toSender \in Seq(ServerEvent),
           SendToOthers(s, l, event, toSender)
    PROVE  toClient' \in [Sessions -> [Layers -> Seq(ServerEvent)]]
<1> DEFINE sent(t) == IF t \in Recipients(s) THEN <<event>>
                      ELSE IF t = s THEN toSender ELSE <<>>
<1>1. ASSUME NEW t \in Sessions
      PROVE  [toClient[t] EXCEPT ![l] = @ \o sent(t)] \in [Layers -> Seq(ServerEvent)]
  <2>1. sent(t) \in Seq(ServerEvent)
    OBVIOUS
  <2>2. QED
    <3> HIDE DEF sent
    <3> QED BY <2>1 DEF WireTypeOK
<1>2. toClient' = [t \in Sessions |-> [toClient[t] EXCEPT ![l] = @ \o sent(t)]]
  BY DEF SendToOthers
<1>3. QED
  <2> HIDE DEF sent
  <2> QED BY <1>1, <1>2

(***************************************************************************)
(* Type correctness.  TypeOK is inductive only together with LoopInv: a    *)
(* turn of the loop of ProcessRemoteUpdates takes the update it finds      *)
(* under the next number, and has the type of a layer only if there is     *)
(* one.                                                                    *)
(***************************************************************************)
LoopInv ==
    \A c \in Clients, l \in Layers : l \in processing[c] => HasNextUpdate(data[c][l])

TypeInv == TypeOK /\ LoopInv

LEMMA InputsType ==
    ASSUME edits \in Nat, NEW old \in Value, NEW k \in Keys, NEW v \in Inputs(old, k)
    PROVE  v \in Value
BY DEF Inputs, Value, EmptyToken

LEMMA PathsOnlyType ==
    ASSUME NEW table \in Table
    PROVE  PathsOnly(table) \in Table
BY DEF PathsOnly, Table

LEMMA TypeInit == Init => TypeInv
<1> SUFFICES ASSUME Init PROVE TypeInv
  OBVIOUS
<1> USE DEF Init
<1>1. WireTypeOK
  BY DEF WireInit, WireTypeOK
<1>2. ServerTypeOK
  BY DEF ServerInit, ServerTypeOK, Silent
<1>3. ClientTypeOK
  <2>1. \A l \in Layers : OnLoaded(File[l]) \in LayerState
    BY OnLoadedType, LiveClientAssumption
  <2>2. QED
    BY <2>1 DEF ClientInit, ClientTypeOK, Silent
<1>4. QED
  BY <1>1, <1>2, <1>3 DEF ClientInit, TypeInv, TypeOK, LoopInv

LEMMA TypeJoin ==
    ASSUME TypeInv, NEW c \in Clients, NEW s \in Sessions, Join(c, s)
    PROVE  TypeInv'
<1> USE DEF TypeInv, TypeOK, Join, OnConnected, ClientOnConnected
<1>1. \A l \in Layers : mHistory[l] \in Seq(ServerEvent)
  BY SeqOfSubset DEF ServerTypeOK, ServerEvent
<1>2. [l \in Layers |-> toClient[s][l] \o mHistory[l]] \in [Layers -> Seq(ServerEvent)]
  BY <1>1 DEF WireTypeOK
<1>3. WireTypeOK'
  BY <1>2 DEF WireTypeOK
<1>4. ServerTypeOK'
  BY DEF ServerTypeOK
<1>5. ClientTypeOK'
  BY DEF ClientTypeOK
<1>6. QED
  BY <1>3, <1>4, <1>5 DEF LoopInv

LEMMA TypeLeave ==
    ASSUME TypeInv, NEW c \in Clients, Leave(c)
    PROVE  TypeInv'
<1> USE DEF TypeInv, TypeOK, Leave
<1>1. Silent \in [Layers -> Seq(ServerEvent)]
  BY DEF Silent
<1>2. CASE ClientOnDisconnected(c)
  <2>1. WireTypeOK'
    BY <1>1, <1>2 DEF WireTypeOK, ClientOnDisconnected
  <2>2. ServerTypeOK' /\ edits' \in Nat /\ reloads' \in Nat
    BY <1>2 DEF ServerTypeOK, ClientOnDisconnected, serverVars
  <2>3. ClientTypeOK' /\ LoopInv'
    BY <1>2 DEF ClientTypeOK, ClientOnDisconnected, LoopInv
  <2>4. QED
    BY <2>1, <2>2, <2>3
<1>3. CASE Disconnect(c)
  <2>1. WireTypeOK'
    BY <1>1, <1>3 DEF WireTypeOK, Disconnect
  <2>2. ServerTypeOK' /\ edits' \in Nat /\ reloads' \in Nat
    BY <1>3 DEF ServerTypeOK, Disconnect, serverVars
  <2>3. ClientTypeOK' /\ LoopInv'
    BY <1>3 DEF ClientTypeOK, Disconnect, LoopInv
  <2>4. QED
    BY <2>1, <2>2, <2>3
<1>4. QED
  BY <1>2, <1>3, Zenon DEF Leave

LEMMA TypeServerNotices ==
    ASSUME TypeInv, NEW s \in Sessions, ServerNotices(s)
    PROVE  TypeInv'
<1> USE DEF TypeInv, TypeOK, ServerNotices, OnDisconnected
<1>1. Silent \in [Layers -> Seq(ClientEvent)] /\ Silent \in [Layers -> Seq(ServerDelta)]
  BY DEF Silent
<1>2. WireTypeOK'
  BY <1>1 DEF WireTypeOK
<1>3. ServerTypeOK'
  <2>1. [l \in Layers |-> epoch[l] + 1] \in [Layers -> Nat]
    BY DEF ServerTypeOK
  <2>2. mHistory' \in [Layers -> Seq(ServerDelta)] /\ epoch' \in [Layers -> Nat]
    BY <1>1, <2>1 DEF ServerTypeOK
  <2>3. QED
    BY <2>2 DEF ServerTypeOK
<1>4. ClientTypeOK' /\ LoopInv' /\ edits' \in Nat /\ reloads' \in Nat
  BY DEF clientVars, ClientTypeOK, LoopInv
<1>5. QED
  BY <1>2, <1>3, <1>4

LEMMA TypeServerReceives ==
    ASSUME TypeInv, NEW s \in Sessions, NEW l \in Layers, ServerReceives(s, l)
    PROVE  TypeInv'
<1> USE DEF TypeInv, TypeOK
<1>1. ClientTypeOK' /\ LoopInv' /\ edits' \in Nat /\ reloads' \in Nat
  BY DEF ServerReceives, clientVars, ClientTypeOK, LoopInv
<1>2. ASSUME TakeFromClient(s, l)
      PROVE  /\ Head(toServer[s][l]) \in ClientEvent
             /\ toServer' \in [Sessions -> [Layers -> Seq(ClientEvent)]]
  <2>1. toServer[s][l] \in Seq(ClientEvent) /\ toServer[s][l] # <<>>
    BY <1>2 DEF WireTypeOK, TakeFromClient
  <2>2. QED
    BY <1>2, <2>1 DEF WireTypeOK, TakeFromClient
<1>3. GetSequenceNumber(l) \in Nat \ {0} /\ epoch[l] \in Nat /\ ClientOf[s] \in Clients
  BY LiveWireAssumption DEF ServerTypeOK, GetSequenceNumber
<1>4. CASE OnDeltaEvent(s, l)
  <2> DEFINE updates == Head(toServer[s][l]).updates
             delta == [type |-> "Delta", user |-> ClientOf[s], updates |-> updates,
                       sequence |-> GetSequenceNumber(l), epoch |-> epoch[l]]
             ack == [type |-> "Acknowledge", updates |-> PathsOnly(updates),
                     sequence |-> GetSequenceNumber(l), epoch |-> epoch[l]]
  <2>1. updates \in Table
    BY <1>2, <1>4 DEF OnDeltaEvent, ClientEvent
  <2>2. delta \in ServerDelta
    BY <1>3, <2>1 DEF ServerDelta
  <2>3. ack \in Acknowledge
    BY <1>3, <2>1, PathsOnlyType DEF Acknowledge
  <2> HIDE DEF delta, ack
  <2>4. CASE ChannelExists
    <3>1. mHistory' = [mHistory EXCEPT ![l] = Append(@, delta)]
      BY <1>4, <2>4 DEF OnDeltaEvent, delta
    <3>2. SendToOthers(s, l, delta, <<ack>>)
      BY <1>4, <2>4 DEF OnDeltaEvent, delta, ack
    <3>3. toClient' \in [Sessions -> [Layers -> Seq(ServerEvent)]]
      <4>1. delta \in ServerEvent /\ <<ack>> \in Seq(ServerEvent)
        BY <2>2, <2>3 DEF ServerEvent
      <4>2. QED
        BY <3>2, <4>1, SendToOthersType
    <3>4. ServerTypeOK'
      BY <1>4, <2>2, <3>1 DEF ServerTypeOK, OnDeltaEvent
    <3>5. QED
      BY <1>1, <1>2, <1>4, <3>3, <3>4 DEF OnDeltaEvent, WireTypeOK
  <2>5. CASE ~ChannelExists
    <3>1. toClient' \in [Sessions -> [Layers -> Seq(ServerEvent)]]
      BY <1>4, <2>5 DEF OnDeltaEvent, WireTypeOK
    <3>2. ServerTypeOK'
      BY <1>4, <2>5 DEF OnDeltaEvent, ServerTypeOK
    <3>3. QED
      BY <1>1, <1>2, <1>4, <3>1, <3>2 DEF OnDeltaEvent, WireTypeOK
  <2>6. QED
    BY <2>4, <2>5
<1>5. CASE OnReloadEvent(s, l)
  <2> DEFINE reload == [type |-> "Reload", sequence |-> GetSequenceNumber(l)]
  <2>1. CASE ChannelExists
    <3>1. reload \in ServerEvent /\ <<>> \in Seq(ServerEvent)
      BY <1>3 DEF ServerEvent, ServerReload
    <3>2. toClient' \in [Sessions -> [Layers -> Seq(ServerEvent)]]
      BY <1>5, <2>1, <3>1, SendToOthersType DEF OnReloadEvent
    <3>3. ServerTypeOK'
      <4>1. /\ mHistory' = [mHistory EXCEPT ![l] = <<>>]
            /\ epoch' = [epoch EXCEPT ![l] = @ + 1]
            /\ mConnections' = mConnections /\ serverUp' = serverUp
        BY <1>5, <2>1, Zenon DEF OnReloadEvent
      <4>2. QED
        BY <4>1 DEF ServerTypeOK
    <3>4. QED
      BY <1>1, <1>2, <1>5, <3>2, <3>3 DEF OnReloadEvent, WireTypeOK
  <2>2. CASE ~ChannelExists
    <3>1. toClient' \in [Sessions -> [Layers -> Seq(ServerEvent)]]
      BY <1>5, <2>2 DEF OnReloadEvent, WireTypeOK
    <3>2. ServerTypeOK'
      BY <1>5, <2>2 DEF OnReloadEvent, ServerTypeOK
    <3>3. QED
      BY <1>1, <1>2, <1>5, <3>1, <3>2 DEF OnReloadEvent, WireTypeOK
  <2>3. QED
    BY <2>1, <2>2
<1>6. QED
  BY <1>4, <1>5 DEF ServerReceives

LEMMA TypeClientReceives ==
    ASSUME TypeInv, NEW c \in Clients, NEW l \in Layers, ClientReceives(c, l)
    PROVE  TypeInv'
<1> DEFINE s == mWebsocketClient[c]
           event == Head(toClient[s][l])
<1> USE DEF TypeInv, TypeOK, ClientReceives
<1>1. s \in Sessions /\ toClient[s][l] \in Seq(ServerEvent) /\ toClient[s][l] # <<>>
  BY DEF OnMessage, IsConnected, InLiveMode, ClientTypeOK, WireTypeOK
<1>2. event \in ServerEvent
  BY <1>1
<1>3. event.type = "Delta" => event \in ServerDelta
  BY <1>2 DEF ServerEvent, ServerDelta, Acknowledge, ServerReload
<1>4. event.type = "Acknowledge" => event \in Acknowledge
  BY <1>2 DEF ServerEvent, ServerDelta, Acknowledge, ServerReload
<1>5. WireTypeOK'
  <2>1. toClient' = [toClient EXCEPT ![s][l] = Tail(@)] /\ toServer' = toServer
    BY DEF OnMessage
  <2>2. Tail(toClient[s][l]) \in Seq(ServerEvent)
    BY <1>1
  <2>3. toClient' \in [Sessions -> [Layers -> Seq(ServerEvent)]]
    BY <1>1, <2>1, <2>2 DEF WireTypeOK
  <2>4. QED
    BY <2>1, <2>3 DEF WireTypeOK
<1>6. mAccumulatedDeltas' \in [Clients -> [Layers -> Seq(ServerDelta)]]
  <2>1. mAccumulatedDeltas[c][l] \in Seq(ServerDelta)
    BY DEF ClientTypeOK
  <2>2. (CASE event.type = "Delta" -> Append(mAccumulatedDeltas[c][l], event)
           [] event.type = "Reload" -> LeftByReload(mAccumulatedDeltas[c][l])
           [] OTHER -> mAccumulatedDeltas[c][l]) \in Seq(ServerDelta)
    BY <1>3, <2>1 DEF LeftByReload
  <2>3. QED
    BY <2>2 DEF OnMessage, ClientTypeOK
<1>7. mAccumulatedAcknowledges' \in [Clients -> [Layers -> Seq(Acknowledge)]]
  <2>1. mAccumulatedAcknowledges[c][l] \in Seq(Acknowledge)
    BY DEF ClientTypeOK
  <2>2. (CASE event.type = "Acknowledge" -> Append(mAccumulatedAcknowledges[c][l], event)
           [] event.type = "Reload" -> LeftByReload(mAccumulatedAcknowledges[c][l])
           [] OTHER -> mAccumulatedAcknowledges[c][l]) \in Seq(Acknowledge)
    BY <1>4, <2>1 DEF LeftByReload
  <2>3. QED
    BY <2>2 DEF OnMessage, ClientTypeOK
<1>8. mRequestedReloads' \in [Clients -> SUBSET Layers]
  BY DEF OnMessage, ClientTypeOK
<1>9. ClientTypeOK' /\ LoopInv'
  BY <1>6, <1>7, <1>8 DEF OnMessage, ClientTypeOK, LoopInv
<1>10. ServerTypeOK' /\ edits' \in Nat /\ reloads' \in Nat
  BY DEF serverVars, ServerTypeOK
<1>11. QED
  BY <1>5, <1>9, <1>10

LEMMA TypeHostEdits ==
    ASSUME TypeInv, NEW c \in Clients, NEW l \in Layers, HostEdits(c, l)
    PROVE  TypeInv'
<1> USE DEF TypeInv, TypeOK
<1>1. PICK p \in Paths : \E k \in FieldsOf[p] :
          \E v \in Inputs(data[c][l].mData[p][k], k) : Edit(c, l, p, k, v)
  BY DEF HostEdits
<1>2. PICK k \in FieldsOf[p] :
          \E v \in Inputs(data[c][l].mData[p][k], k) : Edit(c, l, p, k, v)
  BY <1>1
<1>3. PICK v \in Inputs(data[c][l].mData[p][k], k) : Edit(c, l, p, k, v)
  BY <1>2
<1>4. edits' = edits + 1 /\ UNCHANGED <<serverVars, reloads>>
  BY DEF HostEdits
<1>5. k \in Keys
  BY LiveSessionAssumption
<1>6. data[c][l] \in LayerState /\ HasSpec(data[c][l], p)
  BY <1>3 DEF Edit, ClientTypeOK
<1>7. data[c][l].mData[p][k] \in Value
  BY <1>5, <1>6 DEF HasSpec, LayerState, Contents, SpecData
<1>8. v \in Value
  BY <1>5, <1>7, InputsType
<1>9. Set(data[c][l], p, k, v) \in LayerState
  BY <1>5, <1>6, <1>8, SetType
<1>10. /\ processing[c] = {} /\ processing' = processing
      /\ data' = [data EXCEPT ![c][l] = Set(data[c][l], p, k, v)]
  BY <1>3 DEF Edit, HostIdle
<1>11. ClientTypeOK'
  BY <1>3, <1>9, <1>10 DEF ClientTypeOK, Edit
<1>12. LoopInv'
  BY <1>10 DEF LoopInv, ClientTypeOK
<1>13. WireTypeOK'
  BY <1>3 DEF Edit, wireVars, WireTypeOK
<1>14. QED
  BY <1>4, <1>11, <1>12, <1>13 DEF ServerTypeOK, serverVars

LEMMA TypeHostOpens ==
    ASSUME TypeInv, NEW c \in Clients, NEW l \in Layers, HostOpens(c, l)
    PROVE  TypeInv'
<1> USE DEF TypeInv, TypeOK, HostOpens, OpenLayer
<1>1. OnLoaded(File[l]) \in LayerState
  BY OnLoadedType, LiveClientAssumption
<1>2. ClientTypeOK'
  BY <1>1 DEF ClientTypeOK
<1>3. LoopInv'
  BY DEF LoopInv, ClientTypeOK, HostIdle
<1>4. WireTypeOK' /\ ServerTypeOK' /\ edits' \in Nat /\ reloads' \in Nat
  BY DEF wireVars, serverVars, WireTypeOK, ServerTypeOK
<1>5. QED
  BY <1>2, <1>3, <1>4

LEMMA TypeHostReloads ==
    ASSUME TypeInv, NEW c \in Clients, NEW l \in Layers, HostReloads(c, l)
    PROVE  TypeInv'
<1> USE DEF TypeInv, TypeOK, HostReloads, ReloadLayer
<1>1. OnLoaded(File[l]) \in LayerState
  BY OnLoadedType, LiveClientAssumption
<1>2. ClientTypeOK'
  BY <1>1 DEF ClientTypeOK
<1>3. LoopInv'
  BY DEF LoopInv, ClientTypeOK, HostIdle
<1>4. [m \in Layers |-> IF m = l THEN <<[type |-> "Reload"]>> ELSE <<>>]
          \in [Layers -> Seq(ClientEvent)]
  <2>1. [type |-> "Reload"] \in ClientEvent
    BY DEF ClientEvent
  <2>2. <<[type |-> "Reload"]>> \in Seq(ClientEvent)
    BY <2>1
  <2>3. QED
    BY <2>2
<1>5. toServer' \in [Sessions -> [Layers -> Seq(ClientEvent)]]
  BY <1>4, SendType
<1>6. WireTypeOK'
  BY <1>5 DEF WireTypeOK
<1>7. ServerTypeOK' /\ edits' \in Nat /\ reloads' \in Nat
  BY DEF serverVars, ServerTypeOK
<1>8. QED
  BY <1>2, <1>3, <1>6, <1>7

LEMMA TypeHostTicks ==
    ASSUME TypeInv, NEW c \in Clients, HostTicks(c)
    PROVE  TypeInv'
<1> USE DEF TypeInv, TypeOK, HostTicks, Tick
<1>1. \A l \in Layers : Accumulated(c, l) \in LayerState
  BY AccumulatedType
<1>2. [l \in Layers |-> DeltaEvents(c, l)] \in [Layers -> Seq(ClientEvent)]
  BY DeltaEventsType
<1>3. toServer' \in [Sessions -> [Layers -> Seq(ClientEvent)]]
  BY <1>2, SendType
<1>4. WireTypeOK'
  BY <1>3 DEF WireTypeOK
<1>5. data' \in [Clients -> [Layers -> LayerState]]
  BY <1>1 DEF ClientTypeOK
<1>6. processing' \in [Clients -> SUBSET Layers]
  BY DEF ClientTypeOK
<1>7. ClientTypeOK'
  BY <1>5, <1>6 DEF ClientTypeOK, Silent
<1>8. LoopInv'
  BY DEF LoopInv, ClientTypeOK
<1>9. ServerTypeOK' /\ edits' \in Nat /\ reloads' \in Nat
  BY DEF serverVars, ServerTypeOK
<1>10. QED
  BY <1>4, <1>7, <1>8, <1>9

LEMMA TypeHostApplies ==
    ASSUME TypeInv, NEW c \in Clients, NEW l \in Layers, HostApplies(c, l)
    PROVE  TypeInv'
<1> USE DEF TypeInv, TypeOK, HostApplies, ApplyRemoteUpdate
<1>1. data[c][l] \in LayerState /\ HasNextUpdate(data[c][l])
  BY DEF LoopInv, ClientTypeOK
<1>2. ApplyNextUpdate(data[c][l]) \in LayerState
  BY <1>1, ApplyNextUpdateType
<1>3. ClientTypeOK'
  BY <1>2 DEF ClientTypeOK
<1>4. LoopInv'
  BY DEF LoopInv, ClientTypeOK
<1>5. WireTypeOK' /\ ServerTypeOK' /\ edits' \in Nat /\ reloads' \in Nat
  BY DEF wireVars, serverVars, WireTypeOK, ServerTypeOK
<1>6. QED
  BY <1>3, <1>4, <1>5

LEMMA TypeStep == TypeInv /\ [Next]_vars => TypeInv'
<1> SUFFICES ASSUME TypeInv, [Next]_vars PROVE TypeInv'
  OBVIOUS
<1>1. ASSUME NEW c \in Clients, NEW s \in Sessions, Join(c, s) PROVE TypeInv'
  BY <1>1, TypeJoin
<1>2. ASSUME NEW c \in Clients, Leave(c) PROVE TypeInv'
  BY <1>2, TypeLeave
<1>3. ASSUME NEW c \in Clients, HostTicks(c) PROVE TypeInv'
  BY <1>3, TypeHostTicks
<1>4. ASSUME NEW s \in Sessions, ServerNotices(s) PROVE TypeInv'
  BY <1>4, TypeServerNotices
<1>5. ASSUME NEW s \in Sessions, NEW l \in Layers, ServerReceives(s, l) PROVE TypeInv'
  BY <1>5, TypeServerReceives
<1>6. ASSUME NEW c \in Clients, NEW l \in Layers, ClientReceives(c, l) PROVE TypeInv'
  BY <1>6, TypeClientReceives
<1>7. ASSUME NEW c \in Clients, NEW l \in Layers, HostEdits(c, l) PROVE TypeInv'
  BY <1>7, TypeHostEdits
<1>8. ASSUME NEW c \in Clients, NEW l \in Layers, HostApplies(c, l) PROVE TypeInv'
  BY <1>8, TypeHostApplies
<1>9. ASSUME NEW c \in Clients, NEW l \in Layers, HostOpens(c, l) PROVE TypeInv'
  BY <1>9, TypeHostOpens
<1>10. ASSUME NEW c \in Clients, NEW l \in Layers, HostReloads(c, l) PROVE TypeInv'
  BY <1>10, TypeHostReloads
<1>11. CASE UNCHANGED vars
  BY <1>11 DEF vars, wireVars, serverVars, clientVars, TypeInv, TypeOK, WireTypeOK,
               ServerTypeOK, ClientTypeOK, LoopInv
<1>12. QED
  BY <1>1, <1>2, <1>3, <1>4, <1>5, <1>6, <1>7, <1>8, <1>9, <1>10, <1>11 DEF Next

\* Every variable always has its type: whatever the hosts, the sockets and the server
\* do, a layer's state stays one RenderStudioData can be in, and no event of one kind is
\* taken for another.
THEOREM TypeCorrect == Spec => []TypeOK
<1>1. Spec => []TypeInv
  BY TypeInit, TypeStep, PTL DEF Spec
<1>2. TypeInv => TypeOK
  BY DEF TypeInv
<1>3. QED
  BY <1>1, <1>2, PTL

-----------------------------------------------------------------------------
(***************************************************************************)
(* A layer's history only grows, or it is forgotten and the numbering      *)
(* restarts.  Either way what was genuine stays so.                        *)
(***************************************************************************)
Continues(history, numbering, history2, numbering2) ==
    \/ /\ numbering2 = numbering
       /\ \A n \in DOMAIN history : n \in DOMAIN history2 /\ history2[n] = history[n]
    \/ numbering2 > numbering

LEMMA GenuineStays ==
    ASSUME NEW history, NEW history2, NEW numbering \in Nat, NEW numbering2 \in Nat,
           NEW c, NEW x,
           Continues(history, numbering, history2, numbering2),
           Genuine(history, numbering, c, x)
    PROVE  Genuine(history2, numbering2, c, x)
BY DEF Continues, Genuine

LEMMA LayerGenuineStays ==
    ASSUME NEW history, NEW history2, NEW numbering \in Nat, NEW numbering2 \in Nat,
           NEW c, NEW d,
           Continues(history, numbering, history2, numbering2),
           LayerGenuine(history, numbering, c, d)
    PROVE  LayerGenuine(history2, numbering2, c, d)
BY GenuineStays DEF LayerGenuine

(***************************************************************************)
(* The methods of RenderStudioData only queue what they are given and      *)
(* apply what is queued, under the number that is due.                     *)
(***************************************************************************)
LEMMA OnLoadedGenuine ==
    ASSUME NEW history, NEW numbering, NEW c, NEW file
    PROVE  LayerGenuine(history, numbering, c, OnLoaded(file))
BY DEF LayerGenuine, OnLoaded

LEMMA SetGenuine ==
    ASSUME NEW history, NEW numbering, NEW c, NEW d \in LayerState, NEW p, NEW k, NEW v,
           LayerGenuine(history, numbering, c, d)
    PROVE  LayerGenuine(history, numbering, c, Set(d, p, k, v))
<1>1. /\ Set(d, p, k, v).mRemoteDeltasQueue = d.mRemoteDeltasQueue
      /\ Set(d, p, k, v).applied = d.applied
      /\ Set(d, p, k, v).mLatestAppliedSequence = d.mLatestAppliedSequence
  BY DEF Set, LayerState
<1>2. QED
  BY <1>1 DEF LayerGenuine

LEMMA FetchLocalDeltasGenuine ==
    ASSUME NEW history, NEW numbering, NEW c, NEW d \in LayerState,
           LayerGenuine(history, numbering, c, d)
    PROVE  LayerGenuine(history, numbering, c, FetchLocalDeltas(d))
BY DEF FetchLocalDeltas, LayerState, LayerGenuine

LEMMA AccumulateGenuine ==
    ASSUME NEW history, NEW numbering, NEW c, NEW d \in LayerState, NEW updates,
           LayerGenuine(history, numbering, c, d),
           \A i \in DOMAIN updates : Genuine(history, numbering, c, updates[i])
    PROVE  LayerGenuine(history, numbering, c, AccumulateRemoteUpdates(d, updates))
<1> DEFINE e == AccumulateRemoteUpdates(d, updates)
           Stored(i) == [sequence |-> updates[i].sequence, updates |-> updates[i].updates,
                         epoch |-> updates[i].epoch]
<1>1. e.applied = d.applied /\ e.mLatestAppliedSequence = d.mLatestAppliedSequence
  BY DEF AccumulateRemoteUpdates, LayerState
<1>2. ASSUME NEW u \in e.mRemoteDeltasQueue
      PROVE  u \in d.mRemoteDeltasQueue \/ \E i \in DOMAIN updates : u = Stored(i)
  BY <1>2 DEF AccumulateRemoteUpdates, LayerState
<1>3. ASSUME NEW i \in DOMAIN updates
      PROVE  Genuine(history, numbering, c, Stored(i))
  BY <1>3 DEF Genuine
<1>4. \A u \in e.mRemoteDeltasQueue : Genuine(history, numbering, c, u)
  <2> HIDE DEF e, Stored
  <2> QED BY <1>2, <1>3 DEF LayerGenuine
<1>5. QED
  <2> HIDE DEF e
  <2> QED BY <1>1, <1>4 DEF LayerGenuine, e

LEMMA ApplyNextGenuine ==
    ASSUME NEW history, NEW numbering, NEW c, NEW d \in LayerState, HasNextUpdate(d),
           LayerGenuine(history, numbering, c, d)
    PROVE  LayerGenuine(history, numbering, c, ApplyNextUpdate(d))
<1> DEFINE update == CHOOSE u \in d.mRemoteDeltasQueue : IsNextUpdate(d, u)
           e == ApplyNextUpdate(d)
<1>1. update \in d.mRemoteDeltasQueue /\ update.sequence = d.mLatestAppliedSequence + 1
  BY DEF HasNextUpdate, IsNextUpdate
<1>2. /\ e.applied = Append(d.applied, update)
      /\ e.mLatestAppliedSequence = update.sequence
      /\ e.mRemoteDeltasQueue = d.mRemoteDeltasQueue \ {update}
  BY DEF ApplyNextUpdate, LayerState
<1>3. d.applied \in Seq(Update) /\ d.mLatestAppliedSequence = Len(d.applied)
  BY DEF LayerState, LayerGenuine
<1>4. Genuine(history, numbering, c, update)
  BY <1>1 DEF LayerGenuine
<1> HIDE DEF update, e
<1>5. /\ DOMAIN e.applied = 1..(Len(d.applied) + 1)
      /\ \A n \in DOMAIN d.applied : e.applied[n] = d.applied[n]
      /\ e.applied[Len(d.applied) + 1] = update
      /\ Len(e.applied) = Len(d.applied) + 1
      /\ DOMAIN d.applied = 1..Len(d.applied)
      /\ Len(d.applied) \in Nat
  BY <1>2, <1>3
<1>6. ASSUME NEW n \in DOMAIN e.applied
      PROVE  e.applied[n].sequence = n /\ Genuine(history, numbering, c, e.applied[n])
  <2>1. CASE n = Len(d.applied) + 1
    BY <1>1, <1>3, <1>4, <1>5, <2>1
  <2>2. CASE n \in DOMAIN d.applied
    BY <1>5, <2>2 DEF LayerGenuine
  <2>3. QED
    BY <1>5, <1>6, <2>1, <2>2
<1>7. QED
  BY <1>1, <1>2, <1>3, <1>5, <1>6 DEF LayerGenuine, e

(***************************************************************************)
(* Every action keeps Delivery.                                            *)
(***************************************************************************)
LEMMA DeliveryInit == Init => Delivery
<1> SUFFICES ASSUME Init PROVE Delivery
  OBVIOUS
<1> USE DEF Init
<1>1. HistoryNumbered
  BY DEF ServerInit, Silent, HistoryNumbered
<1>2. OwnSessions
  BY DEF ClientInit, OwnSessions, InLiveMode
<1>3. WireGenuine
  BY DEF WireInit, WireGenuine
<1>4. AccumulatedGenuine
  BY DEF ClientInit, Silent, AccumulatedGenuine
<1>5. DataGenuine
  BY OnLoadedGenuine DEF ClientInit, DataGenuine
<1>6. QED
  BY <1>1, <1>2, <1>3, <1>4, <1>5 DEF Delivery

\* What a server action has to show: that it continues the histories, and that what it
\* adds to the sockets is genuine.
LEMMA ServerKeepsDelivery ==
    ASSUME TypeInv, TypeInv', Delivery,
           UNCHANGED clientVars,
           HistoryNumbered',
           \A l \in Layers : Continues(mHistory[l], epoch[l], mHistory'[l], epoch'[l]),
           \A s \in Sessions, l \in Layers : \A i \in DOMAIN toClient'[s][l] :
               \/ i \in DOMAIN toClient[s][l] /\ toClient'[s][l][i] = toClient[s][l][i]
               \/ toClient'[s][l][i].type = "Reload"
               \/ Genuine(mHistory'[l], epoch'[l], ClientOf[s], toClient'[s][l][i])
    PROVE  Delivery'
<1>1. \A l \in Layers : epoch[l] \in Nat /\ epoch'[l] \in Nat
  BY DEF TypeInv, TypeOK, ServerTypeOK
<1>2. OwnSessions'
  BY DEF Delivery, OwnSessions, InLiveMode, clientVars
<1>3. WireGenuine'
  BY <1>1, GenuineStays DEF Delivery, WireGenuine
<1>4. AccumulatedGenuine'
  BY <1>1, GenuineStays DEF Delivery, AccumulatedGenuine, clientVars
<1>5. DataGenuine'
  BY <1>1, LayerGenuineStays DEF Delivery, DataGenuine, clientVars
<1>6. QED
  BY <1>2, <1>3, <1>4, <1>5 DEF Delivery

LEMMA DeliveryServerNotices ==
    ASSUME TypeInv, TypeInv', Delivery, NEW s \in Sessions, ServerNotices(s)
    PROVE  Delivery'
<1> USE DEF ServerNotices, OnDisconnected
<1>1. \A l \in Layers : epoch[l] \in Nat
  BY DEF TypeInv, TypeOK, ServerTypeOK
<1>2. CASE mHistory' = Silent /\ epoch' = [l \in Layers |-> epoch[l] + 1]
  <2>1. HistoryNumbered'
    BY <1>2 DEF HistoryNumbered, Silent
  <2>2. \A l \in Layers : Continues(mHistory[l], epoch[l], mHistory'[l], epoch'[l])
    BY <1>1, <1>2 DEF Continues
  <2>3. QED
    BY <2>1, <2>2, ServerKeepsDelivery
<1>3. CASE UNCHANGED <<mHistory, epoch>>
  <2>1. HistoryNumbered'
    BY <1>3 DEF Delivery, HistoryNumbered
  <2>2. \A l \in Layers : Continues(mHistory[l], epoch[l], mHistory'[l], epoch'[l])
    BY <1>3 DEF Continues
  <2>3. QED
    BY <2>1, <2>2, ServerKeepsDelivery
<1>4. QED
  BY <1>2, <1>3

LEMMA DeliveryDelta ==
    ASSUME TypeInv, TypeInv', Delivery, NEW s \in Sessions, NEW l \in Layers,
           OnDeltaEvent(s, l), UNCHANGED clientVars
    PROVE  Delivery'
<1> DEFINE updates == Head(toServer[s][l]).updates
           number == GetSequenceNumber(l)
           delta == [type |-> "Delta", user |-> ClientOf[s], updates |-> updates,
                     sequence |-> number, epoch |-> epoch[l]]
           ack == [type |-> "Acknowledge", updates |-> PathsOnly(updates),
                   sequence |-> number, epoch |-> epoch[l]]
<1>1. CASE ~ChannelExists
  <2>1. UNCHANGED <<mHistory, epoch, toClient>>
    BY <1>1 DEF OnDeltaEvent
  <2>2. HistoryNumbered'
    BY <2>1 DEF Delivery, HistoryNumbered
  <2>3. \A m \in Layers : Continues(mHistory[m], epoch[m], mHistory'[m], epoch'[m])
    BY <2>1 DEF Continues
  <2>4. QED
    BY <2>1, <2>2, <2>3, ServerKeepsDelivery
<1>2. CASE ChannelExists
  <2>1. /\ mHistory' = [mHistory EXCEPT ![l] = Append(@, delta)]
        /\ epoch' = epoch
        /\ SendToOthers(s, l, delta, <<ack>>)
    BY <1>2 DEF OnDeltaEvent
  <2>2. /\ mHistory \in [Layers -> Seq(ServerDelta)] /\ epoch \in [Layers -> Nat]
        /\ toClient \in [Sessions -> [Layers -> Seq(ServerEvent)]]
    BY DEF TypeInv, TypeOK, ServerTypeOK, WireTypeOK
  <2>3. number = Len(mHistory[l]) + 1 /\ Len(mHistory[l]) \in Nat
    BY <2>2 DEF GetSequenceNumber
  <2>4. /\ delta.sequence = number /\ delta.epoch = epoch[l] /\ delta.user = ClientOf[s]
        /\ delta.updates = updates
        /\ ack.sequence = number /\ ack.epoch = epoch[l] /\ ack.updates = PathsOnly(updates)
    OBVIOUS
  <2> HIDE DEF delta, ack, number, updates
  <2>5. /\ DOMAIN mHistory'[l] = 1..number
        /\ \A n \in DOMAIN mHistory[l] : n \in DOMAIN mHistory'[l]
                                          /\ mHistory'[l][n] = mHistory[l][n]
        /\ mHistory'[l][number] = delta
        /\ DOMAIN mHistory[l] = 1..(number - 1) /\ number \in Nat
        /\ \A m \in Layers \ {l} : mHistory'[m] = mHistory[m]
    BY <2>1, <2>2, <2>3
  <2>6. HistoryNumbered'
    <3>1. \A n \in DOMAIN mHistory'[l] : n \in DOMAIN mHistory[l] \/ n = number
      BY <2>5
    <3>2. QED
      BY <2>1, <2>4, <2>5, <3>1 DEF Delivery, HistoryNumbered
  <2>7. \A m \in Layers : Continues(mHistory[m], epoch[m], mHistory'[m], epoch'[m])
    BY <2>1, <2>5 DEF Continues
  <2>8. \A c \in Clients : Genuine(mHistory'[l], epoch'[l], c, delta)
    BY <2>1, <2>2, <2>4, <2>5 DEF Genuine
  <2>9. Genuine(mHistory'[l], epoch'[l], ClientOf[s], ack)
    BY <2>1, <2>2, <2>4, <2>5 DEF Genuine
  <2>10. ASSUME NEW t \in Sessions, NEW m \in Layers, NEW i \in DOMAIN toClient'[t][m]
         PROVE  \/ i \in DOMAIN toClient[t][m] /\ toClient'[t][m][i] = toClient[t][m][i]
                \/ Genuine(mHistory'[m], epoch'[m], ClientOf[t], toClient'[t][m][i])
    <3> DEFINE sent == IF t \in Recipients(s) THEN <<delta>>
                       ELSE IF t = s THEN <<ack>> ELSE <<>>
    <3>1. toClient[t][m] \in Seq(ServerEvent) /\ ClientOf[t] \in Clients
      BY <2>2, LiveWireAssumption
    <3>2. CASE m = l
      <4>1. toClient'[t][m] = toClient[t][m] \o sent
        BY <2>1, <2>2, <3>2 DEF SendToOthers
      <4>2. \/ sent = <<>>
            \/ sent = <<delta>>
            \/ t = s /\ sent = <<ack>>
        OBVIOUS
      <4> HIDE DEF sent
      <4>3. QED
        <5>1. CASE sent = <<>>
          BY <2>10, <3>1, <4>1, <5>1
        <5>2. CASE sent = <<delta>>
          <6>1. \/ i \in DOMAIN toClient[t][m] /\ toClient'[t][m][i] = toClient[t][m][i]
                \/ toClient'[t][m][i] = delta
            BY <2>10, <3>1, <4>1, <5>2
          <6>2. QED
            BY <2>8, <3>1, <3>2, <6>1
        <5>3. CASE t = s /\ sent = <<ack>>
          <6>1. \/ i \in DOMAIN toClient[t][m] /\ toClient'[t][m][i] = toClient[t][m][i]
                \/ toClient'[t][m][i] = ack
            BY <2>10, <3>1, <4>1, <5>3
          <6>2. QED
            BY <2>9, <3>2, <5>3, <6>1
        <5>4. QED
          BY <4>2, <5>1, <5>2, <5>3
    <3>3. CASE m # l
      <4>1. toClient'[t][m] = toClient[t][m]
        BY <2>1, <2>2, <3>3 DEF SendToOthers
      <4>2. QED
        BY <2>10, <4>1
    <3>4. QED
      BY <3>2, <3>3
  <2>11. QED
    BY <2>6, <2>7, <2>10, ServerKeepsDelivery
<1>3. QED
  BY <1>1, <1>2

LEMMA DeliveryReload ==
    ASSUME TypeInv, TypeInv', Delivery, NEW s \in Sessions, NEW l \in Layers,
           OnReloadEvent(s, l), UNCHANGED clientVars
    PROVE  Delivery'
<1> DEFINE reload == [type |-> "Reload", sequence |-> GetSequenceNumber(l)]
<1>1. CASE ~ChannelExists
  <2>1. UNCHANGED <<mHistory, epoch, toClient>>
    BY <1>1 DEF OnReloadEvent
  <2>2. HistoryNumbered'
    BY <2>1 DEF Delivery, HistoryNumbered
  <2>3. \A m \in Layers : Continues(mHistory[m], epoch[m], mHistory'[m], epoch'[m])
    BY <2>1 DEF Continues
  <2>4. QED
    BY <2>1, <2>2, <2>3, ServerKeepsDelivery
<1>2. CASE ChannelExists
  <2>1. /\ mHistory' = [mHistory EXCEPT ![l] = <<>>]
        /\ epoch' = [epoch EXCEPT ![l] = @ + 1]
        /\ SendToOthers(s, l, reload, <<>>)
    BY <1>2 DEF OnReloadEvent
  <2>2. /\ mHistory \in [Layers -> Seq(ServerDelta)] /\ epoch \in [Layers -> Nat]
        /\ toClient \in [Sessions -> [Layers -> Seq(ServerEvent)]]
    BY DEF TypeInv, TypeOK, ServerTypeOK, WireTypeOK
  <2>3. HistoryNumbered'
    BY <2>1, <2>2 DEF Delivery, HistoryNumbered
  <2>4. \A m \in Layers : Continues(mHistory[m], epoch[m], mHistory'[m], epoch'[m])
    BY <2>1, <2>2 DEF Continues
  <2>5. reload.type = "Reload"
    OBVIOUS
  <2> HIDE DEF reload
  <2>6. ASSUME NEW t \in Sessions, NEW m \in Layers, NEW i \in DOMAIN toClient'[t][m]
        PROVE  \/ i \in DOMAIN toClient[t][m] /\ toClient'[t][m][i] = toClient[t][m][i]
               \/ toClient'[t][m][i].type = "Reload"
    <3> DEFINE sent == IF t \in Recipients(s) THEN <<reload>>
                       ELSE IF t = s THEN <<>> ELSE <<>>
    <3>1. toClient[t][m] \in Seq(ServerEvent)
      BY <2>2
    <3>2. CASE m = l
      <4>1. toClient'[t][m] = toClient[t][m] \o sent
        BY <2>1, <2>2, <3>2 DEF SendToOthers
      <4>2. sent = <<>> \/ sent = <<reload>>
        OBVIOUS
      <4> HIDE DEF sent
      <4>3. QED
        BY <2>5, <2>6, <3>1, <4>1, <4>2
    <3>3. CASE m # l
      <4>1. toClient'[t][m] = toClient[t][m]
        BY <2>1, <2>2, <3>3 DEF SendToOthers
      <4>2. QED
        BY <2>6, <4>1
    <3>4. QED
      BY <3>2, <3>3
  <2>7. QED
    BY <2>3, <2>4, <2>6, ServerKeepsDelivery
<1>3. QED
  BY <1>1, <1>2

LEMMA DeliveryJoin ==
    ASSUME TypeInv, TypeInv', Delivery, NEW c \in Clients, NEW s \in Sessions, Join(c, s)
    PROVE  Delivery'
<1> USE DEF Join, OnConnected, ClientOnConnected
<1>1. /\ toClient \in [Sessions -> [Layers -> Seq(ServerEvent)]]
      /\ mHistory \in [Layers -> Seq(ServerDelta)] /\ epoch \in [Layers -> Nat]
      /\ mWebsocketClient \in [Clients -> Sessions \cup {NoSession}]
  BY DEF TypeInv, TypeOK, WireTypeOK, ServerTypeOK, ClientTypeOK
<1>2. HistoryNumbered'
  BY DEF Delivery, HistoryNumbered
<1>3. OwnSessions'
  <2>1. ClientOf[s] = c
    BY DEF SessionsOf
  <2>2. QED
    BY <1>1, <2>1 DEF Delivery, OwnSessions, InLiveMode
<1>4. ASSUME NEW l \in Layers, NEW n \in DOMAIN mHistory[l]
      PROVE  Genuine(mHistory[l], epoch[l], ClientOf[s], mHistory[l][n])
  BY <1>1 DEF Delivery, HistoryNumbered, Genuine
<1>5. ASSUME NEW t \in Sessions, NEW l \in Layers, NEW i \in DOMAIN toClient'[t][l]
      PROVE  toClient'[t][l][i].type # "Reload"
             => Genuine(mHistory[l], epoch[l], ClientOf[t], toClient'[t][l][i])
  <2>1. toClient[t][l] \in Seq(ServerEvent) /\ mHistory[l] \in Seq(ServerDelta)
    BY <1>1
  <2>2. CASE t = s
    <3>1. toClient'[t][l] = toClient[t][l] \o mHistory[l]
      BY <1>1, <2>2
    <3>2. \/ i \in DOMAIN toClient[t][l] /\ toClient'[t][l][i] = toClient[t][l][i]
          \/ \E n \in DOMAIN mHistory[l] : toClient'[t][l][i] = mHistory[l][n]
      <4>1. mHistory[l] \in Seq(ServerEvent)
        BY <2>1, SeqOfSubset DEF ServerEvent
      <4> DEFINE u == toClient[t][l]
                 v == mHistory[l]
                 w == toClient'[t][l]
      <4>2. u \in Seq(ServerEvent) /\ v \in Seq(ServerEvent) /\ w = u \o v /\ i \in DOMAIN w
        BY <1>5, <2>1, <3>1, <4>1
      <4> HIDE DEF u, v, w, Join, OnConnected, ClientOnConnected
      <4>3. /\ Len(u) \in Nat /\ Len(v) \in Nat
            /\ DOMAIN u = 1..Len(u) /\ DOMAIN v = 1..Len(v)
            /\ i \in 1..(Len(u) + Len(v))
        BY <4>2
      <4>4. CASE i <= Len(u)
        <5>1. i \in DOMAIN u /\ w[i] = u[i]
          BY <4>2, <4>3, <4>4
        <5>2. QED
          BY <5>1 DEF u, w
      <4>5. CASE i > Len(u)
        <5>1. i - Len(u) \in DOMAIN v /\ w[i] = v[i - Len(u)]
          BY <4>2, <4>3, <4>5
        <5>2. QED
          BY <5>1 DEF v, w
      <4>6. QED
        BY <4>3, <4>4, <4>5
    <3>3. QED
      BY <1>4, <2>2, <3>2 DEF Delivery, WireGenuine
  <2>3. CASE t # s
    <3>1. toClient'[t] = toClient[t]
      BY <1>1, <2>3
    <3>2. QED
      BY <1>5, <3>1 DEF Delivery, WireGenuine
  <2>4. QED
    BY <2>2, <2>3
<1>6. WireGenuine'
  BY <1>5 DEF WireGenuine
<1>7. AccumulatedGenuine' /\ DataGenuine'
  BY DEF Delivery, AccumulatedGenuine, DataGenuine
<1>8. QED
  BY <1>2, <1>3, <1>6, <1>7 DEF Delivery

LEMMA DeliveryLeave ==
    ASSUME TypeInv, TypeInv', Delivery, NEW c \in Clients, Leave(c)
    PROVE  Delivery'
<1>1. /\ toClient \in [Sessions -> [Layers -> Seq(ServerEvent)]]
      /\ mWebsocketClient \in [Clients -> Sessions \cup {NoSession}]
  BY DEF TypeInv, TypeOK, WireTypeOK, ClientTypeOK
<1>2. /\ UNCHANGED <<serverVars, data, mAccumulatedDeltas, mAccumulatedAcknowledges>>
      /\ toClient' = [toClient EXCEPT ![mWebsocketClient[c]] = Silent]
      /\ \/ mWebsocketClient' = mWebsocketClient
         \/ mWebsocketClient' = [mWebsocketClient EXCEPT ![c] = NoSession]
  BY Zenon DEF Leave, ClientOnDisconnected, Disconnect
<1>3. HistoryNumbered'
  BY <1>2 DEF Delivery, HistoryNumbered, serverVars
<1>4. OwnSessions'
  BY <1>1, <1>2 DEF Delivery, OwnSessions, InLiveMode
<1>5. WireGenuine'
  BY <1>1, <1>2 DEF Delivery, WireGenuine, Silent, serverVars
<1>6. AccumulatedGenuine' /\ DataGenuine'
  BY <1>2 DEF Delivery, AccumulatedGenuine, DataGenuine, serverVars
<1>7. QED
  BY <1>3, <1>4, <1>5, <1>6 DEF Delivery

LEMMA DeliveryClientReceives ==
    ASSUME TypeInv, TypeInv', Delivery, NEW c \in Clients, NEW l \in Layers,
           ClientReceives(c, l)
    PROVE  Delivery'
<1> DEFINE s == mWebsocketClient[c]
           event == Head(toClient[s][l])
<1> USE DEF ClientReceives
<1>1. /\ s \in Sessions /\ toClient[s][l] \in Seq(ServerEvent) /\ toClient[s][l] # <<>>
      /\ toClient \in [Sessions -> [Layers -> Seq(ServerEvent)]]
      /\ mAccumulatedDeltas \in [Clients -> [Layers -> Seq(ServerDelta)]]
      /\ mAccumulatedAcknowledges \in [Clients -> [Layers -> Seq(Acknowledge)]]
  BY DEF TypeInv, TypeOK, OnMessage, IsConnected, InLiveMode, ClientTypeOK, WireTypeOK
<1>2. ClientOf[s] = c
  BY DEF Delivery, OwnSessions, OnMessage, IsConnected
<1>3. event = toClient[s][l][1] /\ 1 \in DOMAIN toClient[s][l]
  BY <1>1
<1>4. event.type # "Reload" => Genuine(mHistory[l], epoch[l], c, event)
  BY <1>1, <1>2, <1>3 DEF Delivery, WireGenuine
<1>5. /\ UNCHANGED <<mHistory, epoch, mWebsocketClient, data>>
      /\ toClient' = [toClient EXCEPT ![s][l] = Tail(@)]
      /\ mAccumulatedDeltas' = [mAccumulatedDeltas EXCEPT ![c][l] =
             CASE event.type = "Delta" -> Append(@, event)
               [] event.type = "Reload" -> LeftByReload(@)
               [] OTHER -> @]
      /\ mAccumulatedAcknowledges' = [mAccumulatedAcknowledges EXCEPT ![c][l] =
             CASE event.type = "Acknowledge" -> Append(@, event)
               [] event.type = "Reload" -> LeftByReload(@)
               [] OTHER -> @]
  BY DEF OnMessage, serverVars
<1>6. HistoryNumbered' /\ OwnSessions' /\ DataGenuine'
  BY <1>5 DEF Delivery, HistoryNumbered, OwnSessions, InLiveMode, DataGenuine
<1> HIDE DEF event, ClientReceives
<1>7. WireGenuine'
  <2>1. ASSUME NEW t \in Sessions, NEW m \in Layers, NEW i \in DOMAIN toClient'[t][m]
        PROVE  \E j \in DOMAIN toClient[t][m] : toClient'[t][m][i] = toClient[t][m][j]
    <3>1. CASE t = s /\ m = l
      <4>1. toClient'[t][m] = Tail(toClient[s][l])
        BY <1>1, <1>5, <3>1
      <4>2. i + 1 \in DOMAIN toClient[s][l] /\ toClient'[t][m][i] = toClient[s][l][i + 1]
        BY <1>1, <2>1, <4>1
      <4>3. QED
        BY <3>1, <4>2
    <3>2. CASE ~(t = s /\ m = l)
      BY <1>1, <1>5, <2>1, <3>2
    <3>3. QED
      BY <3>1, <3>2
  <2>2. QED
    BY <1>5, <2>1 DEF Delivery, WireGenuine
<1>8. ASSUME NEW d \in Clients, NEW m \in Layers, NEW i \in DOMAIN mAccumulatedDeltas'[d][m]
      PROVE  Genuine(mHistory[m], epoch[m], d, mAccumulatedDeltas'[d][m][i])
  <2>1. CASE d = c /\ m = l
    <3>1. mAccumulatedDeltas[c][l] \in Seq(ServerDelta)
      BY <1>1
    <3>2. CASE event.type = "Delta"
      <4>1. mAccumulatedDeltas'[c][l] = Append(mAccumulatedDeltas[c][l], event)
        BY <1>1, <1>5, <3>2
      <4>2. \/ i \in DOMAIN mAccumulatedDeltas[c][l]
               /\ mAccumulatedDeltas'[c][l][i] = mAccumulatedDeltas[c][l][i]
            \/ mAccumulatedDeltas'[c][l][i] = event
        BY <1>8, <2>1, <3>1, <4>1
      <4>3. QED
        BY <1>4, <2>1, <3>2, <4>2 DEF Delivery, AccumulatedGenuine
    <3>3. CASE event.type # "Delta"
      <4>1. mAccumulatedDeltas'[c][l] \in {<<>>, mAccumulatedDeltas[c][l]}
        BY <1>1, <1>5, <3>3 DEF LeftByReload
      <4>2. QED
        BY <1>8, <2>1, <4>1 DEF Delivery, AccumulatedGenuine
    <3>4. QED
      BY <3>2, <3>3
  <2>2. CASE ~(d = c /\ m = l)
    <3>1. mAccumulatedDeltas'[d][m] = mAccumulatedDeltas[d][m]
      BY <1>1, <1>5, <2>2
    <3>2. QED
      BY <1>8, <3>1 DEF Delivery, AccumulatedGenuine
  <2>3. QED
    BY <2>1, <2>2
<1>9. ASSUME NEW d \in Clients, NEW m \in Layers,
             NEW i \in DOMAIN mAccumulatedAcknowledges'[d][m]
      PROVE  Genuine(mHistory[m], epoch[m], d, mAccumulatedAcknowledges'[d][m][i])
  <2>1. CASE d = c /\ m = l
    <3>1. mAccumulatedAcknowledges[c][l] \in Seq(Acknowledge)
      BY <1>1
    <3>2. CASE event.type = "Acknowledge"
      <4>1. mAccumulatedAcknowledges'[c][l] = Append(mAccumulatedAcknowledges[c][l], event)
        BY <1>1, <1>5, <3>2
      <4>2. \/ i \in DOMAIN mAccumulatedAcknowledges[c][l]
               /\ mAccumulatedAcknowledges'[c][l][i] = mAccumulatedAcknowledges[c][l][i]
            \/ mAccumulatedAcknowledges'[c][l][i] = event
        BY <1>9, <2>1, <3>1, <4>1
      <4>3. QED
        BY <1>4, <2>1, <3>2, <4>2 DEF Delivery, AccumulatedGenuine
    <3>3. CASE event.type # "Acknowledge"
      <4>1. mAccumulatedAcknowledges'[c][l] \in {<<>>, mAccumulatedAcknowledges[c][l]}
        BY <1>1, <1>5, <3>3 DEF LeftByReload
      <4>2. QED
        BY <1>9, <2>1, <4>1 DEF Delivery, AccumulatedGenuine
    <3>4. QED
      BY <3>2, <3>3
  <2>2. CASE ~(d = c /\ m = l)
    <3>1. mAccumulatedAcknowledges'[d][m] = mAccumulatedAcknowledges[d][m]
      BY <1>1, <1>5, <2>2
    <3>2. QED
      BY <1>9, <3>1 DEF Delivery, AccumulatedGenuine
  <2>3. QED
    BY <2>1, <2>2
<1>10. AccumulatedGenuine'
  BY <1>5, <1>8, <1>9 DEF AccumulatedGenuine
<1>11. QED
  BY <1>6, <1>7, <1>10 DEF Delivery

\* What the host's thread has to show: that the layers and what is accumulated stay
\* genuine.
LEMMA HostKeepsDelivery ==
    ASSUME Delivery,
           UNCHANGED <<mHistory, epoch, toClient, mWebsocketClient>>,
           AccumulatedGenuine',
           \A c \in Clients, l \in Layers :
               LayerGenuine(mHistory[l], epoch[l], c, data'[c][l])
    PROVE  Delivery'
<1>1. HistoryNumbered' /\ OwnSessions' /\ WireGenuine'
  BY DEF Delivery, HistoryNumbered, OwnSessions, InLiveMode, WireGenuine
<1>2. DataGenuine'
  BY DEF DataGenuine
<1>3. QED
  BY <1>1, <1>2 DEF Delivery

\* ... and, if it changes one layer, that this one does.
LEMMA LayerKeepsDelivery ==
    ASSUME TypeInv, Delivery, NEW c \in Clients, NEW l \in Layers, NEW d,
           UNCHANGED <<mHistory, epoch, toClient, mWebsocketClient, mAccumulatedDeltas,
                       mAccumulatedAcknowledges>>,
           data' = [data EXCEPT ![c][l] = d],
           LayerGenuine(mHistory[l], epoch[l], c, d)
    PROVE  Delivery'
<1>1. AccumulatedGenuine'
  BY DEF Delivery, AccumulatedGenuine
<1>2. data \in [Clients -> [Layers -> LayerState]]
  BY DEF TypeInv, TypeOK, ClientTypeOK
<1>3. ASSUME NEW e \in Clients, NEW m \in Layers
      PROVE  LayerGenuine(mHistory[m], epoch[m], e, data'[e][m])
  <2>1. CASE e = c /\ m = l
    <3>1. data'[e][m] = d
      BY <1>2, <2>1
    <3>2. QED
      BY <2>1, <3>1
  <2>2. CASE ~(e = c /\ m = l)
    <3>1. data'[e][m] = data[e][m]
      BY <1>2, <2>2
    <3>2. QED
      BY <3>1 DEF Delivery, DataGenuine
  <2>3. QED
    BY <2>1, <2>2
<1>4. QED
  BY <1>1, <1>3, HostKeepsDelivery

LEMMA DeliveryHostEdits ==
    ASSUME TypeInv, Delivery, NEW c \in Clients, NEW l \in Layers, HostEdits(c, l)
    PROVE  Delivery'
<1>1. PICK p \in Paths : \E k \in FieldsOf[p] :
          \E v \in Inputs(data[c][l].mData[p][k], k) : Edit(c, l, p, k, v)
  BY DEF HostEdits
<1>2. PICK k \in FieldsOf[p] :
          \E v \in Inputs(data[c][l].mData[p][k], k) : Edit(c, l, p, k, v)
  BY <1>1
<1>3. PICK v \in Inputs(data[c][l].mData[p][k], k) : Edit(c, l, p, k, v)
  BY <1>2
<1>4. data[c][l] \in LayerState /\ LayerGenuine(mHistory[l], epoch[l], c, data[c][l])
  BY DEF TypeInv, TypeOK, ClientTypeOK, Delivery, DataGenuine
<1>5. LayerGenuine(mHistory[l], epoch[l], c, Set(data[c][l], p, k, v))
  BY <1>4, SetGenuine
<1>6. UNCHANGED <<mHistory, epoch>>
  BY DEF HostEdits, serverVars
<1>7. /\ data' = [data EXCEPT ![c][l] = Set(data[c][l], p, k, v)]
      /\ UNCHANGED <<toClient, mWebsocketClient, mAccumulatedDeltas,
                     mAccumulatedAcknowledges>>
  BY <1>3 DEF Edit, wireVars
<1>8. QED
  BY <1>5, <1>6, <1>7, LayerKeepsDelivery

LEMMA DeliveryHostOpens ==
    ASSUME TypeInv, Delivery, NEW c \in Clients, NEW l \in Layers, HostOpens(c, l)
    PROVE  Delivery'
<1>1. /\ data' = [data EXCEPT ![c][l] = OnLoaded(File[l])]
      /\ UNCHANGED <<mHistory, epoch, toClient, mWebsocketClient, mAccumulatedDeltas,
                     mAccumulatedAcknowledges>>
  BY DEF HostOpens, OpenLayer, wireVars, serverVars
<1>2. QED
  BY <1>1, OnLoadedGenuine, LayerKeepsDelivery

LEMMA DeliveryHostReloads ==
    ASSUME TypeInv, Delivery, NEW c \in Clients, NEW l \in Layers, HostReloads(c, l)
    PROVE  Delivery'
<1>1. /\ data' = [data EXCEPT ![c][l] = OnLoaded(File[l])]
      /\ UNCHANGED <<mHistory, epoch, toClient, mWebsocketClient, mAccumulatedDeltas,
                     mAccumulatedAcknowledges>>
  BY DEF HostReloads, ReloadLayer, serverVars
<1>2. QED
  BY <1>1, OnLoadedGenuine, LayerKeepsDelivery

LEMMA DeliveryHostApplies ==
    ASSUME TypeInv, Delivery, NEW c \in Clients, NEW l \in Layers, HostApplies(c, l)
    PROVE  Delivery'
<1>1. /\ data' = [data EXCEPT ![c][l] = ApplyNextUpdate(data[c][l])]
      /\ UNCHANGED <<mHistory, epoch, toClient, mWebsocketClient, mAccumulatedDeltas,
                     mAccumulatedAcknowledges>>
  BY DEF HostApplies, ApplyRemoteUpdate, wireVars, serverVars
<1>2. /\ data[c][l] \in LayerState /\ HasNextUpdate(data[c][l])
      /\ LayerGenuine(mHistory[l], epoch[l], c, data[c][l])
  BY DEF HostApplies, ApplyRemoteUpdate, TypeInv, TypeOK, ClientTypeOK, LoopInv, Delivery,
         DataGenuine
<1>3. LayerGenuine(mHistory[l], epoch[l], c, ApplyNextUpdate(data[c][l]))
  BY <1>2, ApplyNextGenuine
<1>4. QED
  BY <1>1, <1>3, LayerKeepsDelivery

LEMMA DeliveryHostTicks ==
    ASSUME TypeInv, Delivery, NEW c \in Clients, HostTicks(c)
    PROVE  Delivery'
<1>1. /\ UNCHANGED <<mHistory, epoch, toClient, mWebsocketClient>>
      /\ data' = [data EXCEPT ![c] = [l \in Layers |-> Accumulated(c, l)]]
      /\ mAccumulatedDeltas' = [mAccumulatedDeltas EXCEPT ![c] = Silent]
      /\ mAccumulatedAcknowledges' = [mAccumulatedAcknowledges EXCEPT ![c] = Silent]
  BY DEF HostTicks, Tick, serverVars
<1>2. ClientTypeOK
  BY DEF TypeInv, TypeOK
<1>3. AccumulatedGenuine'
  <2>1. \A l \in Layers : Silent[l] = <<>>
    BY DEF Silent
  <2>2. \A d \in Clients, l \in Layers :
           /\ \/ mAccumulatedDeltas'[d][l] = <<>>
              \/ mAccumulatedDeltas'[d][l] = mAccumulatedDeltas[d][l]
           /\ \/ mAccumulatedAcknowledges'[d][l] = <<>>
              \/ mAccumulatedAcknowledges'[d][l] = mAccumulatedAcknowledges[d][l]
    BY <1>1, <1>2, <2>1 DEF ClientTypeOK
  <2>3. QED
    BY <1>1, <2>2 DEF Delivery, AccumulatedGenuine
<1>4. ASSUME NEW l \in Layers
      PROVE  LayerGenuine(mHistory[l], epoch[l], c, Accumulated(c, l))
  <2> DEFINE fetched == FetchLocalDeltas(Reloaded(c, l))
             acknowledged == AccumulateRemoteUpdates(fetched, mAccumulatedAcknowledges[c][l])
  <2>1. LayerGenuine(mHistory[l], epoch[l], c, data[c][l])
    BY DEF Delivery, DataGenuine
  <2>2. LayerGenuine(mHistory[l], epoch[l], c, Reloaded(c, l))
    BY <2>1, OnLoadedGenuine DEF Reloaded
  <2>3. fetched \in LayerState /\ LayerGenuine(mHistory[l], epoch[l], c, fetched)
    BY <1>2, <2>2, ReloadedType, FetchLocalDeltasType, FetchLocalDeltasGenuine
  <2> HIDE DEF fetched
  <2>4. mAccumulatedAcknowledges[c][l] \in Seq(ServerDelta \cup Acknowledge)
    BY <1>2, SeqOfSubset DEF ClientTypeOK
  <2>5. acknowledged \in LayerState
    BY <2>3, <2>4, AccumulateRemoteUpdatesType
  <2>6. LayerGenuine(mHistory[l], epoch[l], c, acknowledged)
    BY <2>3, AccumulateGenuine DEF Delivery, AccumulatedGenuine
  <2>7. LayerGenuine(mHistory[l], epoch[l], c,
                     AccumulateRemoteUpdates(acknowledged, mAccumulatedDeltas[c][l]))
    <3> HIDE DEF acknowledged
    <3> QED BY <2>5, <2>6, AccumulateGenuine DEF Delivery, AccumulatedGenuine
  <2>8. QED
    BY <2>1, <2>7 DEF Accumulated, fetched
<1>5. ASSUME NEW d \in Clients, NEW l \in Layers
      PROVE  LayerGenuine(mHistory[l], epoch[l], d, data'[d][l])
  <2>1. CASE d = c
    <3>1. data'[d][l] = Accumulated(c, l)
      BY <1>1, <1>2, <2>1 DEF ClientTypeOK
    <3>2. QED
      BY <1>4, <2>1, <3>1
  <2>2. CASE d # c
    <3>1. data'[d][l] = data[d][l]
      BY <1>1, <1>2, <2>2 DEF ClientTypeOK
    <3>2. QED
      BY <3>1 DEF Delivery, DataGenuine
  <2>3. QED
    BY <2>1, <2>2
<1>6. QED
  BY <1>1, <1>3, <1>5, HostKeepsDelivery

LEMMA DeliveryStep == TypeInv /\ TypeInv' /\ Delivery /\ [Next]_vars => Delivery'
<1> SUFFICES ASSUME TypeInv, TypeInv', Delivery, [Next]_vars PROVE Delivery'
  OBVIOUS
<1>1. ASSUME NEW c \in Clients, NEW s \in Sessions, Join(c, s) PROVE Delivery'
  BY <1>1, DeliveryJoin
<1>2. ASSUME NEW c \in Clients, Leave(c) PROVE Delivery'
  BY <1>2, DeliveryLeave
<1>3. ASSUME NEW c \in Clients, HostTicks(c) PROVE Delivery'
  BY <1>3, DeliveryHostTicks
<1>4. ASSUME NEW s \in Sessions, ServerNotices(s) PROVE Delivery'
  BY <1>4, DeliveryServerNotices
<1>5. ASSUME NEW s \in Sessions, NEW l \in Layers, ServerReceives(s, l) PROVE Delivery'
  BY <1>5, DeliveryDelta, DeliveryReload DEF ServerReceives
<1>6. ASSUME NEW c \in Clients, NEW l \in Layers, ClientReceives(c, l) PROVE Delivery'
  BY <1>6, DeliveryClientReceives
<1>7. ASSUME NEW c \in Clients, NEW l \in Layers, HostEdits(c, l) PROVE Delivery'
  BY <1>7, DeliveryHostEdits
<1>8. ASSUME NEW c \in Clients, NEW l \in Layers, HostApplies(c, l) PROVE Delivery'
  BY <1>8, DeliveryHostApplies
<1>9. ASSUME NEW c \in Clients, NEW l \in Layers, HostOpens(c, l) PROVE Delivery'
  BY <1>9, DeliveryHostOpens
<1>10. ASSUME NEW c \in Clients, NEW l \in Layers, HostReloads(c, l) PROVE Delivery'
  BY <1>10, DeliveryHostReloads
<1>11. CASE UNCHANGED vars
  <2>1. UNCHANGED <<mHistory, epoch, toClient, mWebsocketClient, data, mAccumulatedDeltas,
                    mAccumulatedAcknowledges>>
    BY <1>11 DEF vars, wireVars, serverVars, clientVars
  <2>2. QED
    BY <2>1 DEF Delivery, HistoryNumbered, OwnSessions, InLiveMode, WireGenuine,
                AccumulatedGenuine, DataGenuine
<1>12. QED
  BY <1>1, <1>2, <1>3, <1>4, <1>5, <1>6, <1>7, <1>8, <1>9, <1>10, <1>11 DEF Next

\* Whatever is on its way to a client, on its socket, accumulated by OnMessage or queued
\* in a layer, is what the server numbered, for any number of users and in any order of
\* edits, ticks, reloads, lost connections and returns.
THEOREM DeliveryCorrect == Spec => []Delivery
<1>1. Spec => []TypeInv
  BY TypeInit, TypeStep, PTL DEF Spec
<1>2. QED
  BY <1>1, DeliveryInit, DeliveryStep, PTL DEF Spec

\* What a client has applied is, number by number, what the server's history holds,
\* unless the server has forgotten it since: ProcessRemoteUpdates never takes an update
\* out of its turn, twice, or another one than the server sent under that number.
THEOREM AppliedCorrect == Spec => []AppliedIsHistory
<1>1. Delivery => AppliedIsHistory
  <2> SUFFICES ASSUME Delivery, NEW c \in Clients, NEW l \in Layers,
                      NEW n \in DOMAIN data[c][l].applied,
                      data[c][l].applied[n].epoch = epoch[l]
               PROVE  /\ n \in DOMAIN mHistory[l]
                      /\ \/ data[c][l].applied[n].updates = mHistory[l][n].updates
                         \/ /\ mHistory[l][n].user = c
                            /\ data[c][l].applied[n].updates
                                   = PathsOnly(mHistory[l][n].updates)
    BY DEF AppliedIsHistory
  <2>1. /\ data[c][l].applied[n].sequence = n
        /\ Genuine(mHistory[l], epoch[l], c, data[c][l].applied[n])
    BY DEF Delivery, DataGenuine, LayerGenuine
  <2>2. QED
    BY <2>1 DEF Genuine
<1>2. QED
  BY <1>1, DeliveryCorrect, PTL
=============================================================================
