--------------------------- MODULE LiveLogProofs ----------------------------
(***************************************************************************)
(* What becomes of an edit.  While it hides others' edits of its path, it  *)
(* or its acknowledgement is on its way; what the clients apply is one     *)
(* log, kept by the server and read by each of them from its start; and    *)
(* when all is quiet they see the same contents.                           *)
(***************************************************************************)
EXTENDS LiveStreamProofs

(***************************************************************************)
(* Why a path is masked.  Of the steps of an edit's way, each event of one *)
(* carries the path on to the next: the local deltas, the DeltaEvent, the  *)
(* acknowledgement on the socket, accumulated and queued.                  *)
(***************************************************************************)
Carries(events, type, p) ==
    \E i \in DOMAIN events : events[i].type = type /\ p \in PathsOf(events[i].updates)

Due(d, p) ==
    \E u \in d.mRemoteDeltasQueue : p \in PathsOf(u.updates) /\ u.updates[p] = <<>>

Cause(c, l, p) ==
    \/ p \in PathsOf(data[c][l].mLocalDeltas)
    \/ \E s \in SessionsOf(c) : Carries(toServer[s][l], "Delta", p)
    \/ InLiveMode(c) /\ Carries(toClient[mWebsocketClient[c]][l], "Acknowledge", p)
    \/ Carries(mAccumulatedAcknowledges[c][l], "Acknowledge", p)
    \/ Due(data[c][l], p)
    \/ l \in mRequestedReloads[c]

Caused ==
    \A c \in Steady, l \in OpenedFirst :
        \A p \in data[c][l].mUnacknowledgedFields : Cause(c, l, p)

(***************************************************************************)
(* An acknowledgement names paths and nothing else, so that it is taken    *)
(* for one when its turn comes, and every local edit can be sent.          *)
(***************************************************************************)
NamesOnly(table) == \A p \in Paths : table[p] \in {None, <<>>}

AcknowledgesName(events) ==
    \A i \in DOMAIN events : events[i].type = "Acknowledge" => NamesOnly(events[i].updates)

AcknowledgesNameOnly ==
    /\ \A s \in Sessions, l \in Layers : AcknowledgesName(toClient[s][l])
    /\ \A c \in Clients, l \in Layers : AcknowledgesName(mAccumulatedAcknowledges[c][l])

Sendable(table) ==
    \A p \in PathsOf(table) : \A i \in DOMAIN table[p] : table[p][i].key \notin Unserializable

EditsSendable ==
    \A c \in Clients, l \in Layers : Sendable(data[c][l].mLocalDeltas)

Masks ==
    /\ AcknowledgesNameOnly
    /\ EditsSendable
    /\ Caused

(***************************************************************************)
(* Sequences of events.                                                    *)
(***************************************************************************)
LEMMA CarriesMore ==
    ASSUME NEW S, NEW a \in Seq(S), NEW b \in Seq(S), NEW type, NEW p,
           Carries(a, type, p) \/ Carries(b, type, p)
    PROVE  Carries(a \o b, type, p)
<1> DEFINE ab == a \o b
<1>1. /\ Len(a) \in Nat /\ Len(b) \in Nat
      /\ DOMAIN a = 1..Len(a) /\ DOMAIN b = 1..Len(b)
      /\ DOMAIN ab = 1..(Len(a) + Len(b))
      /\ \A i \in 1..Len(a) : ab[i] = a[i]
      /\ \A i \in 1..Len(b) : ab[Len(a) + i] = b[i]
  OBVIOUS
<1> HIDE DEF ab
<1>2. CASE Carries(a, type, p)
  <2>1. PICK i \in DOMAIN a : a[i].type = type /\ p \in PathsOf(a[i].updates)
    BY <1>2 DEF Carries
  <2>2. i \in DOMAIN ab /\ ab[i] = a[i]
    BY <1>1
  <2>3. QED
    BY <2>1, <2>2 DEF Carries, ab
<1>3. CASE Carries(b, type, p)
  <2>1. PICK i \in DOMAIN b : b[i].type = type /\ p \in PathsOf(b[i].updates)
    BY <1>3 DEF Carries
  <2>2. Len(a) + i \in DOMAIN ab /\ ab[Len(a) + i] = b[i]
    BY <1>1
  <2>3. QED
    BY <2>1, <2>2 DEF Carries, ab
<1>4. QED
  BY <1>2, <1>3

LEMMA CarriesAppended ==
    ASSUME NEW S, NEW a \in Seq(S), NEW x, NEW type, NEW p,
           Carries(a, type, p) \/ (x.type = type /\ p \in PathsOf(x.updates))
    PROVE  Carries(Append(a, x), type, p)
<1> DEFINE longer == Append(a, x)
<1>1. /\ DOMAIN a = 1..Len(a) /\ Len(a) \in Nat
      /\ DOMAIN longer = 1..(Len(a) + 1)
      /\ \A i \in 1..Len(a) : longer[i] = a[i]
      /\ longer[Len(a) + 1] = x
  OBVIOUS
<1>2. Len(a) + 1 \in DOMAIN longer /\ DOMAIN a \subseteq DOMAIN longer
  BY <1>1
<1> HIDE DEF longer
<1>3. QED
  BY <1>1, <1>2 DEF Carries, longer

LEMMA CarriesRest ==
    ASSUME NEW S, NEW a \in Seq(S), a # <<>>, NEW type, NEW p, Carries(a, type, p)
    PROVE  \/ Head(a).type = type /\ p \in PathsOf(Head(a).updates)
           \/ Carries(Tail(a), type, p)
<1> DEFINE rest == Tail(a)
<1>1. /\ DOMAIN a = 1..Len(a) /\ Len(a) \in Nat /\ Head(a) = a[1]
      /\ DOMAIN rest = 1..(Len(a) - 1)
      /\ \A i \in 1..(Len(a) - 1) : rest[i] = a[i + 1]
  OBVIOUS
<1>2. PICK i \in DOMAIN a : a[i].type = type /\ p \in PathsOf(a[i].updates)
  BY DEF Carries
<1> HIDE DEF rest
<1>3. CASE i = 1
  BY <1>1, <1>2, <1>3
<1>4. CASE i # 1
  <2>1. i - 1 \in DOMAIN rest /\ rest[i - 1] = a[i]
    BY <1>1, <1>4
  <2>2. QED
    BY <1>2, <2>1 DEF Carries, rest
<1>5. QED
  BY <1>3, <1>4

LEMMA NamesAppended ==
    ASSUME NEW S, NEW a \in Seq(S), NEW x, AcknowledgesName(a),
           x.type = "Acknowledge" => NamesOnly(x.updates)
    PROVE  AcknowledgesName(Append(a, x))
<1>1. \A i \in DOMAIN Append(a, x) :
          \/ i \in DOMAIN a /\ Append(a, x)[i] = a[i]
          \/ Append(a, x)[i] = x
  OBVIOUS
<1>2. QED
  BY <1>1 DEF AcknowledgesName

LEMMA NamesRest ==
    ASSUME NEW S, NEW a \in Seq(S), a # <<>>, AcknowledgesName(a)
    PROVE  /\ AcknowledgesName(Tail(a))
           /\ Head(a).type = "Acknowledge" => NamesOnly(Head(a).updates)
<1>1. \A i \in DOMAIN Tail(a) : i + 1 \in DOMAIN a /\ Tail(a)[i] = a[i + 1]
  OBVIOUS
<1>2. 1 \in DOMAIN a /\ Head(a) = a[1]
  OBVIOUS
<1>3. QED
  BY <1>1, <1>2 DEF AcknowledgesName

LEMMA PathsOnlyNames ==
    ASSUME NEW table
    PROVE  NamesOnly(PathsOnly(table)) /\ PathsOf(PathsOnly(table)) = PathsOf(table)
<1>1. <<>> # None
  <2>1. \A S : <<>> \in Seq(S)
    OBVIOUS
  <2>2. QED
    BY <2>1, LayerDataAssumption
<1>2. QED
  BY <1>1 DEF NamesOnly, PathsOnly, PathsOf

(***************************************************************************)
(* Acknowledgements name paths only.                                       *)
(***************************************************************************)
LEMMA NamesInit == Init => AcknowledgesNameOnly
BY DEF Init, WireInit, ClientInit, Silent, AcknowledgesNameOnly, AcknowledgesName

\* What the socket of a client is sent.
LEMMA NamesSent ==
    ASSUME TypeInv, AcknowledgesNameOnly, NEW s \in Sessions, NEW l \in Layers,
           NEW event \in ServerEvent, NEW toSender \in Seq(ServerEvent),
           SendToOthers(s, l, event, toSender),
           event.type # "Acknowledge", AcknowledgesName(toSender)
    PROVE  \A t \in Sessions, m \in Layers : AcknowledgesName(toClient'[t][m])
<1> SUFFICES ASSUME NEW t \in Sessions, NEW m \in Layers
             PROVE  AcknowledgesName(toClient'[t][m])
  OBVIOUS
<1> DEFINE old == toClient[t][m]
           sent == IF t \in Recipients(s) THEN <<event>>
                   ELSE IF t = s THEN toSender ELSE <<>>
<1>1. toClient[t] \in [Layers -> Seq(ServerEvent)]
  BY DEF TypeInv, TypeOK, WireTypeOK
<1>2. AcknowledgesName(old)
  BY DEF AcknowledgesNameOnly
<1>3. sent \in Seq(ServerEvent)
  OBVIOUS
<1>4. AcknowledgesName(sent)
  <2>1. AcknowledgesName(<<event>>) /\ AcknowledgesName(<<>>)
    BY DEF AcknowledgesName
  <2>2. QED
    BY <2>1
<1>5. toClient'[t][m] = IF m = l THEN old \o sent ELSE old
  <2>1. toClient'[t] = [toClient[t] EXCEPT ![l] = @ \o sent]
    BY DEF SendToOthers
  <2> HIDE DEF sent
  <2>2. QED
    BY <1>1, <2>1
<1> HIDE DEF sent
<1>6. old \in Seq(ServerEvent)
  BY <1>1
<1> HIDE DEF old
<1>7. \A i \in DOMAIN (old \o sent) :
          \/ i \in DOMAIN old /\ (old \o sent)[i] = old[i]
          \/ i - Len(old) \in DOMAIN sent /\ (old \o sent)[i] = sent[i - Len(old)]
  BY <1>3, <1>6
<1>8. AcknowledgesName(old \o sent)
  BY <1>2, <1>4, <1>7 DEF AcknowledgesName
<1>9. QED
  BY <1>2, <1>5, <1>8

LEMMA NamesServerReceives ==
    ASSUME TypeInv, AcknowledgesNameOnly, NEW s \in Sessions, NEW l \in Layers,
           ServerReceives(s, l)
    PROVE  AcknowledgesNameOnly'
<1> DEFINE updates == Head(toServer[s][l]).updates
           delta == [type |-> "Delta", user |-> ClientOf[s], updates |-> updates,
                     sequence |-> GetSequenceNumber(l), epoch |-> epoch[l]]
           ack == [type |-> "Acknowledge", updates |-> PathsOnly(updates),
                   sequence |-> GetSequenceNumber(l), epoch |-> epoch[l]]
           reload == [type |-> "Reload", sequence |-> GetSequenceNumber(l)]
<1>1. /\ mAccumulatedAcknowledges' = mAccumulatedAcknowledges
      /\ \/ UNCHANGED toClient
         \/ /\ Head(toServer[s][l]).type = "Delta"
            /\ SendToOthers(s, l, delta, <<ack>>)
         \/ SendToOthers(s, l, reload, <<>>)
      /\ toServer[s][l] # <<>>
  BY DEF ServerReceives, OnDeltaEvent, OnReloadEvent, TakeFromClient, clientVars
<1>2. /\ toServer[s][l] \in Seq(ClientEvent)
      /\ mHistory[l] \in Seq(ServerDelta) /\ epoch[l] \in Nat /\ ClientOf[s] \in Clients
  BY LiveWireAssumption DEF TypeInv, TypeOK, WireTypeOK, ServerTypeOK
<1>3. GetSequenceNumber(l) \in Nat \ {0}
  BY <1>2 DEF GetSequenceNumber
<1>4. CASE UNCHANGED toClient
  BY <1>1, <1>4 DEF AcknowledgesNameOnly
<1>5. CASE Head(toServer[s][l]).type = "Delta" /\ SendToOthers(s, l, delta, <<ack>>)
  <2>1. Head(toServer[s][l]) \in ClientEvent
    BY <1>1, <1>2
  <2>2. updates \in Table
    BY <1>5, <2>1 DEF ClientEvent
  <2> HIDE DEF updates
  <2>3. delta \in ServerEvent /\ ack \in ServerEvent
    BY <1>2, <1>3, <2>2, PathsOnlyType DEF ServerEvent, ServerDelta, Acknowledge
  <2>4. NamesOnly(ack.updates) /\ delta.type # "Acknowledge"
    BY PathsOnlyNames
  <2>5. SendToOthers(s, l, delta, <<ack>>)
    BY <1>5 DEF updates
  <2> HIDE DEF delta, ack
  <2>6. <<ack>> \in Seq(ServerEvent) /\ AcknowledgesName(<<ack>>)
    BY <2>3, <2>4 DEF AcknowledgesName
  <2>7. \A t \in Sessions, m \in Layers : AcknowledgesName(toClient'[t][m])
    BY <2>3, <2>4, <2>5, <2>6, NamesSent
  <2>8. QED
    BY <1>1, <2>7 DEF AcknowledgesNameOnly
<1>6. CASE SendToOthers(s, l, reload, <<>>)
  <2>1. reload \in ServerEvent /\ reload.type # "Acknowledge"
    BY <1>3 DEF ServerEvent, ServerReload
  <2> HIDE DEF reload
  <2>2. <<>> \in Seq(ServerEvent) /\ AcknowledgesName(<<>>)
    BY DEF AcknowledgesName
  <2>3. \A t \in Sessions, m \in Layers : AcknowledgesName(toClient'[t][m])
    BY <1>6, <2>1, <2>2, NamesSent
  <2>4. QED
    BY <1>1, <2>3 DEF AcknowledgesNameOnly
<1>7. QED
  BY <1>1, <1>4, <1>5, <1>6

LEMMA NamesJoin ==
    ASSUME TypeInv, AcknowledgesNameOnly, NEW c \in Clients, NEW s \in Sessions, Join(c, s)
    PROVE  AcknowledgesNameOnly'
<1>1. /\ toClient' = [toClient EXCEPT ![s] = [l \in Layers |-> @[l] \o mHistory[l]]]
      /\ mAccumulatedAcknowledges' = mAccumulatedAcknowledges
  BY DEF Join, OnConnected, ClientOnConnected
<1>2. toClient \in [Sessions -> [Layers -> Seq(ServerEvent)]]
      /\ mHistory \in [Layers -> Seq(ServerDelta)]
  BY DEF TypeInv, TypeOK, WireTypeOK, ServerTypeOK
<1>3. ASSUME NEW l \in Layers
      PROVE  AcknowledgesName(toClient'[s][l])
  <2> DEFINE a == toClient[s][l]
             b == mHistory[l]
  <2>1. toClient'[s][l] = a \o b
    BY <1>1, <1>2
  <2>2. a \in Seq(ServerEvent) /\ b \in Seq(ServerDelta)
    BY <1>2
  <2>3. AcknowledgesName(a)
    BY DEF AcknowledgesNameOnly
  <2> HIDE DEF a, b
  <2>4. \A i \in DOMAIN b : b[i].type # "Acknowledge"
    <3>1. \A i \in DOMAIN b : b[i] \in ServerDelta
      BY <2>2
    <3>2. QED
      BY <3>1 DEF ServerDelta
  <2>5. \A i \in DOMAIN (a \o b) :
            \/ i \in DOMAIN a /\ (a \o b)[i] = a[i]
            \/ i - Len(a) \in DOMAIN b /\ (a \o b)[i] = b[i - Len(a)]
    BY <2>2
  <2>6. QED
    BY <2>1, <2>3, <2>4, <2>5 DEF AcknowledgesName
<1>4. \A t \in Sessions : t # s => toClient'[t] = toClient[t]
  BY <1>1, <1>2
<1>5. QED
  BY <1>1, <1>3, <1>4 DEF AcknowledgesNameOnly

LEMMA NamesClientReceives ==
    ASSUME TypeInv, AcknowledgesNameOnly, NEW c \in Clients, NEW l \in Layers,
           ClientReceives(c, l)
    PROVE  AcknowledgesNameOnly'
<1> DEFINE s == mWebsocketClient[c]
           event == Head(toClient[s][l])
           acks == mAccumulatedAcknowledges[c][l]
<1>1. /\ s \in Sessions /\ toClient[s][l] # <<>>
      /\ toClient' = [toClient EXCEPT ![s][l] = Tail(@)]
      /\ mAccumulatedAcknowledges' = [mAccumulatedAcknowledges EXCEPT ![c][l] =
             CASE event.type = "Acknowledge" -> Append(@, event)
               [] event.type = "Reload" -> LeftByReload(@)
               [] OTHER -> @]
      /\ WireTypeOK /\ ClientTypeOK
  BY DEF ClientReceives, OnMessage, IsConnected, InLiveMode, TypeInv, TypeOK, ClientTypeOK
<1>2. toClient[s][l] \in Seq(ServerEvent) /\ acks \in Seq(Acknowledge)
  BY <1>1 DEF WireTypeOK, ClientTypeOK
<1>3. AcknowledgesName(toClient[s][l]) /\ AcknowledgesName(acks)
  BY <1>1 DEF AcknowledgesNameOnly
<1>4. /\ AcknowledgesName(Tail(toClient[s][l]))
      /\ event.type = "Acknowledge" => NamesOnly(event.updates)
  BY <1>1, <1>2, <1>3, NamesRest
<1> HIDE DEF s, event
<1>5. ASSUME NEW t \in Sessions, NEW m \in Layers
      PROVE  AcknowledgesName(toClient'[t][m])
  <2>1. \/ toClient'[t][m] = toClient[t][m]
        \/ toClient'[t][m] = Tail(toClient[s][l])
    BY <1>1 DEF WireTypeOK
  <2>2. QED
    BY <1>4, <2>1 DEF AcknowledgesNameOnly
<1>6. ASSUME NEW d \in Clients, NEW m \in Layers
      PROVE  AcknowledgesName(mAccumulatedAcknowledges'[d][m])
  <2>1. \/ mAccumulatedAcknowledges'[d][m] = mAccumulatedAcknowledges[d][m]
        \/ /\ event.type = "Acknowledge"
           /\ mAccumulatedAcknowledges'[d][m] = Append(acks, event)
        \/ mAccumulatedAcknowledges'[d][m] = <<>>
    BY <1>1 DEF ClientTypeOK, LeftByReload
  <2>2. AcknowledgesName(<<>>)
    BY DEF AcknowledgesName
  <2>3. AcknowledgesName(mAccumulatedAcknowledges[d][m])
    BY DEF AcknowledgesNameOnly
  <2> HIDE DEF acks
  <2>4. AcknowledgesName(Append(acks, event))
    BY <1>2, <1>3, <1>4, NamesAppended
  <2>5. QED
    BY <2>1, <2>2, <2>3, <2>4
<1>7. QED
  BY <1>5, <1>6 DEF AcknowledgesNameOnly

\* Every other action leaves an event where it is or drops it.
LEMMA NamesStays ==
    ASSUME AcknowledgesNameOnly,
           \A s \in Sessions, l \in Layers :
               toClient'[s][l] = toClient[s][l] \/ toClient'[s][l] = <<>>,
           \A c \in Clients, l \in Layers :
               \/ mAccumulatedAcknowledges'[c][l] = mAccumulatedAcknowledges[c][l]
               \/ mAccumulatedAcknowledges'[c][l] = <<>>
    PROVE  AcknowledgesNameOnly'
<1>1. AcknowledgesName(<<>>)
  BY DEF AcknowledgesName
<1>2. QED
  BY <1>1 DEF AcknowledgesNameOnly

LEMMA NamesStep == TypeInv /\ AcknowledgesNameOnly /\ [Next]_vars => AcknowledgesNameOnly'
<1> SUFFICES ASSUME TypeInv, AcknowledgesNameOnly, [Next]_vars
             PROVE  AcknowledgesNameOnly'
  OBVIOUS
<1>1. ASSUME NEW c \in Clients, NEW s \in Sessions, Join(c, s)
      PROVE  AcknowledgesNameOnly'
  BY <1>1, NamesJoin
<1>2. ASSUME NEW c \in Clients, Leave(c) PROVE AcknowledgesNameOnly'
  <2>1. toClient' = [toClient EXCEPT ![mWebsocketClient[c]] = Silent]
        /\ mAccumulatedAcknowledges' = mAccumulatedAcknowledges
    BY <1>2 DEF Leave, ClientOnDisconnected, Disconnect
  <2>2. QED
    BY <2>1, NamesStays DEF TypeInv, TypeOK, WireTypeOK, Silent
<1>3. ASSUME NEW c \in Clients, HostTicks(c) PROVE AcknowledgesNameOnly'
  <2>1. /\ toClient' = toClient
        /\ mAccumulatedAcknowledges' = [mAccumulatedAcknowledges EXCEPT ![c] = Silent]
    BY <1>3 DEF HostTicks, Tick
  <2>2. QED
    BY <2>1, NamesStays DEF TypeInv, TypeOK, ClientTypeOK, Silent
<1>4. ASSUME NEW s \in Sessions, ServerNotices(s) PROVE AcknowledgesNameOnly'
  BY <1>4, NamesStays DEF ServerNotices, OnDisconnected, clientVars
<1>5. ASSUME NEW s \in Sessions, NEW l \in Layers, ServerReceives(s, l)
      PROVE  AcknowledgesNameOnly'
  BY <1>5, NamesServerReceives
<1>6. ASSUME NEW c \in Clients, NEW l \in Layers, ClientReceives(c, l)
      PROVE  AcknowledgesNameOnly'
  BY <1>6, NamesClientReceives
<1>7. ASSUME NEW c \in Clients, NEW l \in Layers, HostEdits(c, l)
      PROVE  AcknowledgesNameOnly'
  <2>1. UNCHANGED <<toClient, mAccumulatedAcknowledges>>
    BY <1>7, EditOf DEF wireVars
  <2>2. QED
    BY <2>1, NamesStays
<1>8. ASSUME NEW c \in Clients, NEW l \in Layers,
             HostApplies(c, l) \/ HostOpens(c, l) \/ HostReloads(c, l)
      PROVE  AcknowledgesNameOnly'
  <2>1. UNCHANGED <<toClient, mAccumulatedAcknowledges>>
    BY <1>8 DEF HostApplies, ApplyRemoteUpdate, HostOpens, OpenLayer, HostReloads,
                ReloadLayer, wireVars
  <2>2. QED
    BY <2>1, NamesStays
<1>9. CASE UNCHANGED vars
  BY <1>9, NamesStays DEF vars, wireVars, clientVars
<1>10. QED
  BY <1>1, <1>2, <1>3, <1>4, <1>5, <1>6, <1>7, <1>8, <1>9 DEF Next

(***************************************************************************)
(* Edits can be sent, if hosts only edit fields an event can carry.        *)
(***************************************************************************)
FieldsSerializable == \A p \in Paths : FieldsOf[p] \cap Unserializable = {}

LEMMA NoUpdatesSendable == Sendable(NoUpdates) /\ PathsOf(NoUpdates) = {}
BY DEF Sendable, NoUpdates, PathsOf

LEMMA SetSendable ==
    ASSUME NEW d \in LayerState, NEW p \in Paths, NEW k \in Keys, NEW v \in Value,
           HasSpec(d, p), k \notin Unserializable, Sendable(d.mLocalDeltas)
    PROVE  /\ Sendable(Set(d, p, k, v).mLocalDeltas)
           /\ PathsOf(Set(d, p, k, v).mLocalDeltas) = PathsOf(d.mLocalDeltas) \cup {p}
           /\ Set(d, p, k, v).mUnacknowledgedFields \subseteq d.mUnacknowledgedFields \cup {p}
<1> DEFINE local == d.mLocalDeltas
           recorded == RecordedFields(local, p, k, v)
           fields == IF local[p] = None THEN <<>> ELSE local[p]
           edit == [key |-> k, value |-> v]
<1>1. /\ Set(d, p, k, v).mLocalDeltas = [local EXCEPT ![p] = recorded]
      /\ Set(d, p, k, v).mUnacknowledgedFields \subseteq d.mUnacknowledgedFields \cup {p}
  BY DEF Set, LayerState
<1>2. local \in Table
  BY DEF LayerState
<1>3. recorded \in Seq(Field) /\ None \notin Seq(Field)
  BY <1>2, RecordedFieldsType, LayerDataAssumption DEF Field, Value
<1>4. \A i \in DOMAIN fields : fields[i].key \notin Unserializable
  BY DEF Sendable, PathsOf
<1>5. \A i \in DOMAIN recorded : recorded[i].key \notin Unserializable
  <2>1. fields \in Seq(Field) /\ edit.key = k
    BY <1>2 DEF Table
  <2>2. \/ recorded = Append(fields, edit)
        \/ recorded = [i \in DOMAIN fields |->
                          IF fields[i].key = k THEN edit ELSE fields[i]]
    BY DEF RecordedFields
  <2> HIDE DEF recorded, fields, edit
  <2>3. CASE recorded = Append(fields, edit)
    <3>1. \A i \in DOMAIN recorded :
              \/ i \in DOMAIN fields /\ recorded[i] = fields[i]
              \/ recorded[i] = edit
      BY <2>1, <2>3
    <3>2. QED
      BY <1>4, <2>1, <3>1
  <2>4. CASE recorded = [i \in DOMAIN fields |->
                            IF fields[i].key = k THEN edit ELSE fields[i]]
    BY <1>4, <2>1, <2>4
  <2>5. QED
    BY <2>2, <2>3, <2>4
<1> HIDE DEF local, recorded
<1>6. QED
  BY <1>1, <1>2, <1>3, <1>5 DEF Sendable, PathsOf, Table, local

\* What the methods of RenderStudioData do to what a cause is made of.
LEMMA FetchCauses ==
    ASSUME NEW d \in LayerState
    PROVE  /\ FetchLocalDeltas(d).mLocalDeltas = NoUpdates
           /\ FetchLocalDeltas(d).mUnacknowledgedFields = d.mUnacknowledgedFields
           /\ FetchLocalDeltas(d).mRemoteDeltasQueue = d.mRemoteDeltasQueue
           /\ FetchLocalDeltas(d).mLatestAppliedSequence = d.mLatestAppliedSequence
BY DEF FetchLocalDeltas, LayerState

LEMMA AccumulateCauses ==
    ASSUME NEW d \in LayerState, NEW updates
    PROVE  /\ AccumulateRemoteUpdates(d, updates).mLocalDeltas = d.mLocalDeltas
           /\ AccumulateRemoteUpdates(d, updates).mUnacknowledgedFields
                  = d.mUnacknowledgedFields
BY DEF AccumulateRemoteUpdates, LayerState

LEMMA ApplyCauses ==
    ASSUME NEW d \in LayerState, HasNextUpdate(d)
    PROVE  /\ ApplyNextUpdate(d).mLocalDeltas = d.mLocalDeltas
           /\ ApplyNextUpdate(d).mUnacknowledgedFields \subseteq d.mUnacknowledgedFields
           /\ \A p \in ApplyNextUpdate(d).mUnacknowledgedFields :
                 Due(d, p) => Due(ApplyNextUpdate(d), p)
<1> DEFINE update == CHOOSE u \in d.mRemoteDeltasQueue : IsNextUpdate(d, u)
           table == update.updates
           after == ApplyNextUpdate(d)
<1>1. /\ after.mLocalDeltas = d.mLocalDeltas
      /\ after.mUnacknowledgedFields = d.mUnacknowledgedFields
            \ (PathsOf(table) \ {p \in PathsOf(table) : table[p] # <<>>})
      /\ after.mRemoteDeltasQueue = d.mRemoteDeltasQueue \ {update}
  BY DEF ApplyNextUpdate, LayerState
<1> HIDE DEF update, after
<1>2. QED
  BY <1>1 DEF Due, after

LEMMA SendableInit == Init => EditsSendable
<1> SUFFICES ASSUME Init PROVE EditsSendable
  OBVIOUS
<1>1. \A c \in Clients, l \in Layers : data[c][l].mLocalDeltas = NoUpdates
  BY DEF Init, ClientInit, OnLoaded
<1>2. QED
  BY <1>1, NoUpdatesSendable DEF EditsSendable

LEMMA SendableStep ==
    ASSUME FieldsSerializable, TypeInv, EditsSendable, [Next]_vars
    PROVE  EditsSendable'
<1>1. data \in [Clients -> [Layers -> LayerState]]
  BY DEF TypeInv, TypeOK, ClientTypeOK
<1>2. ASSUME NEW c \in Clients, HostTicks(c) PROVE EditsSendable'
  <2>1. data' = [data EXCEPT ![c] = [l \in Layers |-> Accumulated(c, l)]]
    BY <1>2 DEF HostTicks, Tick
  <2>2. ASSUME NEW l \in Layers
        PROVE  Sendable(Accumulated(c, l).mLocalDeltas)
    <3>1. CASE l \in mLayerRegistry[c]
      <4> DEFINE fetched == FetchLocalDeltas(Reloaded(c, l))
                 acknowledged ==
                     AccumulateRemoteUpdates(fetched, mAccumulatedAcknowledges[c][l])
      <4>1. fetched \in LayerState /\ fetched.mLocalDeltas = NoUpdates
        BY ReloadedType, FetchLocalDeltasType, FetchCauses DEF TypeInv, TypeOK
      <4>2. acknowledged \in LayerState
        <5>1. mAccumulatedAcknowledges[c][l] \in Seq(ServerDelta \cup Acknowledge)
          BY SeqOfSubset DEF TypeInv, TypeOK, ClientTypeOK
        <5>2. QED
          BY <4>1, <5>1, AccumulateRemoteUpdatesType
      <4>3. acknowledged.mLocalDeltas = NoUpdates
        BY <4>1, AccumulateCauses
      <4>4. Accumulated(c, l)
                = AccumulateRemoteUpdates(acknowledged, mAccumulatedDeltas[c][l])
        BY <3>1 DEF Accumulated
      <4> HIDE DEF acknowledged
      <4>5. Accumulated(c, l).mLocalDeltas = NoUpdates
        BY <4>2, <4>3, <4>4, AccumulateCauses
      <4>6. QED
        BY <4>5, NoUpdatesSendable
    <3>2. CASE l \notin mLayerRegistry[c]
      BY <3>2 DEF Accumulated, EditsSendable
    <3>3. QED
      BY <3>1, <3>2
  <2>3. QED
    BY <1>1, <2>1, <2>2 DEF EditsSendable
<1>3. ASSUME NEW c \in Clients, NEW l \in Layers, HostEdits(c, l) PROVE EditsSendable'
  <2>1. PICK p \in Paths : \E k \in FieldsOf[p] : \E v \in Value :
            /\ HasSpec(data[c][l], p)
            /\ data' = [data EXCEPT ![c][l] = Set(data[c][l], p, k, v)]
    BY <1>3, EditOf
  <2>2. PICK k \in FieldsOf[p] : \E v \in Value :
            /\ HasSpec(data[c][l], p)
            /\ data' = [data EXCEPT ![c][l] = Set(data[c][l], p, k, v)]
    BY <2>1
  <2>3. PICK v \in Value :
            /\ HasSpec(data[c][l], p)
            /\ data' = [data EXCEPT ![c][l] = Set(data[c][l], p, k, v)]
    BY <2>2
  <2>4. k \in Keys /\ k \notin Unserializable
    BY LiveSessionAssumption DEF FieldsSerializable
  <2>5. Sendable(Set(data[c][l], p, k, v).mLocalDeltas)
    BY <1>1, <2>3, <2>4, SetSendable DEF EditsSendable
  <2>6. \A d \in Clients, m \in Layers :
            \/ data'[d][m] = data[d][m]
            \/ data'[d][m] = Set(data[c][l], p, k, v)
    BY <1>1, <2>3
  <2>7. QED
    BY <2>5, <2>6 DEF EditsSendable
<1>4. ASSUME NEW c \in Clients, NEW l \in Layers, HostApplies(c, l) PROVE EditsSendable'
  <2>1. /\ data' = [data EXCEPT ![c][l] = ApplyNextUpdate(data[c][l])]
        /\ HasNextUpdate(data[c][l])
    BY <1>1, <1>4 DEF HostApplies, ApplyRemoteUpdate, TypeInv, LoopInv
  <2>2. ApplyNextUpdate(data[c][l]).mLocalDeltas = data[c][l].mLocalDeltas
    BY <1>1, <2>1, ApplyCauses
  <2>3. \A d \in Clients, m \in Layers : data'[d][m].mLocalDeltas = data[d][m].mLocalDeltas
    BY <1>1, <2>1, <2>2
  <2>4. QED
    BY <2>3 DEF EditsSendable
<1>5. ASSUME NEW c \in Clients, NEW l \in Layers, HostOpens(c, l) \/ HostReloads(c, l)
      PROVE  EditsSendable'
  <2>1. data' = [data EXCEPT ![c][l] = OnLoaded(File[l])]
    BY <1>5 DEF HostOpens, OpenLayer, HostReloads, ReloadLayer
  <2>2. OnLoaded(File[l]).mLocalDeltas = NoUpdates
    BY DEF OnLoaded
  <2>3. \A d \in Clients, m \in Layers :
            \/ data'[d][m] = data[d][m]
            \/ data'[d][m].mLocalDeltas = NoUpdates
    BY <1>1, <2>1, <2>2
  <2>4. QED
    BY <2>3, NoUpdatesSendable DEF EditsSendable
<1>6. ASSUME UNCHANGED data PROVE EditsSendable'
  BY <1>6 DEF EditsSendable
<1>7. ASSUME NEW c \in Clients, NEW s \in Sessions, Join(c, s) PROVE UNCHANGED data
  BY <1>7 DEF Join, ClientOnConnected
<1>8. ASSUME NEW c \in Clients, Leave(c) PROVE UNCHANGED data
  BY <1>8 DEF Leave, ClientOnDisconnected, Disconnect
<1>9. ASSUME NEW s \in Sessions, ServerNotices(s) PROVE UNCHANGED data
  BY <1>9 DEF ServerNotices, clientVars
<1>10. ASSUME NEW s \in Sessions, NEW l \in Layers, ServerReceives(s, l)
       PROVE  UNCHANGED data
  BY <1>10 DEF ServerReceives, clientVars
<1>11. ASSUME NEW c \in Clients, NEW l \in Layers, ClientReceives(c, l)
       PROVE  UNCHANGED data
  BY <1>11 DEF ClientReceives, OnMessage
<1>12. CASE UNCHANGED vars
  BY <1>12, <1>6 DEF vars, clientVars
<1>13. QED
  BY <1>2, <1>3, <1>4, <1>5, <1>6, <1>7, <1>8, <1>9, <1>10, <1>11, <1>12 DEF Next

(***************************************************************************)
(* Every mask has its cause, at every step of the edit's way.              *)
(***************************************************************************)
LEMMA CausedInit == Init => Caused
<1>1. Init => \A c \in Clients, l \in Layers : data[c][l].mUnacknowledgedFields = {}
  BY DEF Init, ClientInit, OnLoaded
<1>2. QED
  BY <1>1, LiveSessionAssumption DEF Caused, Steady

\* An action either leaves a cause where it is or puts the next one in its place.
LEMMA CausedKept ==
    ASSUME Caused,
           ASSUME NEW c \in Steady, NEW l \in OpenedFirst, NEW p,
                  p \in data'[c][l].mUnacknowledgedFields
           PROVE  \/ Cause(c, l, p)'
                  \/ /\ p \in data[c][l].mUnacknowledgedFields
                     /\ Cause(c, l, p) => Cause(c, l, p)'
    PROVE  Caused'
BY DEF Caused

LEMMA CauseStays ==
    ASSUME NEW c \in Steady, NEW l \in Layers, NEW p, Cause(c, l, p),
           mWebsocketClient'[c] = mWebsocketClient[c],
           p \in PathsOf(data[c][l].mLocalDeltas) => p \in PathsOf(data'[c][l].mLocalDeltas),
           \A s \in SessionsOf(c) :
               Carries(toServer[s][l], "Delta", p) => Carries(toServer'[s][l], "Delta", p),
           InLiveMode(c) /\ Carries(toClient[mWebsocketClient[c]][l], "Acknowledge", p)
               => Carries(toClient'[mWebsocketClient[c]][l], "Acknowledge", p),
           Carries(mAccumulatedAcknowledges[c][l], "Acknowledge", p)
               => Carries(mAccumulatedAcknowledges'[c][l], "Acknowledge", p),
           Due(data[c][l], p) => Due(data'[c][l], p),
           l \in mRequestedReloads[c] => l \in mRequestedReloads'[c]
    PROVE  Cause(c, l, p)'
BY DEF Cause, InLiveMode

LEMMA CausedJoin ==
    ASSUME TypeInv, Delivery, Connections, Caused,
           NEW d \in Clients, NEW s \in Sessions, Join(d, s)
    PROVE  Caused'
<1>1. /\ WireTypeOK /\ ClientTypeOK
      /\ ~IsConnected(d) /\ ClientOf[s] = d
      /\ toClient' = [toClient EXCEPT ![s] = [l \in Layers |-> @[l] \o mHistory[l]]]
      /\ mWebsocketClient' = [mWebsocketClient EXCEPT ![d] = s]
      /\ UNCHANGED <<toServer, data, mAccumulatedAcknowledges, mRequestedReloads>>
  BY DEF Join, OnConnected, ClientOnConnected, TypeInv, TypeOK, SessionsOf
<1>2. ASSUME NEW c \in Steady, NEW l \in OpenedFirst, NEW p, Cause(c, l, p)
      PROVE  Cause(c, l, p)'
  <2>1. c \in Clients /\ l \in Layers
    BY LiveSessionAssumption DEF Steady
  <2>2. CASE c = d
    <3>1. ~InLiveMode(c)
      BY <1>1, <2>2 DEF Connections, StayConnected, IsConnected
    <3>2. QED
      BY <1>1, <1>2, <3>1 DEF Cause
  <2>3. CASE c # d
    <3>1. mWebsocketClient'[c] = mWebsocketClient[c]
      BY <1>1, <2>1, <2>3 DEF ClientTypeOK
    <3>2. InLiveMode(c) => toClient'[mWebsocketClient[c]] = toClient[mWebsocketClient[c]]
      <4>1. InLiveMode(c) => mWebsocketClient[c] \in Sessions /\ mWebsocketClient[c] # s
        BY <1>1, <2>3, SteadyLive
      <4>2. QED
        BY <1>1, <4>1 DEF WireTypeOK
    <3>3. QED
      BY <1>1, <1>2, <2>1, <3>1, <3>2, CauseStays
  <2>4. QED
    BY <2>2, <2>3
<1>3. QED
  BY <1>1, <1>2, CausedKept

LEMMA CausedLeave ==
    ASSUME TypeInv, Delivery, Connections, Caused, NEW d \in Clients, Leave(d)
    PROVE  Caused'
<1> DEFINE s == mWebsocketClient[d]
<1>1. /\ WireTypeOK /\ ClientTypeOK
      /\ d \in Leavers /\ s \in Sessions /\ ClientOf[s] = d
      /\ toClient' = [toClient EXCEPT ![s] = Silent]
      /\ \/ mWebsocketClient' = mWebsocketClient
         \/ mWebsocketClient' = [mWebsocketClient EXCEPT ![d] = NoSession]
      /\ UNCHANGED <<toServer, data, mAccumulatedAcknowledges, mRequestedReloads>>
  BY DEF TypeInv, TypeOK, Leave, ClientOnDisconnected, Disconnect, IsConnected, Delivery,
         OwnSessions, InLiveMode, ClientTypeOK
<1> HIDE DEF s
<1>2. ASSUME NEW c \in Steady, NEW l \in OpenedFirst, NEW p, Cause(c, l, p)
      PROVE  Cause(c, l, p)'
  <2>1. c \in Clients /\ c # d /\ l \in Layers
    BY <1>1, LiveSessionAssumption DEF Steady
  <2>2. mWebsocketClient'[c] = mWebsocketClient[c]
    BY <1>1, <2>1 DEF ClientTypeOK
  <2>3. InLiveMode(c) => toClient'[mWebsocketClient[c]] = toClient[mWebsocketClient[c]]
    <3>1. InLiveMode(c) => mWebsocketClient[c] \in Sessions /\ mWebsocketClient[c] # s
      BY <1>1, <2>1, SteadyLive
    <3>2. QED
      BY <1>1, <3>1 DEF WireTypeOK
  <2>4. QED
    BY <1>1, <1>2, <2>1, <2>2, <2>3, CauseStays
<1>3. QED
  BY <1>1, <1>2, CausedKept

LEMMA CausedServerNotices ==
    ASSUME TypeInv, Caused, NEW s \in Sessions, ServerNotices(s)
    PROVE  Caused'
<1>1. /\ ClientOf[s] \in Leavers
      /\ toServer' = [toServer EXCEPT ![s] = Silent]
      /\ UNCHANGED <<toClient, mWebsocketClient, data, mAccumulatedAcknowledges,
                     mRequestedReloads>>
  BY DEF ServerNotices, OnDisconnected, clientVars
<1>2. ASSUME NEW c \in Steady, NEW l \in OpenedFirst, NEW p, Cause(c, l, p)
      PROVE  Cause(c, l, p)'
  <2>1. l \in Layers /\ \A t \in SessionsOf(c) : toServer'[t] = toServer[t]
    BY <1>1, LiveSessionAssumption DEF Steady, SessionsOf, TypeInv, TypeOK, WireTypeOK
  <2>2. QED
    BY <1>1, <1>2, <2>1, CauseStays
<1>3. QED
  BY <1>1, <1>2, CausedKept

\* The server numbers a DeltaEvent: the cause of its sender is the acknowledgement now.
LEMMA CausedDelta ==
    ASSUME TypeInv, Delivery, Connections, Caused, NEW s \in Sessions, NEW m \in Layers,
           OnDeltaEvent(s, m), UNCHANGED clientVars
    PROVE  Caused'
<1> DEFINE updates == Head(toServer[s][m]).updates
           delta == [type |-> "Delta", user |-> ClientOf[s], updates |-> updates,
                     sequence |-> GetSequenceNumber(m), epoch |-> epoch[m]]
           ack == [type |-> "Acknowledge", updates |-> PathsOnly(updates),
                   sequence |-> GetSequenceNumber(m), epoch |-> epoch[m]]
<1>1. /\ s \in serverUp /\ toServer[s][m] # <<>>
      /\ toServer' = [toServer EXCEPT ![s][m] = Tail(@)]
      /\ UNCHANGED <<mWebsocketClient, data, mAccumulatedAcknowledges, mRequestedReloads>>
      /\ ChannelExists => SendToOthers(s, m, delta, <<ack>>)
      /\ WireTypeOK
  BY DEF OnDeltaEvent, TakeFromClient, clientVars, TypeInv, TypeOK
<1>2. ack.type = "Acknowledge" /\ PathsOf(ack.updates) = PathsOf(updates)
  BY PathsOnlyNames
<1> HIDE DEF delta, ack
<1>3. ASSUME NEW c \in Steady, NEW l \in OpenedFirst, NEW p, Cause(c, l, p)
      PROVE  Cause(c, l, p)'
  <2> DEFINE t == mWebsocketClient[c]
             toSender == <<ack>>
  <2>1. l \in Layers
    BY LiveSessionAssumption
  <2>2. InLiveMode(c) =>
            /\ t \in Sessions /\ toClient[t][l] \in Seq(ServerEvent)
            /\ \A k \in Layers \ {m} : toClient'[t][k] = toClient[t][k]
            /\ ClientOf[s] # c => toClient'[t][m] = Append(toClient[t][m], delta)
            /\ ClientOf[s] = c => toClient'[t][m] = Append(toClient[t][m], ack)
    <3> SUFFICES ASSUME InLiveMode(c)
                 PROVE  /\ t \in Sessions /\ toClient[t][l] \in Seq(ServerEvent)
                        /\ \A k \in Layers \ {m} : toClient'[t][k] = toClient[t][k]
                        /\ ClientOf[s] # c => toClient'[t][m] = Append(toClient[t][m], delta)
                        /\ ClientOf[s] = c => toClient'[t][m] = Append(toClient[t][m], ack)
      OBVIOUS
    <3>1. t \in Sessions /\ t \in mConnections
      BY SteadyLive
    <3>2. toClient[t][l] \in Seq(ServerEvent) /\ toClient[t][m] \in Seq(ServerEvent)
      BY <1>1, <2>1, <3>1 DEF WireTypeOK
    <3> HIDE DEF toSender
    <3>3. SendToOthers(s, m, delta, toSender)
      BY <1>1, <3>1 DEF ChannelExists, toSender
    <3>4. /\ \A k \in Layers \ {m} : toClient'[t][k] = toClient[t][k]
          /\ ClientOf[s] # c => toClient'[t][m] = Append(toClient[t][m], delta)
          /\ ClientOf[s] = c => toClient'[t][m] = toClient[t][m] \o toSender
      BY <1>1, <3>3, SentToSteady
    <3>5. toClient[t][m] \o toSender = Append(toClient[t][m], ack)
      BY <3>2 DEF toSender
    <3>6. QED
      BY <3>1, <3>2, <3>4, <3>5
  <2>3. InLiveMode(c) /\ Carries(toClient[t][l], "Acknowledge", p)
            => Carries(toClient'[t][l], "Acknowledge", p)
    <3>1. CASE l = m
      <4> SUFFICES ASSUME InLiveMode(c)
                   PROVE  Carries(toClient[t][m], "Acknowledge", p)
                              => Carries(toClient'[t][m], "Acknowledge", p)
        BY <3>1
      <4>1. toClient[t][m] \in Seq(ServerEvent)
        BY <2>2, <3>1
      <4>2. \/ toClient'[t][m] = Append(toClient[t][m], delta)
            \/ toClient'[t][m] = Append(toClient[t][m], ack)
        BY <2>2
      <4>3. QED
        BY <4>1, <4>2, CarriesAppended
    <3>2. CASE l # m
      <4>1. InLiveMode(c) => toClient'[t][l] = toClient[t][l]
        BY <2>1, <2>2, <3>2
      <4>2. QED
        BY <4>1
    <3>3. QED
      BY <3>1, <3>2
  <2>4. CASE \A r \in SessionsOf(c) :
                 Carries(toServer[r][l], "Delta", p) => Carries(toServer'[r][l], "Delta", p)
    BY <1>1, <1>3, <2>1, <2>3, <2>4, CauseStays
  <2>5. CASE \E r \in SessionsOf(c) :
                 Carries(toServer[r][l], "Delta", p) /\ ~Carries(toServer'[r][l], "Delta", p)
    <3>1. l = m /\ ClientOf[s] = c /\ Carries(toServer[s][l], "Delta", p)
          /\ ~Carries(Tail(toServer[s][l]), "Delta", p)
      BY <1>1, <2>1, <2>5 DEF WireTypeOK, SessionsOf
    <3>2. p \in PathsOf(updates)
      <4>1. toServer[s][l] \in Seq(ClientEvent)
        BY <1>1, <2>1 DEF WireTypeOK
      <4>2. QED
        BY <1>1, <3>1, <4>1, CarriesRest
    <3>3. t = s
      BY <1>1, <3>1 DEF Connections, OneSession, SessionsOf
    <3>4. InLiveMode(c)
      BY <3>3, LiveClientAssumption DEF InLiveMode
    <3>5. Carries(toClient'[t][l], "Acknowledge", p)
      BY <1>2, <2>2, <3>1, <3>2, <3>4, CarriesAppended
    <3>6. QED
      BY <1>1, <3>4, <3>5 DEF Cause, InLiveMode
  <2>6. QED
    BY <2>4, <2>5
<1>4. QED
  BY <1>1, <1>3, CausedKept

LEMMA CausedReload ==
    ASSUME TypeInv, Delivery, Connections, Caused, NEW s \in Sessions, NEW m \in Layers,
           OnReloadEvent(s, m), UNCHANGED clientVars
    PROVE  Caused'
<1> DEFINE reload == [type |-> "Reload", sequence |-> GetSequenceNumber(m)]
<1>1. /\ s \in serverUp /\ toServer[s][m] # <<>> /\ IsReload(Head(toServer[s][m]))
      /\ toServer' = [toServer EXCEPT ![s][m] = Tail(@)]
      /\ UNCHANGED <<mWebsocketClient, data, mAccumulatedAcknowledges, mRequestedReloads>>
      /\ ChannelExists => SendToOthers(s, m, reload, <<>>)
      /\ WireTypeOK
  BY DEF OnReloadEvent, TakeFromClient, clientVars, TypeInv, TypeOK, IsReload
<1>2. ClientOf[s] \in Reloaders
  <2>1. 1 \in DOMAIN toServer[s][m] /\ IsReload(toServer[s][m][1])
    BY <1>1 DEF WireTypeOK
  <2>2. QED
    BY <2>1 DEF Connections, OnlyReloadersReload
<1> HIDE DEF reload
<1>3. ASSUME NEW c \in Steady, NEW l \in OpenedFirst, NEW p, Cause(c, l, p)
      PROVE  Cause(c, l, p)'
  <2> DEFINE t == mWebsocketClient[c]
  <2>1. l \in Layers /\ ClientOf[s] # c
    BY <1>2, LiveSessionAssumption DEF Steady
  <2>2. \A r \in SessionsOf(c) : toServer'[r] = toServer[r]
    BY <1>1, <2>1 DEF WireTypeOK, SessionsOf
  <2>3. ASSUME InLiveMode(c), Carries(toClient[t][l], "Acknowledge", p)
        PROVE  Carries(toClient'[t][l], "Acknowledge", p)
    <3>1. t \in Sessions /\ t \in mConnections
      BY <2>3, SteadyLive
    <3>2. toClient[t][l] \in Seq(ServerEvent)
      BY <1>1, <2>1, <3>1 DEF WireTypeOK
    <3>3. SendToOthers(s, m, reload, <<>>)
      BY <1>1, <3>1 DEF ChannelExists
    <3>4. /\ \A k \in Layers \ {m} : toClient'[t][k] = toClient[t][k]
          /\ toClient'[t][m] = Append(toClient[t][m], reload)
      BY <1>1, <2>1, <2>3, <3>3, SentToSteady
    <3>5. CASE l = m
      BY <2>3, <3>2, <3>4, <3>5, CarriesAppended
    <3>6. CASE l # m
      BY <2>1, <2>3, <3>4, <3>6
    <3>7. QED
      BY <3>5, <3>6
  <2>4. QED
    BY <1>1, <1>3, <2>1, <2>2, <2>3, CauseStays
<1>4. QED
  BY <1>1, <1>3, CausedKept

LEMMA CausedClientReceives ==
    ASSUME TypeInv, Delivery, Connections, Caused, NEW d \in Clients, NEW m \in Layers,
           ClientReceives(d, m)
    PROVE  Caused'
<1> DEFINE s == mWebsocketClient[d]
           event == Head(toClient[s][m])
<1>1. /\ WireTypeOK /\ ClientTypeOK /\ InLiveMode(d)
      /\ s \in Sessions /\ ClientOf[s] = d /\ toClient[s][m] # <<>>
      /\ UNCHANGED <<toServer, mWebsocketClient, data>>
      /\ toClient' = [toClient EXCEPT ![s][m] = Tail(@)]
      /\ mAccumulatedAcknowledges' = [mAccumulatedAcknowledges EXCEPT ![d][m] =
             CASE event.type = "Acknowledge" -> Append(@, event)
               [] event.type = "Reload" -> LeftByReload(@)
               [] OTHER -> @]
      /\ mRequestedReloads' = [mRequestedReloads EXCEPT ![d] =
             IF event.type = "Reload" THEN @ \cup {m} ELSE @]
  BY DEF ClientReceives, OnMessage, IsConnected, InLiveMode, TypeInv, TypeOK, ClientTypeOK,
         Delivery, OwnSessions
<1> HIDE DEF s
<1>2. ASSUME NEW c \in Steady, NEW l \in OpenedFirst, NEW p, Cause(c, l, p)
      PROVE  Cause(c, l, p)'
  <2>1. c \in Clients /\ l \in Layers
    BY LiveSessionAssumption DEF Steady
  <2>2. CASE c = d /\ l = m
    <3> DEFINE acks == mAccumulatedAcknowledges[c][l]
    <3>1. /\ mWebsocketClient[c] = s /\ toClient'[s][l] = Tail(toClient[s][l])
          /\ toClient[s][l] \in Seq(ServerEvent) /\ acks \in Seq(Acknowledge)
      BY <1>1, <2>1, <2>2 DEF WireTypeOK, ClientTypeOK, s
    <3>2. CASE event.type = "Reload"
      <4>1. l \in mRequestedReloads'[c]
        BY <1>1, <2>1, <2>2, <3>2 DEF ClientTypeOK
      <4>2. QED
        BY <4>1 DEF Cause
    <3>3. CASE event.type = "Acknowledge"
      <4>1. mAccumulatedAcknowledges'[c][l] = Append(acks, event)
            /\ mRequestedReloads'[c] = mRequestedReloads[c]
        BY <1>1, <2>1, <2>2, <3>3 DEF ClientTypeOK
      <4> HIDE DEF acks
      <4>2. Carries(acks, "Acknowledge", p) => Carries(Append(acks, event), "Acknowledge", p)
        BY <3>1, CarriesAppended
      <4>3. ASSUME Carries(toClient[s][l], "Acknowledge", p)
            PROVE  \/ Carries(Append(acks, event), "Acknowledge", p)
                   \/ Carries(Tail(toClient[s][l]), "Acknowledge", p)
        <5>1. \/ event.type = "Acknowledge" /\ p \in PathsOf(event.updates)
              \/ Carries(Tail(toClient[s][l]), "Acknowledge", p)
          BY <1>1, <2>2, <3>1, <4>3, CarriesRest
        <5> HIDE DEF event
        <5>2. QED
          BY <3>1, <5>1, CarriesAppended
      <4>4. QED
        BY <1>1, <1>2, <3>1, <4>1, <4>2, <4>3 DEF Cause, InLiveMode, acks
    <3>4. CASE event.type \notin {"Reload", "Acknowledge"}
      <4>1. mAccumulatedAcknowledges'[c][l] = acks
            /\ mRequestedReloads'[c] = mRequestedReloads[c]
        BY <1>1, <2>1, <2>2, <3>4 DEF ClientTypeOK
      <4>2. Carries(toClient[s][l], "Acknowledge", p)
                => Carries(Tail(toClient[s][l]), "Acknowledge", p)
        BY <1>1, <2>2, <3>1, <3>4, CarriesRest
      <4>3. QED
        BY <1>1, <1>2, <2>1, <3>1, <4>1, <4>2, CauseStays
    <3>5. QED
      BY <3>2, <3>3, <3>4
  <2>3. CASE ~(c = d /\ l = m)
    <3>1. mAccumulatedAcknowledges'[c][l] = mAccumulatedAcknowledges[c][l]
      BY <1>1, <2>1, <2>3 DEF ClientTypeOK
    <3>2. mRequestedReloads[c] \subseteq mRequestedReloads'[c]
      BY <1>1, <2>1 DEF ClientTypeOK
    <3>3. InLiveMode(c) =>
              toClient'[mWebsocketClient[c]][l] = toClient[mWebsocketClient[c]][l]
      <4>1. InLiveMode(c) => mWebsocketClient[c] \in Sessions
                             /\ ClientOf[mWebsocketClient[c]] = c
        BY SteadyLive
      <4>2. QED
        BY <1>1, <2>1, <2>3, <4>1 DEF WireTypeOK
    <3>4. QED
      BY <1>1, <1>2, <2>1, <3>1, <3>2, <3>3, CauseStays
  <2>4. QED
    BY <2>2, <2>3
<1>3. QED
  BY <1>1, <1>2, CausedKept

LEMMA CausedHostEdits ==
    ASSUME FieldsSerializable, TypeInv, EditsSendable, Caused,
           NEW d \in Clients, NEW m \in Layers, HostEdits(d, m)
    PROVE  Caused'
<1>1. UNCHANGED <<toServer, toClient, mWebsocketClient, mAccumulatedAcknowledges,
                  mRequestedReloads>>
  BY EditOf DEF wireVars
<1>2. PICK q \in Paths : \E k \in FieldsOf[q] : \E v \in Value :
          /\ HasSpec(data[d][m], q)
          /\ data' = [data EXCEPT ![d][m] = Set(data[d][m], q, k, v)]
  BY EditOf
<1>3. PICK k \in FieldsOf[q] : \E v \in Value :
          /\ HasSpec(data[d][m], q)
          /\ data' = [data EXCEPT ![d][m] = Set(data[d][m], q, k, v)]
  BY <1>2
<1>4. PICK v \in Value :
          /\ HasSpec(data[d][m], q)
          /\ data' = [data EXCEPT ![d][m] = Set(data[d][m], q, k, v)]
  BY <1>3
<1>5. k \in Keys /\ k \notin Unserializable
  BY LiveSessionAssumption DEF FieldsSerializable
<1>6. data \in [Clients -> [Layers -> LayerState]]
  BY DEF TypeInv, TypeOK, ClientTypeOK
<1> DEFINE after == Set(data[d][m], q, k, v)
<1>7. /\ PathsOf(after.mLocalDeltas) = PathsOf(data[d][m].mLocalDeltas) \cup {q}
      /\ after.mUnacknowledgedFields \subseteq data[d][m].mUnacknowledgedFields \cup {q}
      /\ after.mRemoteDeltasQueue = data[d][m].mRemoteDeltasQueue
  <2>1. data[d][m] \in LayerState /\ Sendable(data[d][m].mLocalDeltas)
    BY <1>6 DEF EditsSendable
  <2>2. after.mRemoteDeltasQueue = data[d][m].mRemoteDeltasQueue
    BY <2>1, SetKeepsStream
  <2> DEFINE before == data[d][m]
  <2>3. HasSpec(before, q)
    BY <1>4
  <2>4. before \in LayerState /\ Sendable(before.mLocalDeltas)
    BY <2>1
  <2>5. /\ PathsOf(Set(before, q, k, v).mLocalDeltas) = PathsOf(before.mLocalDeltas) \cup {q}
        /\ Set(before, q, k, v).mUnacknowledgedFields
               \subseteq before.mUnacknowledgedFields \cup {q}
    <3> HIDE DEF before
    <3> QED BY <1>5, <2>3, <2>4, SetSendable
  <2>6. QED
    BY <2>2, <2>5
<1>8. data' = [data EXCEPT ![d][m] = after]
  BY <1>4
<1> HIDE DEF after
<1>9. ASSUME NEW c \in Steady, NEW l \in OpenedFirst, NEW p,
             p \in data'[c][l].mUnacknowledgedFields
      PROVE  \/ Cause(c, l, p)'
             \/ /\ p \in data[c][l].mUnacknowledgedFields
                /\ Cause(c, l, p) => Cause(c, l, p)'
  <2>1. c \in Clients /\ l \in Layers
    BY LiveSessionAssumption DEF Steady
  <2>2. CASE c = d /\ l = m
    <3>1. data'[c][l] = after
      BY <1>6, <1>8, <2>1, <2>2
    <3>2. CASE p = q
      BY <1>7, <2>2, <3>1, <3>2 DEF Cause
    <3>3. CASE p # q
      <4>1. p \in data[c][l].mUnacknowledgedFields
        BY <1>7, <1>9, <2>2, <3>1, <3>3
      <4>2. Due(data[c][l], p) => Due(data'[c][l], p)
        BY <1>7, <2>2, <3>1 DEF Due
      <4>3. p \in PathsOf(data[c][l].mLocalDeltas) => p \in PathsOf(data'[c][l].mLocalDeltas)
        BY <1>7, <2>2, <3>1
      <4>4. Cause(c, l, p) => Cause(c, l, p)'
        BY <1>1, <2>1, <4>2, <4>3, CauseStays
      <4>5. QED
        BY <4>1, <4>4
    <3>4. QED
      BY <3>2, <3>3
  <2>3. CASE ~(c = d /\ l = m)
    <3>1. data'[c][l] = data[c][l]
      BY <1>6, <1>8, <2>1, <2>3
    <3>2. QED
      BY <1>1, <1>9, <2>1, <3>1, CauseStays
  <2>4. QED
    BY <2>2, <2>3
<1>10. QED
  BY <1>9, CausedKept

LEMMA CausedHostOpens ==
    ASSUME TypeInv, Connections, Caused, NEW d \in Clients, NEW m \in Layers,
           HostOpens(d, m)
    PROVE  Caused'
<1>1. /\ UNCHANGED <<toServer, toClient, mWebsocketClient, mAccumulatedAcknowledges,
                     mRequestedReloads>>
      /\ data' = [data EXCEPT ![d][m] = OnLoaded(File[m])]
      /\ data[d][m] = OnLoaded(File[m])
  BY DEF HostOpens, OpenLayer, wireVars, Connections, Untouched
<1>2. data' = data
  BY <1>1 DEF TypeInv, TypeOK, ClientTypeOK
<1>3. QED
  BY <1>1, <1>2 DEF Caused, Cause, InLiveMode

LEMMA CausedHostReloads ==
    ASSUME TypeInv, Delivery, Caused, NEW d \in Clients, NEW m \in Layers,
           HostReloads(d, m)
    PROVE  Caused'
<1> DEFINE to == [l \in Layers |-> IF l = m THEN <<[type |-> "Reload"]>> ELSE <<>>]
<1>1. /\ UNCHANGED <<toClient, mWebsocketClient, mAccumulatedAcknowledges,
                     mRequestedReloads>>
      /\ d \in Reloaders
      /\ data' = [data EXCEPT ![d][m] = OnLoaded(File[m])]
      /\ Send(d, to)
      /\ WireTypeOK /\ ClientTypeOK
  BY DEF HostReloads, ReloadLayer, TypeInv, TypeOK
<1>2. to \in [Layers -> Seq(ClientEvent)]
  <2>1. [type |-> "Reload"] \in ClientEvent
    BY DEF ClientEvent
  <2>2. <<[type |-> "Reload"]>> \in Seq(ClientEvent)
    BY <2>1
  <2>3. QED
    BY <2>2
<1> HIDE DEF to
<1>3. ASSUME NEW c \in Steady, NEW l \in OpenedFirst
      PROVE  /\ l \in Layers
             /\ data'[c][l] = data[c][l]
             /\ \A s \in SessionsOf(c) : toServer'[s][l] = toServer[s][l]
  <2>1. c \in Clients /\ l \in Layers /\ c # d
    BY <1>1, LiveSessionAssumption DEF Steady
  <2>2. data'[c][l] = data[c][l]
    BY <1>1, <2>1 DEF ClientTypeOK
  <2>3. ASSUME NEW s \in SessionsOf(c) PROVE toServer'[s][l] = toServer[s][l]
    <3>1. s \in Sessions /\ ~(IsConnected(d) /\ s = mWebsocketClient[d])
      BY <2>1 DEF SessionsOf, Delivery, OwnSessions, IsConnected
    <3>2. QED
      BY <1>1, <1>2, <2>1, <3>1, SentBehind
  <2>4. QED
    BY <2>1, <2>2, <2>3
<1>4. ASSUME NEW c \in Steady, NEW l \in OpenedFirst, NEW p, Cause(c, l, p)
      PROVE  Cause(c, l, p)'
  BY <1>1, <1>3, <1>4, CauseStays
<1>5. QED
  BY <1>3, <1>4, CausedKept

\* An acknowledgement that is applied lifts the mask it was the cause of.
LEMMA CausedHostApplies ==
    ASSUME TypeInv, Caused, NEW d \in Clients, NEW m \in Layers, HostApplies(d, m)
    PROVE  Caused'
<1>1. /\ UNCHANGED <<toServer, toClient, mWebsocketClient, mAccumulatedAcknowledges,
                     mRequestedReloads>>
      /\ data' = [data EXCEPT ![d][m] = ApplyNextUpdate(data[d][m])]
      /\ HasNextUpdate(data[d][m])
      /\ data \in [Clients -> [Layers -> LayerState]]
  BY DEF HostApplies, ApplyRemoteUpdate, wireVars, TypeInv, TypeOK, ClientTypeOK, LoopInv
<1>2. ASSUME NEW c \in Steady, NEW l \in OpenedFirst, NEW p,
             p \in data'[c][l].mUnacknowledgedFields
      PROVE  /\ p \in data[c][l].mUnacknowledgedFields
             /\ Cause(c, l, p) => Cause(c, l, p)'
  <2>1. c \in Clients /\ l \in Layers /\ data[c][l] \in LayerState
    BY <1>1, LiveSessionAssumption DEF Steady
  <2>2. data'[c][l] \in {data[c][l], ApplyNextUpdate(data[c][l])}
        /\ (data'[c][l] = data[c][l] \/ HasNextUpdate(data[c][l]))
    BY <1>1, <2>1
  <2>3. /\ data'[c][l].mLocalDeltas = data[c][l].mLocalDeltas
        /\ p \in data[c][l].mUnacknowledgedFields
        /\ Due(data[c][l], p) => Due(data'[c][l], p)
    BY <1>2, <2>1, <2>2, ApplyCauses
  <2>4. QED
    BY <1>1, <2>1, <2>3, CauseStays
<1>3. QED
  BY <1>2, CausedKept

\* A tick queues every acknowledgement it finds accumulated, and keeps the masks.
LEMMA QueuedCauses ==
    ASSUME NEW d \in LayerState, NEW deltas \in Seq(ServerDelta),
           NEW acks \in Seq(Acknowledge), NEW l, NEW asked, l \notin asked,
           NEW m \in Nat, NEW e, NEW f, NEW numbering,
           Taken(deltas, acks, d, l, asked, m, e, f, numbering)
    PROVE  LET after == Queued(d, deltas, acks)
           IN  /\ after.mUnacknowledgedFields = d.mUnacknowledgedFields
               /\ d.mRemoteDeltasQueue \subseteq after.mRemoteDeltasQueue
               /\ \A i \in DOMAIN acks : Queueable(acks[i]) \in after.mRemoteDeltasQueue
<1> DEFINE fetched == FetchLocalDeltas(d)
           acknowledged == AccumulateRemoteUpdates(fetched, acks)
           after == AccumulateRemoteUpdates(acknowledged, deltas)
<1>1. /\ AllNumbered(deltas, m, e) /\ AllNumbered(acks, m, e)
      /\ \A i \in DOMAIN deltas : ~Among(acks, deltas[i].sequence)
      /\ LayerOf(d, e) /\ NotIn(d, deltas) /\ NotIn(d, acks)
      /\ \A u \in d.mRemoteDeltasQueue : u.sequence <= m
  BY DEF Taken
<1>2. /\ fetched \in LayerState
      /\ fetched.mUnacknowledgedFields = d.mUnacknowledgedFields
      /\ fetched.mRemoteDeltasQueue = d.mRemoteDeltasQueue
      /\ fetched.mLatestAppliedSequence = d.mLatestAppliedSequence
      /\ fetched.applied = d.applied
  BY FetchLocalDeltasType, FetchCauses DEF FetchLocalDeltas, LayerState
<1> HIDE DEF fetched
<1>3. NotIn(fetched, deltas) /\ NotIn(fetched, acks) /\ LayerOf(fetched, e)
  BY <1>1, <1>2 DEF NotIn, LayerOf
<1>4. acknowledged \in LayerState
  <2>1. acks \in Seq(ServerDelta \cup Acknowledge)
    BY SeqOfSubset
  <2>2. QED
    BY <1>2, <2>1, AccumulateRemoteUpdatesType
<1>5. /\ acknowledged.mUnacknowledgedFields = d.mUnacknowledgedFields
      /\ acknowledged.mRemoteDeltasQueue
             = d.mRemoteDeltasQueue \cup {Queueable(acks[i]) : i \in DOMAIN acks}
      /\ NotIn(acknowledged, deltas)
  <2>1. NotIn(acknowledged, deltas)
    BY <1>1, <1>2, <1>3, LayerQueues
  <2>2. acknowledged = [fetched EXCEPT !.mRemoteDeltasQueue =
                           @ \cup {Queueable(acks[i]) : i \in DOMAIN acks}]
    BY <1>1, <1>2, <1>3, AccumulateQueues
  <2> HIDE DEF acknowledged
  <2>3. QED
    BY <1>2, <2>1, <2>2 DEF LayerState
<1> HIDE DEF acknowledged
<1>6. after = [acknowledged EXCEPT !.mRemoteDeltasQueue =
                  @ \cup {Queueable(deltas[i]) : i \in DOMAIN deltas}]
  BY <1>1, <1>4, <1>5, AccumulateQueues
<1>7. after = Queued(d, deltas, acks)
  BY DEF Queued, acknowledged, fetched
<1> HIDE DEF after
<1>8. QED
  BY <1>4, <1>5, <1>6, <1>7 DEF LayerState

LEMMA CausedHostTicks ==
    ASSUME TypeInv, Delivery, Connections, Streams, Masks,
           NEW d \in Clients, HostTicks(d)
    PROVE  Caused'
<1> DEFINE to == [l \in Layers |-> DeltaEvents(d, l)]
<1>1. /\ UNCHANGED <<toClient, mWebsocketClient, mLayerRegistry>>
      /\ InLiveMode(d)
      /\ mAccumulatedAcknowledges' = [mAccumulatedAcknowledges EXCEPT ![d] = Silent]
      /\ mRequestedReloads' = [mRequestedReloads EXCEPT ![d] = {}]
      /\ data' = [data EXCEPT ![d] = [l \in Layers |-> Accumulated(d, l)]]
      /\ Send(d, to)
      /\ WireTypeOK /\ ClientTypeOK
  BY DEF HostTicks, Tick, TypeInv, TypeOK
<1>2. to \in [Layers -> Seq(ClientEvent)] /\ \A l \in Layers : to[l] = DeltaEvents(d, l)
  BY <1>1, DeltaEventsType
<1> HIDE DEF to
<1>3. \A s \in Sessions, l \in Layers :
             toServer'[s][l] = IF IsConnected(d) /\ s = mWebsocketClient[d]
                               THEN toServer[s][l] \o to[l]
                               ELSE toServer[s][l]
  <2>1. Send(d, to) /\ WireTypeOK /\ ClientTypeOK
    BY <1>1
  <2>2. to \in [Layers -> Seq(ClientEvent)]
    BY <1>2
  <2>3. QED
    BY <2>1, <2>2, SentBehind, Zenon
<1>4. ASSUME NEW c \in Steady, NEW l \in OpenedFirst, NEW s \in SessionsOf(c), NEW p,
             Carries(toServer[s][l], "Delta", p)
      PROVE  Carries(toServer'[s][l], "Delta", p)
  <2>1. s \in Sessions /\ l \in Layers
    BY LiveSessionAssumption DEF SessionsOf
  <2>2. toServer[s][l] \in Seq(ClientEvent) /\ to[l] \in Seq(ClientEvent)
    BY <1>1, <1>2, <2>1 DEF WireTypeOK
  <2>3. \/ toServer'[s][l] = toServer[s][l]
        \/ toServer'[s][l] = toServer[s][l] \o to[l]
    BY <1>3, <2>1
  <2>4. QED
    BY <1>4, <2>2, <2>3, CarriesMore
<1>5. ASSUME NEW c \in Steady, NEW l \in OpenedFirst, NEW p, c = d,
             p \in data'[c][l].mUnacknowledgedFields
      PROVE  /\ p \in data[c][l].mUnacknowledgedFields
             /\ Cause(c, l, p) => Cause(c, l, p)'
  <2> DEFINE t == mWebsocketClient[c]
             deltas == mAccumulatedDeltas[c][l]
             acks == mAccumulatedAcknowledges[c][l]
             local == data[c][l].mLocalDeltas
             after == Accumulated(c, l)
  <2>1. /\ c \in Clients /\ l \in Layers /\ l \in mLayerRegistry[c]
        /\ t \in Sessions /\ ClientOf[t] = c /\ IsConnected(c)
        /\ data'[c][l] = after
    <3>1. c \in Clients /\ l \in Layers
      BY LiveSessionAssumption DEF Steady
    <3>2. l \in mLayerRegistry[c]
      BY <1>1, <1>5 DEF Connections, StayConnected
    <3>3. t \in Sessions /\ ClientOf[t] = c /\ IsConnected(c)
      BY <1>1, <1>5, SteadyLive
    <3>4. data'[c][l] = after
      BY <1>1, <1>5, <3>1 DEF ClientTypeOK
    <3>5. QED
      BY <3>1, <3>2, <3>3, <3>4
  <2>2. /\ deltas \in Seq(ServerDelta) /\ acks \in Seq(Acknowledge)
        /\ data[c][l] \in LayerState
    BY <2>1, StreamTypes
  <2>3. after = Queued(Reloaded(c, l), deltas, acks)
    BY <2>1 DEF Accumulated, Queued
  <2>4. l \notin mRequestedReloads[c]
    <3>1. SUFFICES ASSUME l \in mRequestedReloads[c] PROVE FALSE
      OBVIOUS
    <3>2. /\ Reloaded(c, l) = OnLoaded(File[l])
          /\ OnLoaded(File[l]) \in LayerState
          /\ OnLoaded(File[l]).mUnacknowledgedFields = {}
      BY <2>1, <3>1, LiveClientAssumption, OnLoadedType DEF Reloaded, OnLoaded
    <3>3. after.mUnacknowledgedFields = {}
      <4> DEFINE fetched == FetchLocalDeltas(OnLoaded(File[l]))
                 acknowledged == AccumulateRemoteUpdates(fetched, acks)
      <4>1. fetched \in LayerState /\ fetched.mUnacknowledgedFields = {}
        BY <3>2, FetchLocalDeltasType, FetchCauses
      <4>2. after = AccumulateRemoteUpdates(acknowledged, deltas)
        BY <2>3, <3>2 DEF Queued
      <4> HIDE DEF fetched, after
      <4>3. acknowledged \in LayerState
        <5>1. acks \in Seq(ServerDelta \cup Acknowledge)
          BY <2>2, SeqOfSubset
        <5>2. QED
          BY <4>1, <5>1, AccumulateRemoteUpdatesType
      <4>4. acknowledged.mUnacknowledgedFields = {}
        BY <4>1, AccumulateCauses
      <4> HIDE DEF acknowledged
      <4>5. QED
        BY <4>2, <4>3, <4>4, AccumulateCauses
    <3>4. QED
      BY <1>5, <2>1, <3>3
  <2>5. Reloaded(c, l) = data[c][l]
    BY <2>4 DEF Reloaded
  <2>6. /\ after.mUnacknowledgedFields = data[c][l].mUnacknowledgedFields
        /\ data[c][l].mRemoteDeltasQueue \subseteq after.mRemoteDeltasQueue
        /\ \A i \in DOMAIN acks : Queueable(acks[i]) \in after.mRemoteDeltasQueue
    <3>1. StreamOf(c, l)
      BY <1>1, <1>5, <2>1 DEF Streams
    <3>2. PICK k, e, f \in Nat :
              Taken(deltas, acks, data[c][l], l, mRequestedReloads[c], k, e, f, epoch[l])
      BY <3>1 DEF StreamOf, Stream
    <3> HIDE DEF deltas, acks, after
    <3>3. QED
      BY <2>2, <2>3, <2>4, <2>5, <3>2, QueuedCauses
  <2>7. ASSUME p \in PathsOf(local)
        PROVE  Carries(toServer'[t][l], "Delta", p)
    <3> DEFINE event == [type |-> "Delta", updates |-> local]
    <3>1. local # NoUpdates
      BY <2>7, NoUpdatesSendable
    <3>2. \A q \in PathsOf(local) : \A i \in DOMAIN local[q] :
              local[q][i].key \notin Unserializable
      BY <2>1 DEF Masks, EditsSendable, Sendable
    <3>3. DeltaEvents(c, l) = <<event>>
      BY <2>1, <2>5, <3>1, <3>2 DEF DeltaEvents
    <3>4. Carries(<<event>>, "Delta", p)
      <4>1. 1 \in DOMAIN <<event>> /\ <<event>>[1] = event
        OBVIOUS
      <4>2. QED
        BY <2>7, <4>1 DEF Carries
    <3> HIDE DEF event, local, t
    <3>5. toServer'[t][l] = toServer[t][l] \o to[l] /\ to[l] = <<event>>
      BY <1>2, <1>5, <1>3, <2>1, <3>3 DEF t
    <3>6. toServer[t][l] \in Seq(ClientEvent) /\ to[l] \in Seq(ClientEvent)
      BY <1>1, <1>2, <2>1 DEF WireTypeOK
    <3>7. QED
      BY <3>4, <3>5, <3>6, CarriesMore
  <2>8. ASSUME Carries(acks, "Acknowledge", p)
        PROVE  Due(after, p)
    <3>1. PICK i \in DOMAIN acks : acks[i].type = "Acknowledge" /\ p \in PathsOf(acks[i].updates)
      BY <2>8 DEF Carries
    <3>2. acks[i].updates[p] = <<>>
      BY <2>1, <3>1 DEF Masks, AcknowledgesNameOnly, AcknowledgesName, NamesOnly, PathsOf
    <3>3. Queueable(acks[i]).updates = acks[i].updates
      BY DEF Queueable
    <3> HIDE DEF after, acks
    <3>4. QED
      BY <2>6, <3>1, <3>2, <3>3 DEF Due
  <2>9. Due(data[c][l], p) => Due(after, p)
    BY <2>6 DEF Due
  <2>10. ASSUME Cause(c, l, p)
         PROVE  Cause(c, l, p)'
    <3>1. t \in SessionsOf(c)
      BY <2>1 DEF SessionsOf
    <3>2. CASE p \in PathsOf(local)
      BY <2>7, <3>1, <3>2 DEF Cause
    <3>3. CASE \E s \in SessionsOf(c) : Carries(toServer[s][l], "Delta", p)
      BY <1>4, <3>3 DEF Cause
    <3>4. CASE InLiveMode(c) /\ Carries(toClient[t][l], "Acknowledge", p)
      BY <1>1, <3>4 DEF Cause, InLiveMode
    <3>5. CASE Carries(acks, "Acknowledge", p) \/ Due(data[c][l], p)
      BY <2>1, <2>8, <2>9, <3>5 DEF Cause
    <3>6. QED
      BY <2>4, <2>10, <3>2, <3>3, <3>4, <3>5 DEF Cause
  <2>11. QED
    BY <1>5, <2>1, <2>6, <2>10
<1>6. ASSUME NEW c \in Steady, NEW l \in OpenedFirst, NEW p, c # d
      PROVE  /\ data'[c][l] = data[c][l]
             /\ Cause(c, l, p) => Cause(c, l, p)'
  <2>1. c \in Clients /\ l \in Layers
    BY LiveSessionAssumption DEF Steady
  <2>2. /\ mAccumulatedAcknowledges'[c][l] = mAccumulatedAcknowledges[c][l]
        /\ mRequestedReloads'[c] = mRequestedReloads[c]
        /\ data'[c][l] = data[c][l]
    BY <1>1, <1>6, <2>1 DEF ClientTypeOK
  <2>3. \A s \in SessionsOf(c) :
            Carries(toServer[s][l], "Delta", p) => Carries(toServer'[s][l], "Delta", p)
    BY <1>4
  <2>4. QED
    BY <1>1, <2>1, <2>2, <2>3, CauseStays
<1>7. ASSUME NEW c \in Steady, NEW l \in OpenedFirst, NEW p,
             p \in data'[c][l].mUnacknowledgedFields
      PROVE  /\ p \in data[c][l].mUnacknowledgedFields
             /\ Cause(c, l, p) => Cause(c, l, p)'
  BY <1>5, <1>6, <1>7
<1>8. QED
  BY <1>7, CausedKept DEF Masks

LEMMA CausedStep ==
    ASSUME FieldsSerializable, TypeInv, Delivery, Connections, Streams, Masks, [Next]_vars
    PROVE  Caused'
<1>1. EditsSendable /\ Caused
  BY DEF Masks
<1>2. ASSUME NEW c \in Clients, NEW s \in Sessions, Join(c, s) PROVE Caused'
  BY <1>1, <1>2, CausedJoin
<1>3. ASSUME NEW c \in Clients, Leave(c) PROVE Caused'
  BY <1>1, <1>3, CausedLeave
<1>4. ASSUME NEW c \in Clients, HostTicks(c) PROVE Caused'
  BY <1>4, CausedHostTicks
<1>5. ASSUME NEW s \in Sessions, ServerNotices(s) PROVE Caused'
  BY <1>1, <1>5, CausedServerNotices
<1>6. ASSUME NEW s \in Sessions, NEW l \in Layers, ServerReceives(s, l) PROVE Caused'
  BY <1>1, <1>6, CausedDelta, CausedReload DEF ServerReceives
<1>7. ASSUME NEW c \in Clients, NEW l \in Layers, ClientReceives(c, l) PROVE Caused'
  BY <1>1, <1>7, CausedClientReceives
<1>8. ASSUME NEW c \in Clients, NEW l \in Layers, HostEdits(c, l) PROVE Caused'
  BY <1>1, <1>8, CausedHostEdits
<1>9. ASSUME NEW c \in Clients, NEW l \in Layers, HostApplies(c, l) PROVE Caused'
  BY <1>1, <1>9, CausedHostApplies
<1>10. ASSUME NEW c \in Clients, NEW l \in Layers, HostOpens(c, l) PROVE Caused'
  BY <1>1, <1>10, CausedHostOpens
<1>11. ASSUME NEW c \in Clients, NEW l \in Layers, HostReloads(c, l) PROVE Caused'
  BY <1>1, <1>11, CausedHostReloads
<1>12. CASE UNCHANGED vars
  BY <1>1, <1>12 DEF vars, wireVars, clientVars, Caused, Cause, InLiveMode
<1>13. QED
  BY <1>2, <1>3, <1>4, <1>5, <1>6, <1>7, <1>8, <1>9, <1>10, <1>11, <1>12 DEF Next

\* A cause is one of those MaskHasCause names.
LEMMA CauseIsNamed ==
    ASSUME TypeInv, NEW c \in Steady, NEW l \in OpenedFirst, NEW p, Cause(c, l, p)
    PROVE  \/ p \in PathsOf(data[c][l].mLocalDeltas)
           \/ InFlight(c, l, p)
           \/ l \in mRequestedReloads[c]
<1> DEFINE deltas == mAccumulatedDeltas[c][l]
           acks == mAccumulatedAcknowledges[c][l]
           wire == IF InLiveMode(c) THEN toClient[mWebsocketClient[c]][l] ELSE <<>>
<1>1. /\ c \in Clients /\ l \in Layers
      /\ mWebsocketClient[c] \in Sessions \cup {NoSession}
      /\ WireTypeOK /\ ClientTypeOK
  BY LiveSessionAssumption DEF Steady, TypeInv, TypeOK, ClientTypeOK
<1>2. deltas \in Seq(ServerEvent) /\ acks \in Seq(ServerEvent) /\ wire \in Seq(ServerEvent)
  <2>1. deltas \in Seq(ServerDelta) /\ acks \in Seq(Acknowledge)
    BY <1>1 DEF ClientTypeOK
  <2>2. ServerDelta \subseteq ServerEvent /\ Acknowledge \subseteq ServerEvent
    BY DEF ServerEvent
  <2>3. wire \in Seq(ServerEvent)
    BY <1>1 DEF WireTypeOK, InLiveMode
  <2> HIDE DEF deltas, acks, wire
  <2>4. QED
    BY <2>1, <2>2, <2>3, SeqOfSubset
<1>3. Arriving(c, l) = (deltas \o acks) \o wire
  BY DEF Arriving
<1>4. CASE \/ Carries(acks, "Acknowledge", p)
           \/ InLiveMode(c) /\ Carries(toClient[mWebsocketClient[c]][l], "Acknowledge", p)
  <2>1. Carries(acks, "Acknowledge", p) \/ Carries(wire, "Acknowledge", p)
    BY <1>4
  <2> HIDE DEF deltas, acks, wire
  <2>2. deltas \o acks \in Seq(ServerEvent)
    BY <1>2
  <2>3. Carries(acks, "Acknowledge", p) => Carries(deltas \o acks, "Acknowledge", p)
    BY <1>2, CarriesMore
  <2>4. Carries((deltas \o acks) \o wire, "Acknowledge", p)
    BY <1>2, <2>1, <2>2, <2>3, CarriesMore
  <2>5. QED
    BY <1>3, <2>4 DEF Carries, InFlight
<1>5. CASE \E s \in SessionsOf(c) : Carries(toServer[s][l], "Delta", p)
  BY <1>5 DEF Carries, InFlight
<1>6. CASE Due(data[c][l], p)
  BY <1>6 DEF Due, InFlight
<1>7. QED
  BY <1>4, <1>5, <1>6 DEF Cause

\* Why no path stays masked without a reason: see the head of this module.
LEMMA MasksStep ==
    ASSUME FieldsSerializable, TypeInv, Delivery, Connections, Streams, Masks, [Next]_vars
    PROVE  Masks'
<1>1. AcknowledgesNameOnly'
  BY NamesStep DEF Masks
<1>2. EditsSendable'
  BY SendableStep DEF Masks
<1>3. Caused'
  BY CausedStep
<1>4. QED
  BY <1>1, <1>2, <1>3 DEF Masks

\* An own edit hides the remote edits of its path, _ApplyDelta's isUnacknowledgedYet, only
\* as long as the edit waits for the tick, is on its way to the server, or is on its way
\* back as an acknowledgement; or the reload that forgets it is due.  This is so if no
\* host edits a field whose value no event can carry: then the tick throws after
\* FetchLocalDeltas has taken the edits, and nothing will ever lift their masks.
THEOREM MaskHasCauseCorrect ==
    ASSUME FieldsSerializable
    PROVE  Spec => []MaskHasCause
<1>1. Spec => []TypeInv
  BY TypeInit, TypeStep, PTL DEF Spec
<1>2. Init => Masks
  BY NamesInit, SendableInit, CausedInit DEF Masks
<1>3. TypeInv /\ Delivery /\ Connections /\ Streams /\ Masks /\ [Next]_vars => Masks'
  BY MasksStep
<1>4. TypeInv /\ Masks => MaskHasCause
  BY CauseIsNamed DEF Masks, Caused, MaskHasCause
<1>5. QED
  BY <1>1, <1>2, <1>3, <1>4, DeliveryCorrect, StreamsCorrect, PTL DEF Spec

(***************************************************************************)
(* The shared log.  In a session nobody leaves and nobody reloads in, what *)
(* is on its way to a client or applied by it is what the log tells the    *)
(* client: the entry of that number, of its own edits only the paths.  Why *)
(* an own edit is not replayed to its author in full: whoever has an entry *)
(* in the history has its one websocket already.                           *)
(***************************************************************************)
Told(c, history, x) ==
    /\ x.sequence \in DOMAIN history
    /\ x.updates = Log!AsSeenBy(c, history[x.sequence])

AllTold(c, history, events) ==
    \A i \in DOMAIN events : ~IsReload(events[i]) /\ Told(c, history, events[i])

LayerTold(c, history, d) ==
    /\ \A u \in d.mRemoteDeltasQueue : Told(c, history, u)
    /\ \A n \in DOMAIN d.applied : Told(c, history, d.applied[n])

AuthorsLive ==
    \A l \in Layers : \A n \in DOMAIN mHistory[l] : InLiveMode(mHistory[l][n].user)

WireTold ==
    \A s \in Sessions, l \in Layers : AllTold(ClientOf[s], mHistory[l], toClient[s][l])

ClientTold(c, l) ==
    /\ AllTold(c, mHistory[l], mAccumulatedDeltas[c][l])
    /\ AllTold(c, mHistory[l], mAccumulatedAcknowledges[c][l])
    /\ LayerTold(c, mHistory[l], data[c][l])

Telling ==
    /\ AuthorsLive
    /\ WireTold
    /\ \A c \in Clients : mRequestedReloads[c] = {}
    /\ \A c \in Clients, l \in Layers : ClientTold(c, l)

NobodyReloadsOrLeaves == Reloaders = {} /\ Leavers = {}

LEMMA ToldStays ==
    ASSUME NEW S, NEW history \in Seq(S), NEW entry, NEW c, NEW x, Told(c, history, x)
    PROVE  Told(c, Append(history, entry), x)
<1> DEFINE longer == Append(history, entry)
<1>1. \A n \in DOMAIN history : n \in DOMAIN longer /\ longer[n] = history[n]
  OBVIOUS
<1> HIDE DEF longer
<1>2. QED
  BY <1>1 DEF Told, longer

LEMMA AllToldAppended ==
    ASSUME NEW c, NEW history, NEW S, NEW events \in Seq(S), NEW x,
           AllTold(c, history, events), ~IsReload(x), Told(c, history, x)
    PROVE  AllTold(c, history, Append(events, x))
<1>1. \A i \in DOMAIN Append(events, x) :
          \/ i \in DOMAIN events /\ Append(events, x)[i] = events[i]
          \/ Append(events, x)[i] = x
  OBVIOUS
<1>2. QED
  BY <1>1 DEF AllTold

LEMMA AllToldRest ==
    ASSUME NEW c, NEW history, NEW S, NEW events \in Seq(S), events # <<>>,
           AllTold(c, history, events)
    PROVE  /\ AllTold(c, history, Tail(events))
           /\ ~IsReload(Head(events)) /\ Told(c, history, Head(events))
<1>1. \A i \in DOMAIN Tail(events) : i + 1 \in DOMAIN events /\ Tail(events)[i] = events[i + 1]
  OBVIOUS
<1>2. 1 \in DOMAIN events /\ Head(events) = events[1]
  OBVIOUS
<1>3. QED
  BY <1>1, <1>2 DEF AllTold

LEMMA TellingInit == Init => Telling
<1> SUFFICES ASSUME Init PROVE Telling
  OBVIOUS
<1>1. /\ \A l \in Layers : mHistory[l] = <<>>
      /\ \A s \in Sessions, l \in Layers : toClient[s][l] = <<>>
      /\ \A c \in Clients : mRequestedReloads[c] = {}
      /\ \A c \in Clients, l \in Layers :
            /\ mAccumulatedDeltas[c][l] = <<>>
            /\ mAccumulatedAcknowledges[c][l] = <<>>
            /\ data[c][l].mRemoteDeltasQueue = {}
            /\ data[c][l].applied = <<>>
  BY DEF Init, ServerInit, WireInit, ClientInit, Silent, OnLoaded
<1>2. QED
  BY <1>1 DEF Telling, AuthorsLive, WireTold, ClientTold, AllTold, LayerTold

LEMMA TellingJoin ==
    ASSUME NobodyReloadsOrLeaves, TypeInv, Delivery, Connections, Telling,
           NEW c \in Clients, NEW s \in Sessions, Join(c, s)
    PROVE  Telling'
<1>1. /\ WireTypeOK /\ ServerTypeOK /\ ClientTypeOK
      /\ ~IsConnected(c) /\ ClientOf[s] = c /\ link[s] = "new"
      /\ toClient' = [toClient EXCEPT ![s] = [l \in Layers |-> @[l] \o mHistory[l]]]
      /\ mWebsocketClient' = [mWebsocketClient EXCEPT ![c] = s]
      /\ UNCHANGED <<mHistory, data, mAccumulatedDeltas, mAccumulatedAcknowledges,
                     mRequestedReloads>>
  BY DEF Join, OnConnected, ClientOnConnected, TypeInv, TypeOK, SessionsOf
<1>2. ~InLiveMode(c)
  BY <1>1 DEF Connections, StayConnected, IsConnected, Steady, NobodyReloadsOrLeaves
<1>3. AuthorsLive'
  BY <1>1, LiveClientAssumption DEF Telling, AuthorsLive, InLiveMode, ClientTypeOK
<1>4. ASSUME NEW l \in Layers
      PROVE  AllTold(c, mHistory[l], toClient'[s][l])
  <2>1. mHistory[l] \in Seq(ServerDelta)
    BY <1>1 DEF ServerTypeOK
  <2>2. toClient'[s][l] = mHistory[l]
    <3>1. toClient[s][l] = <<>>
      BY <1>1 DEF Connections, FreshSessions
    <3>2. toClient'[s][l] = toClient[s][l] \o mHistory[l]
      BY <1>1 DEF WireTypeOK
    <3>3. QED
      BY <2>1, <3>1, <3>2
  <2>3. ASSUME NEW i \in DOMAIN mHistory[l]
        PROVE  ~IsReload(mHistory[l][i]) /\ Told(c, mHistory[l], mHistory[l][i])
    <3>1. mHistory[l][i] \in ServerDelta
      BY <2>1
    <3>2. mHistory[l][i].sequence = i
      BY DEF Delivery, HistoryNumbered
    <3>3. mHistory[l][i].user # c
      BY <1>2 DEF Telling, AuthorsLive
    <3>4. QED
      BY <3>1, <3>2, <3>3 DEF ServerDelta, IsReload, Told, Log!AsSeenBy
  <2>4. QED
    BY <2>2, <2>3 DEF AllTold
<1>5. WireTold'
  <2>1. \A t \in Sessions : t # s => toClient'[t] = toClient[t]
    BY <1>1 DEF WireTypeOK
  <2>2. QED
    BY <1>1, <1>4, <2>1 DEF Telling, WireTold
<1>6. QED
  BY <1>1, <1>3, <1>5 DEF Telling, ClientTold

\* The server tells its author of an edit by an acknowledgement, the others in full.
LEMMA TellingDelta ==
    ASSUME NobodyReloadsOrLeaves, TypeInv, Delivery, Connections, Telling,
           NEW s \in Sessions, NEW l \in Layers, OnDeltaEvent(s, l), UNCHANGED clientVars
    PROVE  Telling'
<1> DEFINE updates == Head(toServer[s][l]).updates
           delta == [type |-> "Delta", user |-> ClientOf[s], updates |-> updates,
                     sequence |-> GetSequenceNumber(l), epoch |-> epoch[l]]
           ack == [type |-> "Acknowledge", updates |-> PathsOnly(updates),
                   sequence |-> GetSequenceNumber(l), epoch |-> epoch[l]]
           longer == Append(mHistory[l], delta)
<1>1. /\ s \in serverUp
      /\ UNCHANGED <<mWebsocketClient, data, mAccumulatedDeltas, mAccumulatedAcknowledges,
                     mRequestedReloads>>
      /\ WireTypeOK /\ ServerTypeOK
  BY DEF OnDeltaEvent, TakeFromClient, clientVars, TypeInv, TypeOK
<1>2. CASE ~ChannelExists
  BY <1>1, <1>2 DEF OnDeltaEvent, Telling, AuthorsLive, InLiveMode, WireTold, ClientTold
<1>3. CASE ChannelExists
  <2>1. /\ mHistory' = [mHistory EXCEPT ![l] = longer]
        /\ SendToOthers(s, l, delta, <<ack>>)
    BY <1>3 DEF OnDeltaEvent
  <2>2. mHistory[l] \in Seq(ServerDelta)
    BY <1>1 DEF ServerTypeOK
  <2>3. /\ GetSequenceNumber(l) = Len(mHistory[l]) + 1
        /\ GetSequenceNumber(l) \in DOMAIN longer
        /\ longer[GetSequenceNumber(l)] = delta
    BY <2>2 DEF GetSequenceNumber
  <2>4. \A c : c # ClientOf[s] => Told(c, longer, delta)
    BY <2>3 DEF Told, Log!AsSeenBy
  <2>5. Told(ClientOf[s], longer, ack)
    BY <2>3 DEF Told, Log!AsSeenBy
  <2>6. ~IsReload(delta) /\ ~IsReload(ack)
    BY DEF IsReload
  <2>7. AuthorsLive'
    <3>1. mWebsocketClient[ClientOf[s]] = s
      BY <1>1, LiveWireAssumption DEF Connections, OneSession, SessionsOf, Steady,
                                      NobodyReloadsOrLeaves
    <3>2. InLiveMode(ClientOf[s])
      BY <3>1, LiveClientAssumption DEF InLiveMode
    <3>3. \A n \in DOMAIN longer :
              \/ n \in DOMAIN mHistory[l] /\ longer[n] = mHistory[l][n]
              \/ longer[n].user = ClientOf[s]
      BY <2>2
    <3> HIDE DEF longer
    <3>4. QED
      BY <1>1, <2>1, <3>2, <3>3 DEF Telling, AuthorsLive, InLiveMode, ServerTypeOK
  <2> HIDE DEF delta, ack
  <2>8. \A c, x : Told(c, mHistory[l], x) => Told(c, longer, x)
    BY <2>2, ToldStays
  <2> HIDE DEF longer
  <2>9. \A k \in Layers : mHistory'[k] = IF k = l THEN longer ELSE mHistory[k]
    BY <1>1, <2>1 DEF ServerTypeOK
  <2>10. ASSUME NEW c \in Clients, NEW k \in Layers
         PROVE  ClientTold(c, k)'
    BY <1>1, <2>8, <2>9 DEF Telling, ClientTold, AllTold, LayerTold
  <2>11. ASSUME NEW t \in Sessions, NEW k \in Layers
         PROVE  AllTold(ClientOf[t], mHistory'[k], toClient'[t][k])
    <3> DEFINE toSender == <<ack>>
               sent == IF t \in Recipients(s) THEN <<delta>>
                       ELSE IF t = s THEN toSender ELSE <<>>
               wire == toClient[t][l]
    <3>1. toClient[t] \in [Layers -> Seq(ServerEvent)]
      BY <1>1 DEF WireTypeOK
    <3>2. toClient'[t] = [toClient[t] EXCEPT ![l] = @ \o sent]
      BY <2>1 DEF SendToOthers
    <3>3. CASE k # l
      BY <2>9, <3>1, <3>2, <3>3 DEF Telling, WireTold
    <3>4. CASE k = l
      <4>1. toClient'[t][k] = wire \o sent /\ wire \in Seq(ServerEvent)
        BY <3>1, <3>2, <3>4
      <4>2. AllTold(ClientOf[t], longer, wire)
        BY <2>8 DEF Telling, WireTold, AllTold
      <4>3. CASE t \in Recipients(s)
        <5>1. toClient'[t][k] = Append(wire, delta)
          BY <4>1, <4>3
        <5>2. ClientOf[t] # ClientOf[s]
          BY <4>3 DEF Recipients, SessionsOf
        <5> HIDE DEF wire
        <5>3. QED
          BY <2>4, <2>6, <2>9, <3>4, <4>1, <4>2, <5>1, <5>2, AllToldAppended
      <4>4. CASE t \notin Recipients(s) /\ t = s
        <5>1. toClient'[t][k] = Append(wire, ack)
          BY <4>1, <4>4
        <5> HIDE DEF wire
        <5>2. QED
          BY <2>5, <2>6, <2>9, <3>4, <4>1, <4>2, <4>4, <5>1, AllToldAppended
      <4>5. CASE t \notin Recipients(s) /\ t # s
        BY <2>9, <3>4, <4>1, <4>2, <4>5
      <4>6. QED
        BY <4>3, <4>4, <4>5
    <3>5. QED
      BY <3>3, <3>4
  <2>12. QED
    BY <1>1, <2>7, <2>10, <2>11 DEF Telling, WireTold
<1>4. QED
  BY <1>2, <1>3

LEMMA TellingClientReceives ==
    ASSUME TypeInv, Delivery, Telling, NEW c \in Clients, NEW l \in Layers,
           ClientReceives(c, l)
    PROVE  Telling'
<1> DEFINE s == mWebsocketClient[c]
           event == Head(toClient[s][l])
           history == mHistory[l]
<1>1. /\ WireTypeOK /\ ClientTypeOK
      /\ s \in Sessions /\ ClientOf[s] = c /\ toClient[s][l] # <<>>
      /\ UNCHANGED <<mHistory, mWebsocketClient, data>>
      /\ toClient' = [toClient EXCEPT ![s][l] = Tail(@)]
      /\ mAccumulatedDeltas' = [mAccumulatedDeltas EXCEPT ![c][l] =
             CASE event.type = "Delta" -> Append(@, event)
               [] event.type = "Reload" -> LeftByReload(@)
               [] OTHER -> @]
      /\ mAccumulatedAcknowledges' = [mAccumulatedAcknowledges EXCEPT ![c][l] =
             CASE event.type = "Acknowledge" -> Append(@, event)
               [] event.type = "Reload" -> LeftByReload(@)
               [] OTHER -> @]
      /\ mRequestedReloads' = [mRequestedReloads EXCEPT ![c] =
             IF event.type = "Reload" THEN @ \cup {l} ELSE @]
  BY DEF ClientReceives, OnMessage, IsConnected, InLiveMode, TypeInv, TypeOK, ClientTypeOK,
         Delivery, OwnSessions, serverVars
<1>2. toClient[s][l] \in Seq(ServerEvent) /\ AllTold(c, history, toClient[s][l])
  BY <1>1 DEF WireTypeOK, Telling, WireTold
<1>3. /\ AllTold(c, history, Tail(toClient[s][l]))
      /\ event.type # "Reload" /\ ~IsReload(event) /\ Told(c, history, event)
  <2>1. AllTold(c, history, Tail(toClient[s][l])) /\ ~IsReload(event) /\ Told(c, history, event)
    BY <1>1, <1>2, AllToldRest
  <2>2. QED
    BY <2>1 DEF IsReload
<1>4. /\ mAccumulatedDeltas[c][l] \in Seq(ServerDelta)
      /\ mAccumulatedAcknowledges[c][l] \in Seq(Acknowledge)
      /\ AllTold(c, history, mAccumulatedDeltas[c][l])
      /\ AllTold(c, history, mAccumulatedAcknowledges[c][l])
  BY <1>1 DEF ClientTypeOK, Telling, ClientTold
<1> HIDE DEF s, event
<1>5. /\ AllTold(c, history, Append(mAccumulatedDeltas[c][l], event))
      /\ AllTold(c, history, Append(mAccumulatedAcknowledges[c][l], event))
  <2> HIDE DEF history
  <2> QED BY <1>3, <1>4, AllToldAppended
<1>6. mRequestedReloads' = mRequestedReloads
  BY <1>1, <1>3 DEF ClientTypeOK
<1>7. WireTold'
  <2>1. ASSUME NEW t \in Sessions, NEW k \in Layers
        PROVE  \/ toClient'[t][k] = toClient[t][k]
               \/ t = s /\ k = l /\ toClient'[t][k] = Tail(toClient[s][l])
    BY <1>1 DEF WireTypeOK
  <2>2. QED
    BY <1>1, <1>3, <2>1 DEF Telling, WireTold
<1>8. ASSUME NEW d \in Clients, NEW k \in Layers
      PROVE  ClientTold(d, k)'
  <2>1. \/ mAccumulatedDeltas'[d][k] = mAccumulatedDeltas[d][k]
        \/ /\ d = c /\ k = l
           /\ mAccumulatedDeltas'[d][k] = Append(mAccumulatedDeltas[c][l], event)
    BY <1>1, <1>3 DEF ClientTypeOK
  <2>2. \/ mAccumulatedAcknowledges'[d][k] = mAccumulatedAcknowledges[d][k]
        \/ /\ d = c /\ k = l
           /\ mAccumulatedAcknowledges'[d][k] = Append(mAccumulatedAcknowledges[c][l], event)
    BY <1>1, <1>3 DEF ClientTypeOK
  <2>3. QED
    BY <1>1, <1>5, <2>1, <2>2 DEF Telling, ClientTold
<1>9. QED
  BY <1>1, <1>6, <1>7, <1>8 DEF Telling, AuthorsLive, InLiveMode

LEMMA AccumulateTold ==
    ASSUME NEW d \in LayerState, NEW c, NEW history, NEW updates,
           LayerTold(c, history, d), AllTold(c, history, updates)
    PROVE  /\ LayerTold(c, history, AccumulateRemoteUpdates(d, updates))
           /\ AccumulateRemoteUpdates(d, updates).applied = d.applied
<1> DEFINE after == AccumulateRemoteUpdates(d, updates)
<1>1. /\ after.applied = d.applied
      /\ \A u \in after.mRemoteDeltasQueue :
            \/ u \in d.mRemoteDeltasQueue
            \/ \E i \in DOMAIN updates :
                  u.sequence = updates[i].sequence /\ u.updates = updates[i].updates
  BY DEF AccumulateRemoteUpdates, LayerState
<1> HIDE DEF after
<1>2. QED
  BY <1>1 DEF LayerTold, AllTold, Told, after

\* A tick moves the events on and applies none.
LEMMA TickTold ==
    ASSUME TypeInv, Connections, Telling, NEW c \in Clients, NEW l \in Layers
    PROVE  /\ LayerTold(c, mHistory[l], Accumulated(c, l))
           /\ Accumulated(c, l).applied = data[c][l].applied
<1>1. /\ data[c][l] \in LayerState
      /\ mAccumulatedDeltas[c][l] \in Seq(ServerDelta)
      /\ mAccumulatedAcknowledges[c][l] \in Seq(Acknowledge)
  BY DEF TypeInv, TypeOK, ClientTypeOK
<1>2. /\ LayerTold(c, mHistory[l], data[c][l])
      /\ AllTold(c, mHistory[l], mAccumulatedDeltas[c][l])
      /\ AllTold(c, mHistory[l], mAccumulatedAcknowledges[c][l])
      /\ Reloaded(c, l) = data[c][l]
  BY DEF Telling, ClientTold, Reloaded
<1> DEFINE fetched == FetchLocalDeltas(data[c][l])
           acknowledged == AccumulateRemoteUpdates(fetched, mAccumulatedAcknowledges[c][l])
           after == AccumulateRemoteUpdates(acknowledged, mAccumulatedDeltas[c][l])
<1>3. /\ fetched \in LayerState
      /\ LayerTold(c, mHistory[l], fetched) /\ fetched.applied = data[c][l].applied
  BY <1>1, <1>2, FetchLocalDeltasType DEF FetchLocalDeltas, LayerState, LayerTold
<1>4. Accumulated(c, l) = IF l \in mLayerRegistry[c] THEN after ELSE data[c][l]
  BY <1>2 DEF Accumulated
<1> HIDE DEF fetched
<1>5. acknowledged \in LayerState
  <2>1. mAccumulatedAcknowledges[c][l] \in Seq(ServerDelta \cup Acknowledge)
    BY <1>1, SeqOfSubset
  <2>2. QED
    BY <1>3, <2>1, AccumulateRemoteUpdatesType
<1>6. /\ LayerTold(c, mHistory[l], acknowledged)
      /\ acknowledged.applied = data[c][l].applied
  BY <1>2, <1>3, AccumulateTold
<1> HIDE DEF acknowledged
<1>7. LayerTold(c, mHistory[l], after) /\ after.applied = data[c][l].applied
  BY <1>2, <1>5, <1>6, AccumulateTold
<1> HIDE DEF after
<1>8. QED
  BY <1>2, <1>4, <1>7

LEMMA TellingHostTicks ==
    ASSUME TypeInv, Connections, Telling, NEW c \in Clients, HostTicks(c)
    PROVE  Telling'
<1>1. /\ UNCHANGED <<mHistory, toClient, mWebsocketClient>>
      /\ mAccumulatedDeltas' = [mAccumulatedDeltas EXCEPT ![c] = Silent]
      /\ mAccumulatedAcknowledges' = [mAccumulatedAcknowledges EXCEPT ![c] = Silent]
      /\ mRequestedReloads' = [mRequestedReloads EXCEPT ![c] = {}]
      /\ data' = [data EXCEPT ![c] = [l \in Layers |-> Accumulated(c, l)]]
      /\ ClientTypeOK
  BY DEF HostTicks, Tick, serverVars, TypeInv, TypeOK
<1>2. ASSUME NEW d \in Clients, NEW l \in Layers
      PROVE  ClientTold(d, l)' /\ mRequestedReloads'[d] = {}
  <2>1. CASE d = c
    <3>1. /\ mAccumulatedDeltas'[d][l] = <<>> /\ mAccumulatedAcknowledges'[d][l] = <<>>
          /\ mRequestedReloads'[d] = {} /\ data'[d][l] = Accumulated(c, l)
      BY <1>1, <2>1 DEF ClientTypeOK, Silent
    <3>2. LayerTold(c, mHistory[l], Accumulated(c, l))
      BY TickTold
    <3>3. QED
      BY <1>1, <2>1, <3>1, <3>2 DEF ClientTold, AllTold
  <2>2. CASE d # c
    BY <1>1, <2>2 DEF ClientTypeOK, Telling, ClientTold
  <2>3. QED
    BY <2>1, <2>2
<1>3. \A d \in Clients : mRequestedReloads'[d] = {}
  BY <1>1 DEF Telling, ClientTypeOK
<1>4. QED
  BY <1>1, <1>2, <1>3 DEF Telling, AuthorsLive, InLiveMode, WireTold

LEMMA ApplyTold ==
    ASSUME NEW d \in LayerState, NEW c, NEW history, LayerTold(c, history, d),
           HasNextUpdate(d)
    PROVE  /\ LayerTold(c, history, ApplyNextUpdate(d))
           /\ \E u \in d.mRemoteDeltasQueue :
                 /\ IsNextUpdate(d, u)
                 /\ ApplyNextUpdate(d).applied = Append(d.applied, u)
<1> DEFINE update == CHOOSE u \in d.mRemoteDeltasQueue : IsNextUpdate(d, u)
           after == ApplyNextUpdate(d)
<1>1. update \in d.mRemoteDeltasQueue /\ IsNextUpdate(d, update)
  BY DEF HasNextUpdate
<1>2. /\ after.applied = Append(d.applied, update)
      /\ after.mRemoteDeltasQueue = d.mRemoteDeltasQueue \ {update}
  BY DEF ApplyNextUpdate, LayerState
<1> HIDE DEF update, after
<1>3. d.applied \in Seq(Update)
  BY DEF LayerState
<1>4. \A n \in DOMAIN after.applied :
          \/ n \in DOMAIN d.applied /\ after.applied[n] = d.applied[n]
          \/ after.applied[n] = update
  BY <1>2, <1>3
<1>5. QED
  BY <1>1, <1>2, <1>4 DEF LayerTold, after

LEMMA TellingHostApplies ==
    ASSUME TypeInv, Telling, NEW c \in Clients, NEW l \in Layers, HostApplies(c, l)
    PROVE  Telling'
<1>1. /\ UNCHANGED <<mHistory, toClient, mWebsocketClient, mAccumulatedDeltas,
                     mAccumulatedAcknowledges, mRequestedReloads>>
      /\ data' = [data EXCEPT ![c][l] = ApplyNextUpdate(data[c][l])]
      /\ HasNextUpdate(data[c][l])
      /\ data \in [Clients -> [Layers -> LayerState]]
  BY DEF HostApplies, ApplyRemoteUpdate, wireVars, serverVars, TypeInv, TypeOK, ClientTypeOK,
         LoopInv
<1>2. LayerTold(c, mHistory[l], ApplyNextUpdate(data[c][l]))
  BY <1>1, ApplyTold DEF Telling, ClientTold
<1>3. ASSUME NEW d \in Clients, NEW k \in Layers
      PROVE  LayerTold(d, mHistory[k], data'[d][k])
  <2>1. \/ data'[d][k] = data[d][k]
        \/ d = c /\ k = l /\ data'[d][k] = ApplyNextUpdate(data[c][l])
    BY <1>1
  <2>2. QED
    BY <1>2, <2>1 DEF Telling, ClientTold
<1>4. QED
  BY <1>1, <1>3 DEF Telling, AuthorsLive, InLiveMode, WireTold, ClientTold

LEMMA NothingToReload ==
    ASSUME NobodyReloadsOrLeaves, TypeInv, Connections, NEW s \in Sessions, NEW l \in Layers
    PROVE  ~OnReloadEvent(s, l)
<1> SUFFICES ASSUME OnReloadEvent(s, l) PROVE FALSE
  OBVIOUS
<1>1. /\ toServer[s][l] \in Seq(ClientEvent) /\ toServer[s][l] # <<>>
      /\ IsReload(Head(toServer[s][l]))
  BY DEF OnReloadEvent, TakeFromClient, IsReload, TypeInv, TypeOK, WireTypeOK
<1>2. 1 \in DOMAIN toServer[s][l] /\ IsReload(toServer[s][l][1])
  BY <1>1
<1>3. QED
  BY <1>2 DEF Connections, OnlyReloadersReload, NobodyReloadsOrLeaves

\* A layer that is opened in a session has been empty before: nothing changes.
LEMMA OpensUnchanged ==
    ASSUME TypeInv, Connections, NEW c \in Clients, NEW l \in Layers, HostOpens(c, l)
    PROVE  data' = data
<1>1. /\ data' = [data EXCEPT ![c][l] = OnLoaded(File[l])]
      /\ data[c][l] = OnLoaded(File[l])
  BY DEF HostOpens, OpenLayer, Connections, Untouched
<1>2. QED
  BY <1>1 DEF TypeInv, TypeOK, ClientTypeOK

LEMMA TellingStep ==
    ASSUME NobodyReloadsOrLeaves, TypeInv, Delivery, Connections, Telling, [Next]_vars
    PROVE  Telling'
<1>1. ASSUME NEW c \in Clients, NEW s \in Sessions, Join(c, s) PROVE Telling'
  BY <1>1, TellingJoin
<1>2. ASSUME NEW c \in Clients, Leave(c) PROVE FALSE
  BY <1>2 DEF Leave, NobodyReloadsOrLeaves
<1>3. ASSUME NEW c \in Clients, HostTicks(c) PROVE Telling'
  BY <1>3, TellingHostTicks
<1>4. ASSUME NEW s \in Sessions, ServerNotices(s) PROVE FALSE
  BY <1>4 DEF ServerNotices, NobodyReloadsOrLeaves
<1>5. ASSUME NEW s \in Sessions, NEW l \in Layers, ServerReceives(s, l) PROVE Telling'
  <2>1. ~OnReloadEvent(s, l)
    BY NothingToReload
  <2>2. QED
    BY <1>5, <2>1, TellingDelta DEF ServerReceives
<1>6. ASSUME NEW c \in Clients, NEW l \in Layers, ClientReceives(c, l) PROVE Telling'
  BY <1>6, TellingClientReceives
<1>7. ASSUME NEW c \in Clients, NEW l \in Layers, HostEdits(c, l) PROVE Telling'
  <2>1. UNCHANGED <<mHistory, toClient, mWebsocketClient, mAccumulatedDeltas,
                    mAccumulatedAcknowledges, mRequestedReloads>>
    BY <1>7, EditOf DEF wireVars, serverVars
  <2>2. \A d \in Clients, k \in Layers :
            /\ data'[d][k].mRemoteDeltasQueue = data[d][k].mRemoteDeltasQueue
            /\ data'[d][k].applied = data[d][k].applied
    BY <1>7, EditKeepsStreams
  <2>3. QED
    BY <2>1, <2>2 DEF Telling, AuthorsLive, InLiveMode, WireTold, ClientTold, LayerTold
<1>8. ASSUME NEW c \in Clients, NEW l \in Layers, HostApplies(c, l) PROVE Telling'
  BY <1>8, TellingHostApplies
<1>9. ASSUME NEW c \in Clients, NEW l \in Layers, HostOpens(c, l) PROVE Telling'
  <2>1. UNCHANGED <<mHistory, toClient, mWebsocketClient, mAccumulatedDeltas,
                    mAccumulatedAcknowledges, mRequestedReloads, data>>
    BY <1>9, OpensUnchanged DEF HostOpens, OpenLayer, wireVars, serverVars
  <2>2. QED
    BY <2>1 DEF Telling, AuthorsLive, InLiveMode, WireTold, ClientTold
<1>10. ASSUME NEW c \in Clients, NEW l \in Layers, HostReloads(c, l) PROVE FALSE
  BY <1>10 DEF HostReloads, NobodyReloadsOrLeaves
<1>11. CASE UNCHANGED vars
  BY <1>11 DEF vars, wireVars, serverVars, clientVars, Telling, AuthorsLive, InLiveMode,
               WireTold, ClientTold
<1>12. QED
  BY <1>1, <1>2, <1>3, <1>4, <1>5, <1>6, <1>7, <1>8, <1>9, <1>10, <1>11 DEF Next

(***************************************************************************)
(* Every step of such a session is a step of the shared log or none.       *)
(***************************************************************************)
Entries(history) ==
    [n \in DOMAIN history |-> [user |-> history[n].user, updates |-> history[n].updates]]

Tables(applied) == [n \in DOMAIN applied |-> applied[n].updates]

TheLog == [l \in Layers |-> Entries(mHistory[l])]

TheGiven == [c \in Clients |-> [l \in Layers |-> Tables(data[c][l].applied)]]

LEMMA Appending ==
    ASSUME NEW T, NEW a \in Seq(T), NEW x
    PROVE  /\ Len(a) \in Nat /\ DOMAIN a = 1..Len(a)
           /\ DOMAIN Append(a, x) = 1..(Len(a) + 1)
           /\ \A n \in 1..Len(a) : Append(a, x)[n] = a[n]
           /\ Append(a, x)[Len(a) + 1] = x
           /\ \A n \in 1..(Len(a) + 1) : n \in 1..Len(a) \/ n = Len(a) + 1
           /\ Append(a, x) = [n \in 1..(Len(a) + 1) |-> Append(a, x)[n]]
<1>1. /\ Len(a) \in Nat /\ DOMAIN a = 1..Len(a)
      /\ DOMAIN Append(a, x) = 1..(Len(a) + 1)
      /\ \A n \in 1..Len(a) : Append(a, x)[n] = a[n]
      /\ Append(a, x)[Len(a) + 1] = x
  OBVIOUS
<1>2. \A n \in 1..(Len(a) + 1) : n \in 1..Len(a) \/ n = Len(a) + 1
  OBVIOUS
<1>3. Append(a, x) = [n \in 1..(Len(a) + 1) |-> Append(a, x)[n]]
  <2> DEFINE b == Append(a, x)
             m == Len(a) + 1
  <2>1. b \in Seq(T \cup {x}) /\ DOMAIN b = 1..m
    BY <1>1
  <2> HIDE DEF b, m
  <2>2. b = [n \in 1..m |-> b[n]]
    <3>1. b = [n \in DOMAIN b |-> b[n]]
      BY <2>1
    <3>2. QED
      BY <2>1, <3>1
  <2>3. QED
    BY <2>2 DEF b, m
<1>4. QED
  BY <1>1, <1>2, <1>3

LEMMA EntriesAppended ==
    ASSUME NEW S, NEW history \in Seq(S), NEW x
    PROVE  Entries(Append(history, x))
               = Append(Entries(history), [user |-> x.user, updates |-> x.updates])
<1> DEFINE longer == Append(history, x)
           T == {[user |-> history[n].user, updates |-> history[n].updates] :
                    n \in DOMAIN history}
           entry == [user |-> x.user, updates |-> x.updates]
           before == Entries(history)
           appended == Append(before, entry)
<1>1. before \in Seq(T) /\ Len(before) = Len(history)
  BY DEF Entries
<1>2. \A n \in 1..Len(history) :
          before[n] = [user |-> history[n].user, updates |-> history[n].updates]
  BY DEF Entries
<1> HIDE DEF T, entry, before
<1>3. /\ DOMAIN longer = 1..(Len(history) + 1)
      /\ \A n \in 1..Len(history) : longer[n] = history[n]
      /\ longer[Len(history) + 1] = x
      /\ \A n \in 1..(Len(history) + 1) : n \in 1..Len(history) \/ n = Len(history) + 1
  BY Appending
<1>4. /\ \A n \in 1..Len(history) : appended[n] = before[n]
      /\ appended[Len(history) + 1] = entry
      /\ appended = [n \in 1..(Len(history) + 1) |-> appended[n]]
  BY <1>1, Appending
<1> HIDE DEF longer, appended
<1>5. \A n \in 1..(Len(history) + 1) :
          appended[n] = [user |-> longer[n].user, updates |-> longer[n].updates]
  BY <1>2, <1>3, <1>4 DEF entry
<1>6. Entries(longer) = appended
  BY <1>3, <1>4, <1>5 DEF Entries
<1>7. QED
  BY <1>6 DEF longer, appended, before, entry

LEMMA TablesAppended ==
    ASSUME NEW S, NEW applied \in Seq(S), NEW u
    PROVE  Tables(Append(applied, u)) = Append(Tables(applied), u.updates)
<1> DEFINE longer == Append(applied, u)
           T == {applied[n].updates : n \in DOMAIN applied}
           table == u.updates
           before == Tables(applied)
           appended == Append(before, table)
<1>1. before \in Seq(T) /\ Len(before) = Len(applied)
  BY DEF Tables
<1>2. \A n \in 1..Len(applied) : before[n] = applied[n].updates
  BY DEF Tables
<1> HIDE DEF T, table, before
<1>3. /\ DOMAIN longer = 1..(Len(applied) + 1)
      /\ \A n \in 1..Len(applied) : longer[n] = applied[n]
      /\ longer[Len(applied) + 1] = u
      /\ \A n \in 1..(Len(applied) + 1) : n \in 1..Len(applied) \/ n = Len(applied) + 1
  BY Appending
<1>4. /\ \A n \in 1..Len(applied) : appended[n] = before[n]
      /\ appended[Len(applied) + 1] = table
      /\ appended = [n \in 1..(Len(applied) + 1) |-> appended[n]]
  BY <1>1, Appending
<1> HIDE DEF longer, appended
<1>5. \A n \in 1..(Len(applied) + 1) : appended[n] = longer[n].updates
  BY <1>2, <1>3, <1>4 DEF table
<1>6. Tables(longer) = appended
  BY <1>3, <1>4, <1>5 DEF Tables
<1>7. QED
  BY <1>6 DEF longer, appended, before, table

\* A numbered DeltaEvent is an entry of the log.
LEMMA DeltaSubmits ==
    ASSUME TypeInv, NEW s \in Sessions, NEW l \in Layers, OnDeltaEvent(s, l),
           UNCHANGED clientVars
    PROVE  Log!Submit(l) \/ UNCHANGED Log!vars
<1> DEFINE updates == Head(toServer[s][l]).updates
           delta == [type |-> "Delta", user |-> ClientOf[s], updates |-> updates,
                     sequence |-> GetSequenceNumber(l), epoch |-> epoch[l]]
           entry == [user |-> delta.user, updates |-> delta.updates]
<1>1. data' = data
  BY DEF clientVars
<1>2. CASE ~ChannelExists
  BY <1>1, <1>2 DEF OnDeltaEvent, Log!vars
<1>3. CASE ChannelExists
  <2>1. /\ mHistory' = [mHistory EXCEPT ![l] = Append(@, delta)]
        /\ mHistory \in [Layers -> Seq(ServerDelta)]
    BY <1>3 DEF OnDeltaEvent, TypeInv, TypeOK, ServerTypeOK
  <2>2. Head(toServer[s][l]) \in ClientEvent /\ Head(toServer[s][l]).type = "Delta"
    BY DEF OnDeltaEvent, TakeFromClient, TypeInv, TypeOK, WireTypeOK
  <2>3. entry \in [user : Clients, updates : Table]
    BY <2>2, LiveWireAssumption DEF ClientEvent
  <2> HIDE DEF delta
  <2>4. Entries(mHistory'[l]) = Append(Entries(mHistory[l]), entry)
    BY <2>1, EntriesAppended
  <2>5. \A k \in Layers \ {l} : mHistory'[k] = mHistory[k]
    BY <2>1
  <2>6. Entries(mHistory[l]) \in Seq({Entries(mHistory[l])[n] : n \in DOMAIN mHistory[l]})
        /\ DOMAIN Entries(mHistory[l]) = 1..Len(Entries(mHistory[l]))
    BY <2>1 DEF Entries
  <2> HIDE DEF entry
  <2>7. /\ Len(TheLog[l]) + 1 \in DOMAIN TheLog'[l]
        /\ TheLog'[l][Len(TheLog[l]) + 1] = entry
        /\ TheLog'[l] = Append(TheLog[l], entry)
    BY <2>4, <2>6 DEF TheLog
  <2>8. TheLog' = [TheLog EXCEPT ![l] = Append(@, entry)]
    BY <2>4, <2>5 DEF TheLog
  <2>9. Log!Submit(l)
    <3>1. \E n \in DOMAIN TheLog'[l] :
              /\ n = Len(TheLog[l]) + 1
              /\ TheLog'[l][n] \in [user : Clients, updates : Table]
              /\ TheLog' = [TheLog EXCEPT ![l] = Append(@, TheLog'[l][n])]
      BY <2>3, <2>7, <2>8
    <3>2. TheGiven' = TheGiven
      BY <1>1 DEF TheGiven
    <3>3. QED
      BY <3>1, <3>2, Zenon DEF Log!Submit, TheLog, Entries, TheGiven, Tables
  <2>10. QED
    BY <2>9
<1>4. QED
  BY <1>2, <1>3

\* An update that is applied is the next entry of the log, as the client is told it.
LEMMA ApplyGives ==
    ASSUME TypeInv, Delivery, Telling, NEW c \in Clients, NEW l \in Layers,
           HostApplies(c, l)
    PROVE  Log!Give(c, l)
<1> DEFINE d == data[c][l]
<1>1. /\ mHistory' = mHistory
      /\ data' = [data EXCEPT ![c][l] = ApplyNextUpdate(d)]
      /\ HasNextUpdate(d)
      /\ data \in [Clients -> [Layers -> LayerState]]
      /\ mHistory \in [Layers -> Seq(ServerDelta)]
  BY DEF HostApplies, ApplyRemoteUpdate, serverVars, TypeInv, TypeOK, ClientTypeOK,
         ServerTypeOK, LoopInv
<1>2. PICK u \in d.mRemoteDeltasQueue :
          IsNextUpdate(d, u) /\ ApplyNextUpdate(d).applied = Append(d.applied, u)
  BY <1>1, ApplyTold DEF Telling, ClientTold
<1>3. Told(c, mHistory[l], u) /\ d.applied \in Seq(Update)
  BY <1>1 DEF Telling, ClientTold, LayerTold, LayerState
<1>4. u.sequence = Len(d.applied) + 1
  BY <1>2 DEF IsNextUpdate, Delivery, DataGenuine, LayerGenuine
<1>5. /\ Len(d.applied) + 1 \in DOMAIN mHistory[l]
      /\ u.updates = Log!AsSeenBy(c, TheLog[l][Len(d.applied) + 1])
  BY <1>3, <1>4 DEF Told, Log!AsSeenBy, TheLog, Entries
<1>6. Tables(data'[c][l].applied) = Append(Tables(d.applied), u.updates)
  <2>1. data'[c][l].applied = Append(d.applied, u)
    BY <1>1, <1>2
  <2>2. QED
    BY <1>3, <2>1, TablesAppended
<1>7. Len(TheGiven[c][l]) = Len(d.applied) /\ Len(TheLog[l]) = Len(mHistory[l])
  <2>1. Len(Tables(d.applied)) = Len(d.applied)
    BY <1>3 DEF Tables
  <2>2. Len(Entries(mHistory[l])) = Len(mHistory[l])
    BY <1>1 DEF Entries
  <2>3. QED
    BY <2>1, <2>2 DEF TheGiven, TheLog
<1>8. Len(TheGiven[c][l]) < Len(TheLog[l])
  BY <1>1, <1>3, <1>5, <1>7
<1>9. TheGiven' = [TheGiven EXCEPT ![c][l] =
                      Append(@, Log!AsSeenBy(c, TheLog[l][Len(@) + 1]))]
  <2>1. \A e \in Clients, k \in Layers :
            ~(e = c /\ k = l) => data'[e][k].applied = data[e][k].applied
    <3> DEFINE after == ApplyNextUpdate(d)
    <3>1. data' = [data EXCEPT ![c][l] = after] /\ data \in [Clients -> [Layers -> LayerState]]
      BY <1>1
    <3> HIDE DEF after, d
    <3>2. \A e \in Clients, k \in Layers : ~(e = c /\ k = l) => data'[e][k] = data[e][k]
      BY <3>1
    <3>3. QED
      BY <3>2
  <2> DEFINE next == Append(TheGiven[c][l],
                            Log!AsSeenBy(c, TheLog[l][Len(TheGiven[c][l]) + 1]))
  <2>2. Tables(data'[c][l].applied) = next
    BY <1>5, <1>6, <1>7 DEF TheGiven
  <2> HIDE DEF next
  <2> DEFINE row(e, k) == IF e = c /\ k = l THEN next ELSE TheGiven[e][k]
  <2>3. TheGiven' = [e \in Clients |-> [k \in Layers |-> row(e, k)]]
    <3>1. \A e \in Clients, k \in Layers :
              Tables(data'[e][k].applied) =
                  IF e = c /\ k = l THEN next ELSE Tables(data[e][k].applied)
      BY <2>1, <2>2, Zenon
    <3>2. \A e \in Clients, k \in Layers : Tables(data'[e][k].applied) = row(e, k)
      BY <3>1 DEF TheGiven
    <3>3. TheGiven' = [e \in Clients |-> [k \in Layers |-> Tables(data'[e][k].applied)]]
      BY DEF TheGiven, Tables
    <3> HIDE DEF row
    <3>4. QED
      BY <3>2, <3>3, Zenon
  <2>4. [TheGiven EXCEPT ![c][l] = next] = [e \in Clients |-> [k \in Layers |-> row(e, k)]]
    <3> DEFINE given(e, k) == Tables(data[e][k].applied)
    <3>1. TheGiven = [e \in Clients |-> [k \in Layers |-> given(e, k)]]
      BY DEF TheGiven
    <3> HIDE DEF given
    <3>2. QED
      BY <3>1
  <2>5. QED
    BY <2>3, <2>4, Zenon DEF next
<1>10. TheLog' = TheLog
  BY <1>1 DEF TheLog
<1>11. QED
  BY <1>8, <1>9, <1>10 DEF Log!Give, TheGiven, TheLog, Tables, Entries

\* What neither numbers nor applies an update.
LEMMA LogStutters ==
    ASSUME mHistory' = mHistory,
           \A c \in Clients, l \in Layers : data'[c][l].applied = data[c][l].applied
    PROVE  UNCHANGED Log!vars
BY DEF Log!vars

LEMMA LogStep ==
    ASSUME NobodyReloadsOrLeaves, TypeInv, Delivery, Connections, Telling, [Next]_vars
    PROVE  [Log!Next]_(Log!vars)
<1>1. ASSUME NEW c \in Clients, NEW s \in Sessions, Join(c, s)
      PROVE  UNCHANGED Log!vars
  BY <1>1, LogStutters DEF Join, OnConnected, ClientOnConnected
<1>2. ASSUME NEW c \in Clients, Leave(c) PROVE FALSE
  BY <1>2 DEF Leave, NobodyReloadsOrLeaves
<1>3. ASSUME NEW c \in Clients, HostTicks(c)
      PROVE  UNCHANGED Log!vars
  <2>1. /\ mHistory' = mHistory
        /\ data' = [data EXCEPT ![c] = [l \in Layers |-> Accumulated(c, l)]]
    BY <1>3 DEF HostTicks, Tick, serverVars
  <2>2. \A d \in Clients, l \in Layers : data'[d][l].applied = data[d][l].applied
    BY <2>1, TickTold DEF TypeInv, TypeOK, ClientTypeOK
  <2>3. QED
    BY <2>1, <2>2, LogStutters
<1>4. ASSUME NEW s \in Sessions, ServerNotices(s) PROVE FALSE
  BY <1>4 DEF ServerNotices, NobodyReloadsOrLeaves
<1>5. ASSUME NEW s \in Sessions, NEW l \in Layers, ServerReceives(s, l)
      PROVE  Log!Submit(l) \/ UNCHANGED Log!vars
  BY <1>5, NothingToReload, DeltaSubmits DEF ServerReceives
<1>6. ASSUME NEW c \in Clients, NEW l \in Layers, ClientReceives(c, l)
      PROVE  UNCHANGED Log!vars
  BY <1>6, LogStutters DEF ClientReceives, OnMessage, serverVars
<1>7. ASSUME NEW c \in Clients, NEW l \in Layers, HostEdits(c, l)
      PROVE  UNCHANGED Log!vars
  BY <1>7, EditOf, EditKeepsStreams, LogStutters DEF serverVars
<1>8. ASSUME NEW c \in Clients, NEW l \in Layers, HostApplies(c, l)
      PROVE  Log!Give(c, l)
  BY <1>8, ApplyGives
<1>9. ASSUME NEW c \in Clients, NEW l \in Layers, HostOpens(c, l)
      PROVE  UNCHANGED Log!vars
  BY <1>9, OpensUnchanged, LogStutters DEF HostOpens, serverVars
<1>10. ASSUME NEW c \in Clients, NEW l \in Layers, HostReloads(c, l) PROVE FALSE
  BY <1>10 DEF HostReloads, NobodyReloadsOrLeaves
<1>11. CASE UNCHANGED vars
  BY <1>11, LogStutters DEF vars, serverVars, clientVars
<1>12. QED
  BY <1>1, <1>2, <1>3, <1>4, <1>5, <1>6, <1>7, <1>8, <1>9, <1>10, <1>11
  DEF Next, Log!Next

LEMMA LogInit == Init => Log!Init
<1>1. Init => /\ mHistory = Silent
              /\ data = [c \in Clients |-> [l \in Layers |-> OnLoaded(File[l])]]
  BY DEF Init, ServerInit, ClientInit
<1>2. QED
  BY <1>1 DEF Log!Init, Silent, OnLoaded

\* A session nobody leaves or reloads a layer in implements the shared log: Channel and
\* Logic keep one log per layer, and ProcessRemoteUpdates gives each client that log from
\* its beginning, in order and without gaps, of its own edits only the acknowledgements;
\* whenever the client joined, and whatever ticks, edits and events lie between.  (With a
\* reload the server forgets the log, and with a return the author is sent its own edits
\* in full.)
THEOREM SharedLogImplemented ==
    ASSUME NobodyReloadsOrLeaves
    PROVE  Spec => ImplementsSharedLog
<1>1. Spec => []TypeInv
  BY TypeInit, TypeStep, PTL DEF Spec
<1>2. Init => Telling /\ Log!Init
  BY TellingInit, LogInit
<1>3. TypeInv /\ Delivery /\ Connections /\ Telling /\ [Next]_vars => Telling'
  BY TellingStep
<1>4. TypeInv /\ Delivery /\ Connections /\ Telling /\ [Next]_vars
      => [Log!Next]_(Log!vars)
  BY LogStep
<1>5. QED
  BY <1>1, <1>2, <1>3, <1>4, DeliveryCorrect, StreamsCorrect, PTL
  DEF Spec, ImplementsSharedLog, Log!Spec

-----------------------------------------------------------------------------
(***************************************************************************)
(* Data consistency: why the connected clients see the same contents when  *)
(* all is quiet.                                                           *)
(*                                                                         *)
(* A path is looked at alone.  The history is a chain of contents, f[n]    *)
(* being what is seen of the path after the first n updates; what a client *)
(* sees of it is a link of that chain and, on top, its own edits that the  *)
(* server has not numbered.                                                *)
(***************************************************************************)

(***************************************************************************)
(* Contents of one path.  Recorded fields are what a host has set since    *)
(* the last tick, one value for each.                                      *)
(***************************************************************************)
Specs == SpecData \cup {None}

Recorded(p, fields) ==
    fields # None =>
        /\ fields \in Seq(Field) /\ fields # <<>>
        /\ \A i \in DOMAIN fields : fields[i].key \in FieldsOf[p]
        /\ \A i, j \in DOMAIN fields : fields[i].key = fields[j].key => i = j

\* What others see of the path when they have applied the fields.
After(spec, p, fields) ==
    IF fields = None THEN spec ELSE Visible(ApplyDelta(spec, p, fields, FALSE))

\* The fields put into a spec, whatever they do to its being visible.
Put(spec, fields) ==
    [k \in Keys |->
        IF \E i \in DOMAIN fields : fields[i].key = k
        THEN fields[CHOOSE i \in DOMAIN fields : fields[i].key = k].value
        ELSE spec[k]]

LEMMA NoneNoSpec == None \notin SpecData
BY LayerDataAssumption DEF SpecData, Value

LEMMA NoneNoFields == None # <<>>
<1>1. None \notin Seq(Field)
  BY LayerDataAssumption DEF Field, Value
<1>2. <<>> \in Seq(Field)
  OBVIOUS
<1>3. QED
  BY <1>1, <1>2

LEMMA VisibleSpec ==
    ASSUME NEW spec \in Specs
    PROVE  /\ Visible(spec) \in Specs
           /\ Visible(Visible(spec)) = Visible(spec)
           /\ Visible(spec) # None => Visible(spec) = spec /\ spec \in SpecData
BY DEF Visible, Specs

LEMMA RecordedOnes ==
    ASSUME NEW p, NEW fields, Recorded(p, fields), fields # None
    PROVE  /\ fields \in Seq(Field) /\ fields # <<>> /\ DOMAIN fields = 1..Len(fields)
           /\ \A i \in DOMAIN fields : fields[i].key \in Keys /\ fields[i].value \in Value
           /\ \A i, j \in DOMAIN fields : fields[i].key = fields[j].key => i = j
           /\ Len(fields) \in DOMAIN fields
<1>1. fields \in Seq(Field) /\ fields # <<>>
  BY DEF Recorded
<1>2. \A i \in DOMAIN fields : fields[i] \in Field
  BY <1>1
<1>3. \A i \in DOMAIN fields : fields[i].key \in Keys /\ fields[i].value \in Value
  BY <1>2 DEF Field
<1>4. DOMAIN fields = 1..Len(fields) /\ Len(fields) \in DOMAIN fields
  BY <1>1
<1>5. QED
  BY <1>1, <1>3, <1>4 DEF Recorded

LEMMA PutSpec ==
    ASSUME NEW p, NEW spec \in SpecData, NEW fields, Recorded(p, fields), fields # None
    PROVE  Put(spec, fields) \in SpecData
<1>1. \A i \in DOMAIN fields : fields[i].value \in Value
  BY RecordedOnes
<1>2. \A k \in Keys : spec[k] \in Value
  BY DEF SpecData
<1>3. ASSUME NEW k \in Keys
      PROVE  (IF \E i \in DOMAIN fields : fields[i].key = k
              THEN fields[CHOOSE i \in DOMAIN fields : fields[i].key = k].value
              ELSE spec[k]) \in Value
  BY <1>1, <1>2
<1>4. QED
  BY <1>3 DEF Put, SpecData

\* Whether a spec is erased by a field in the middle, by the last one or not at all,
\* others see what the fields put into it.
LEMMA AfterPuts ==
    ASSUME NEW p, NEW spec \in SpecData, NEW fields, Recorded(p, fields), fields # None
    PROVE  After(spec, p, fields) = Visible(Put(spec, fields))
<1> DEFINE erasing == {i \in DOMAIN fields :
                          fields[i].key = TypeName /\ fields[i].value = EmptyToken}
           created == IF erasing # {} THEN [k \in Keys |-> {}] ELSE spec
           remaining == {i \in DOMAIN fields : \A e \in erasing : i > e}
           applied == [k \in Keys |->
                          IF \E i \in remaining : fields[i].key = k
                          THEN fields[CHOOSE i \in remaining : fields[i].key = k].value
                          ELSE created[k]]
<1>1. /\ fields \in Seq(Field) /\ fields # <<>> /\ DOMAIN fields = 1..Len(fields)
      /\ \A i \in DOMAIN fields : fields[i].key \in Keys
      /\ \A i, j \in DOMAIN fields : fields[i].key = fields[j].key => i = j
      /\ Len(fields) \in DOMAIN fields
  BY RecordedOnes
<1>2. ApplyDelta(spec, p, fields, FALSE) =
          IF Len(fields) \in erasing THEN None ELSE applied
  <2> DEFINE effective == {i \in DOMAIN fields : IsApplied(p, fields[i], FALSE)}
             erases == {i \in effective :
                           fields[i].key = TypeName /\ fields[i].value = EmptyToken}
             start == IF spec = None \/ erases # {} THEN [k \in Keys |-> {}] ELSE spec
             rest == {i \in effective : \A e \in erases : i > e}
             result(ends, old, positions) ==
                IF Len(fields) \in ends THEN None
                ELSE [k \in Keys |->
                         IF \E i \in positions : fields[i].key = k
                         THEN RemoteValue(
                                 fields[CHOOSE i \in positions : fields[i].key = k],
                                 old[k], FALSE)
                         ELSE old[k]]
  <2>1. ApplyDelta(spec, p, fields, FALSE) = result(erases, start, rest)
    BY Zenon DEF ApplyDelta
  <2>2. effective = DOMAIN fields
    BY DEF IsApplied
  <2>3. result(erasing, created, remaining) = IF Len(fields) \in erasing THEN None ELSE applied
    <3> HIDE DEF erasing, created, remaining
    <3>1. \A field, old : RemoteValue(field, old, FALSE) = field.value
      BY DEF RemoteValue
    <3>2. QED
      BY <3>1
  <2>4. spec # None
    BY NoneNoSpec
  <2> HIDE DEF effective
  <2>5. erases = erasing /\ start = created /\ rest = remaining
    BY <2>2, <2>4
  <2> HIDE DEF erases, start, rest, erasing, created, remaining, result, applied
  <2>6. QED
    BY <2>1, <2>3, <2>5
<1>3. CASE erasing = {}
  <2>1. remaining = DOMAIN fields /\ created = spec
    BY <1>3
  <2>2. applied = Put(spec, fields)
    BY <2>1 DEF Put
  <2>3. QED
    BY <1>2, <1>3, <2>2, NoneNoSpec DEF After
<1>4. CASE erasing # {}
  <2>1. PICK e \in DOMAIN fields : fields[e].key = TypeName /\ fields[e].value = EmptyToken
    BY <1>4
  <2>2. TypeName \in Keys
    BY <1>1, <2>1
  <2>3. \A i \in remaining : fields[i].key # TypeName
    BY <1>1, <2>1
  <2>4. Len(fields) \notin erasing => applied[TypeName] = EmptyToken
    BY <1>4, <2>2, <2>3 DEF EmptyToken
  <2>5. Visible(ApplyDelta(spec, p, fields, FALSE)) = None
    BY <1>2, <2>2, <2>4 DEF Visible
  <2>6. Put(spec, fields)[TypeName] = EmptyToken
    <3>1. \A i \in DOMAIN fields : fields[i].key = TypeName => fields[i].value = EmptyToken
      BY <1>1, <2>1
    <3>2. QED
      BY <2>1, <2>2, <3>1 DEF Put
  <2>7. Visible(Put(spec, fields)) = None
    BY <2>2, <2>6 DEF Visible
  <2>8. QED
    BY <2>5, <2>7 DEF After
<1>5. QED
  BY <1>3, <1>4

LEMMA AfterSpec ==
    ASSUME NEW p, NEW spec \in Specs, NEW fields, Recorded(p, fields),
           fields # None => spec # None
    PROVE  After(spec, p, fields) \in Specs
<1>1. CASE fields = None
  BY <1>1 DEF After
<1>2. CASE fields # None
  <2>1. spec \in SpecData
    BY <1>2 DEF Specs
  <2>2. Put(spec, fields) \in Specs
    BY <1>2, <2>1, PutSpec DEF Specs
  <2>3. QED
    BY <1>2, <2>1, <2>2, AfterPuts, VisibleSpec
<1>3. QED
  BY <1>1, <1>2

LEMMA PutAt ==
    ASSUME NEW p, NEW spec, NEW fields, Recorded(p, fields), fields # None, NEW k \in Keys
    PROVE  /\ \A i \in DOMAIN fields :
                  fields[i].key = k => Put(spec, fields)[k] = fields[i].value
           /\ (\A i \in DOMAIN fields : fields[i].key # k) => Put(spec, fields)[k] = spec[k]
<1>1. \A i, j \in DOMAIN fields : fields[i].key = fields[j].key => i = j
  BY RecordedOnes
<1>2. QED
  BY <1>1 DEF Put

(***************************************************************************)
(* An edit: what the host writes into its own copy is what it records for  *)
(* the others.                                                             *)
(***************************************************************************)
LEMMA EditRecorded ==
    ASSUME NEW p \in Paths, NEW table, NEW k \in FieldsOf[p], NEW v \in Value, k \in Keys,
           NEW before, before = table[p], Recorded(p, before),
           NEW after, after = RecordedFields(table, p, k, v)
    PROVE  /\ Recorded(p, after) /\ after # None
           /\ \A i \in DOMAIN after : after[i].key = k => after[i].value = v
           /\ \E i \in DOMAIN after : after[i].key = k
           /\ before = None => \A i \in DOMAIN after : after[i].key = k
           /\ before # None => \A i \in DOMAIN before :
                 before[i].key # k => i \in DOMAIN after /\ after[i] = before[i]
           /\ before # None => \A i \in DOMAIN after :
                 after[i].key # k => i \in DOMAIN before /\ after[i] = before[i]
<1> DEFINE fields == IF before = None THEN <<>> ELSE before
           edit == [key |-> k, value |-> v]
<1>1. /\ fields \in Seq(Field)
      /\ \A i \in DOMAIN fields : fields[i].key \in FieldsOf[p]
      /\ \A i, j \in DOMAIN fields : fields[i].key = fields[j].key => i = j
  BY DEF Recorded
<1>2. edit \in Field /\ edit.key = k /\ edit.value = v
  BY DEF Field
<1>3. None \notin Seq(Field)
  BY LayerDataAssumption DEF Field, Value
<1>4. IsNewField(table, p, k) <=> \A i \in DOMAIN fields : fields[i].key # k
  BY DEF IsNewField
<1>5. CASE IsNewField(table, p, k)
  <2>1. after = Append(fields, edit)
    BY <1>5 DEF RecordedFields
  <2> HIDE DEF fields, edit
  <2>2. /\ after \in Seq(Field) /\ after # <<>>
        /\ DOMAIN after = 1..(Len(fields) + 1) /\ DOMAIN fields = 1..Len(fields)
        /\ Len(fields) \in Nat
        /\ \A i \in DOMAIN fields : after[i] = fields[i]
        /\ after[Len(fields) + 1] = edit
    BY <1>1, <1>2, <2>1
  <2>3. \A i \in DOMAIN after : i \in DOMAIN fields \/ i = Len(fields) + 1
    BY <2>2
  <2>4. \A i \in DOMAIN fields : i \in DOMAIN after /\ after[i].key # k
    BY <1>4, <1>5, <2>2
  <2>5. /\ \A i \in DOMAIN after : after[i].key \in FieldsOf[p]
        /\ \A i, j \in DOMAIN after : after[i].key = after[j].key => i = j
    BY <1>1, <1>2, <2>2, <2>3, <2>4
  <2>6. Recorded(p, after) /\ after # None
    BY <1>3, <2>2, <2>5 DEF Recorded
  <2>7. Len(fields) + 1 \in DOMAIN after
    BY <2>2
  <2>8. QED
    BY <1>2, <2>2, <2>3, <2>4, <2>6, <2>7 DEF fields
<1>6. CASE ~IsNewField(table, p, k)
  <2>1. after = [i \in DOMAIN fields |-> IF fields[i].key = k THEN edit ELSE fields[i]]
    BY <1>6 DEF RecordedFields
  <2>2. PICK e \in DOMAIN fields : fields[e].key = k
    BY <1>4, <1>6
  <2>3. before # None /\ fields = before
    BY <2>2
  <2> HIDE DEF fields, edit
  <2>4. /\ after \in Seq(Field) /\ after # <<>>
        /\ DOMAIN after = DOMAIN fields
        /\ \A i \in DOMAIN after :
              after[i] = IF fields[i].key = k THEN edit ELSE fields[i]
    BY <1>1, <1>2, <2>1, <2>2
  <2>5. \A i \in DOMAIN after : after[i].key = fields[i].key
    BY <1>2, <2>4
  <2>6. Recorded(p, after) /\ after # None
    BY <1>1, <1>3, <2>4, <2>5 DEF Recorded
  <2>7. QED
    BY <1>2, <2>2, <2>3, <2>4, <2>5, <2>6
<1>7. QED
  BY <1>5, <1>6

LEMMA EditPuts ==
    ASSUME NEW p \in Paths, NEW table, NEW k \in FieldsOf[p], NEW v \in Value, k \in Keys,
           Recorded(p, table[p]), NEW spec \in SpecData
    PROVE  LET before == IF table[p] = None THEN spec ELSE Put(spec, table[p])
           IN  Put(spec, RecordedFields(table, p, k, v)) = [before EXCEPT ![k] = v]
<1> DEFINE fields == table[p]
           before == IF fields = None THEN spec ELSE Put(spec, fields)
           after == RecordedFields(table, p, k, v)
<1>1. /\ Recorded(p, after) /\ after # None
      /\ \A i \in DOMAIN after : after[i].key = k => after[i].value = v
      /\ \E i \in DOMAIN after : after[i].key = k
      /\ fields = None => \A i \in DOMAIN after : after[i].key = k
      /\ fields # None => \A i \in DOMAIN fields :
            fields[i].key # k => i \in DOMAIN after /\ after[i] = fields[i]
      /\ fields # None => \A i \in DOMAIN after :
            after[i].key # k => i \in DOMAIN fields /\ after[i] = fields[i]
  BY EditRecorded
<1>2. before \in SpecData /\ Put(spec, after) \in SpecData
  BY <1>1, PutSpec
<1> HIDE DEF after
<1>3. Put(spec, after)[k] = v
  BY <1>1, PutAt
<1>4. ASSUME NEW j \in Keys, j # k PROVE Put(spec, after)[j] = before[j]
  <2>1. CASE fields = None
    BY <1>1, <1>4, <2>1, PutAt
  <2>2. CASE fields # None
    <3>1. before = Put(spec, fields)
      BY <2>2
    <3>2. CASE \E i \in DOMAIN fields : fields[i].key = j
      <4>1. PICK i \in DOMAIN fields : fields[i].key = j
        BY <3>2
      <4>2. i \in DOMAIN after /\ after[i] = fields[i]
        BY <1>1, <1>4, <2>2, <4>1
      <4>3. Put(spec, fields)[j] = fields[i].value
        BY <2>2, <4>1, PutAt
      <4>4. Put(spec, after)[j] = after[i].value
        BY <1>1, <4>1, <4>2, PutAt
      <4>5. QED
        BY <3>1, <4>2, <4>3, <4>4
    <3>3. CASE \A i \in DOMAIN fields : fields[i].key # j
      <4>1. \A i \in DOMAIN after : after[i].key # j
        BY <1>1, <1>4, <2>2, <3>3
      <4>2. Put(spec, fields)[j] = spec[j]
        BY <2>2, <3>3, PutAt
      <4>3. Put(spec, after)[j] = spec[j]
        BY <1>1, <4>1, PutAt
      <4>4. QED
        BY <3>1, <4>2, <4>3
    <3>4. QED
      BY <3>2, <3>3
  <2>3. QED
    BY <2>1, <2>2
<1> HIDE DEF before
<1>5. Put(spec, after) = [before EXCEPT ![k] = v]
  BY <1>2, <1>3, <1>4 DEF SpecData
<1>6. QED
  BY <1>5 DEF before, after

\* The host sees what the others will see when they have applied its edits.
LEMMA EditSeen ==
    ASSUME NEW p \in Paths, NEW table, NEW k \in FieldsOf[p], NEW v \in Value, k \in Keys,
           Recorded(p, table[p]), NEW spec \in SpecData, NEW own \in Specs,
           Visible(own) # None, Visible(own) = After(spec, p, table[p])
    PROVE  Visible([own EXCEPT ![k] = v]) = After(spec, p, RecordedFields(table, p, k, v))
<1> DEFINE before == IF table[p] = None THEN spec ELSE Put(spec, table[p])
           after == RecordedFields(table, p, k, v)
<1>1. own \in SpecData /\ Visible(own) = own
  BY VisibleSpec
<1>2. own = before
  <2>1. CASE table[p] = None
    BY <1>1, <2>1 DEF After
  <2>2. CASE table[p] # None
    <3>1. own = Visible(Put(spec, table[p])) /\ Put(spec, table[p]) \in Specs
      BY <1>1, <2>2, AfterPuts, PutSpec DEF Specs
    <3>2. QED
      BY <1>1, <2>2, <3>1, VisibleSpec, NoneNoSpec
  <2>3. QED
    BY <2>1, <2>2
<1>3. Put(spec, after) = [own EXCEPT ![k] = v]
  BY <1>2, EditPuts
<1>4. Recorded(p, after) /\ after # None
  <2> DEFINE fields == table[p]
  <2>1. Recorded(p, fields) /\ fields = table[p] /\ after = RecordedFields(table, p, k, v)
    OBVIOUS
  <2> HIDE DEF fields, after, before
  <2>2. QED
    BY <2>1, EditRecorded
<1>5. After(spec, p, after) = Visible([own EXCEPT ![k] = v])
  <2> HIDE DEF after
  <2>1. After(spec, p, after) = Visible(Put(spec, after))
    BY <1>4, AfterPuts
  <2>2. QED
    BY <1>3, <2>1
<1>6. QED
  BY <1>5

(***************************************************************************)
(* A path with one field that is neither a list of children nor a type     *)
(* name, and that is not a transform.                                      *)
(***************************************************************************)
OneField(p) ==
    /\ p \notin XformOps
    /\ FieldsOf[p] \subseteq Keys \ {PrimChildren, TypeName}
    /\ \A j, k \in FieldsOf[p] : j = k

AlikeBut(keys, spec, other) ==
    /\ spec = None <=> other = None
    /\ spec # None => \A k \in Keys \ keys : spec[k] = other[k]

LEMMA AlikeAfter ==
    ASSUME NEW p, OneField(p), NEW spec \in Specs, NEW other \in Specs,
           Visible(spec) = spec, Visible(other) = other, spec # None,
           AlikeBut(FieldsOf[p], spec, other),
           NEW fields, Recorded(p, fields), fields # None
    PROVE  /\ After(spec, p, fields) = After(other, p, fields)
           /\ After(spec, p, fields) \in Specs
           /\ AlikeBut(FieldsOf[p], After(spec, p, fields), other)
<1>1. spec \in SpecData /\ other \in SpecData /\ other # None
  BY DEF AlikeBut, Specs
<1> DEFINE puts == Put(spec, fields)
<1>2. puts \in SpecData /\ Put(other, fields) \in SpecData
  BY <1>1, PutSpec
<1>3. /\ After(spec, p, fields) = Visible(puts)
      /\ After(other, p, fields) = Visible(Put(other, fields))
  BY <1>1, AfterPuts
<1>4. \A k \in Keys \ FieldsOf[p] : puts[k] = spec[k] /\ Put(other, fields)[k] = other[k]
  <2>1. \A i \in DOMAIN fields : fields[i].key \in FieldsOf[p]
    BY DEF Recorded
  <2>2. QED
    BY <2>1, PutAt
<1>5. \A k \in FieldsOf[p] : puts[k] = Put(other, fields)[k]
  <2>1. 1 \in DOMAIN fields /\ fields[1].key \in FieldsOf[p]
    BY RecordedOnes DEF Recorded
  <2>2. QED
    BY <2>1, PutAt DEF OneField
<1>6. puts = Put(other, fields)
  <2>1. \A k \in Keys : puts[k] = Put(other, fields)[k]
    BY <1>1, <1>4, <1>5 DEF AlikeBut
  <2> HIDE DEF puts
  <2>2. QED
    BY <1>2, <2>1 DEF SpecData
<1>7. Visible(puts) = puts
  <2> HIDE DEF puts
  <2>1. TypeName \in Keys => puts[TypeName] = spec[TypeName]
    BY <1>4 DEF OneField
  <2>2. QED
    BY <1>1, <2>1, NoneNoSpec DEF Visible
<1> HIDE DEF puts
<1>8. puts \in Specs /\ AlikeBut(FieldsOf[p], puts, other)
  BY <1>1, <1>2, <1>4, NoneNoSpec DEF AlikeBut, Specs
<1>9. QED
  BY <1>3, <1>6, <1>7, <1>8

\* What a mask hides of such a path is all of it.
LEMMA MaskedUnchanged ==
    ASSUME NEW p, OneField(p), NEW spec \in SpecData,
           NEW fields, Recorded(p, fields), fields # None
    PROVE  ApplyDelta(spec, p, fields, TRUE) = spec
<1>1. \A i \in DOMAIN fields : ~IsApplied(p, fields[i], TRUE)
  BY DEF Recorded, OneField, IsApplied
<1> DEFINE effective == {i \in DOMAIN fields : IsApplied(p, fields[i], TRUE)}
           erases == {i \in effective :
                         fields[i].key = TypeName /\ fields[i].value = EmptyToken}
           start == IF spec = None \/ erases # {} THEN [k \in Keys |-> {}] ELSE spec
           rest == {i \in effective : \A e \in erases : i > e}
           result(ends, old, positions) ==
              IF Len(fields) \in ends THEN None
              ELSE [k \in Keys |->
                       IF \E i \in positions : fields[i].key = k
                       THEN RemoteValue(
                               fields[CHOOSE i \in positions : fields[i].key = k],
                               old[k], TRUE)
                       ELSE old[k]]
<1>2. ApplyDelta(spec, p, fields, TRUE) = result(erases, start, rest)
  BY Zenon DEF ApplyDelta
<1>3. effective = {}
  BY <1>1
<1> HIDE DEF effective
<1>4. erases = {} /\ start = spec /\ rest = {}
  BY <1>3, NoneNoSpec
<1> HIDE DEF erases, start, rest
<1>5. result({}, spec, {}) = [k \in Keys |-> spec[k]]
  OBVIOUS
<1> HIDE DEF result
<1>6. [k \in Keys |-> spec[k]] = spec
  BY DEF SpecData
<1>7. QED
  BY <1>2, <1>4, <1>5, <1>6

(***************************************************************************)
(* The history of a path, and what waits to be numbered: f[n] is what is   *)
(* seen of the path after the first n updates, and only what is seen is    *)
(* edited.                                                                 *)
(***************************************************************************)
Touches(update, p) == update.updates[p] # None
Outgoing(sent, p) == \E i \in DOMAIN sent : Touches(sent[i], p)

Chain(start, updates, p, f) ==
    /\ f[0] = start
    /\ \A n \in 0..Len(updates) : f[n] \in Specs /\ Visible(f[n]) = f[n]
    /\ \A n \in 1..Len(updates) :
          /\ Recorded(p, updates[n].updates[p])
          /\ Touches(updates[n], p) => f[n - 1] # None
          /\ f[n] = After(f[n - 1], p, updates[n].updates[p])
    /\ \A m, n \in 0..Len(updates) :
          m <= n /\ (\A i \in (m + 1)..n : ~Touches(updates[i], p)) => f[m] = f[n]

Links(updates) == [0..Len(updates) -> Specs]

LEMMA AfterVisible ==
    ASSUME NEW p, NEW spec \in Specs, Visible(spec) = spec, NEW fields,
           Recorded(p, fields), fields # None => spec # None
    PROVE  After(spec, p, fields) \in Specs
           /\ Visible(After(spec, p, fields)) = After(spec, p, fields)
<1>1. CASE fields = None
  BY <1>1 DEF After
<1>2. CASE fields # None
  <2>1. spec \in SpecData
    BY <1>2 DEF Specs
  <2>2. Put(spec, fields) \in Specs
    BY <1>2, <2>1, PutSpec DEF Specs
  <2>3. After(spec, p, fields) = Visible(Put(spec, fields))
    BY <1>2, <2>1, AfterPuts
  <2>4. QED
    BY <2>2, <2>3, VisibleSpec
<1>3. QED
  BY <1>1, <1>2

LEMMA ChainOfNothing ==
    ASSUME NEW p, NEW start \in Specs, Visible(start) = start, NEW U, NEW updates \in Seq(U),
           ~Outgoing(updates, p)
    PROVE  \E f \in Links(updates) :
               Chain(start, updates, p, f) /\ \A n \in 0..Len(updates) : f[n] = start
<1> DEFINE f == [n \in 0..Len(updates) |-> start]
<1>1. Len(updates) \in Nat /\ DOMAIN updates = 1..Len(updates)
  OBVIOUS
<1>2. \A n \in 0..Len(updates) : f[n] = start
  OBVIOUS
<1>3. f \in Links(updates)
  BY DEF Links
<1>4. \A n \in 1..Len(updates) : n - 1 \in 0..Len(updates) /\ n \in 0..Len(updates)
  BY <1>1
<1> HIDE DEF f
<1>5. \A n \in 1..Len(updates) :
          /\ updates[n].updates[p] = None
          /\ f[n] = start /\ f[n - 1] = start
  BY <1>1, <1>2, <1>4 DEF Touches, Outgoing
<1>6. 0 \in 0..Len(updates)
  BY <1>1
<1>7. \A n \in 1..Len(updates) :
          /\ Recorded(p, updates[n].updates[p])
          /\ ~Touches(updates[n], p)
          /\ f[n] = After(f[n - 1], p, updates[n].updates[p])
  BY <1>5 DEF Recorded, After, Touches
<1>8. Chain(start, updates, p, f)
  BY <1>2, <1>6, <1>7, Zenon DEF Chain
<1>9. QED
  BY <1>2, <1>3, <1>8

LEMMA ChainAppended ==
    ASSUME NEW p, NEW start, NEW U, NEW updates \in Seq(U), NEW f, Chain(start, updates, p, f),
           NEW entry, Recorded(p, entry.updates[p]),
           Touches(entry, p) => f[Len(updates)] # None
    PROVE  \E g \in Links(Append(updates, entry)) :
               /\ Chain(start, Append(updates, entry), p, g)
               /\ \A n \in 0..Len(updates) : g[n] = f[n]
               /\ g[Len(updates) + 1] = After(f[Len(updates)], p, entry.updates[p])
<1> DEFINE N == Len(updates)
           longer == Append(updates, entry)
           last == After(f[N], p, entry.updates[p])
           g == [n \in 0..(N + 1) |-> IF n = N + 1 THEN last ELSE f[n]]
<1>1. /\ N \in Nat /\ Len(longer) = N + 1
      /\ \A n \in 1..N : longer[n] = updates[n]
      /\ longer[N + 1] = entry
  BY Appending
<1> HIDE DEF N, longer
<1>2. \A n \in 0..N : f[n] \in Specs /\ Visible(f[n]) = f[n]
  BY DEF Chain, N
<1>3. last \in Specs /\ Visible(last) = last
  <2>1. f[N] \in Specs /\ Visible(f[N]) = f[N] /\ (entry.updates[p] # None => f[N] # None)
    BY <1>1, <1>2 DEF N, Touches
  <2>2. QED
    BY <2>1, AfterVisible
<1> HIDE DEF last
<1>4. /\ \A n \in 0..N : g[n] = f[n]
      /\ g[N + 1] = last
      /\ \A n \in 0..(N + 1) : n \in 0..N \/ n = N + 1
      /\ \A n \in 1..(N + 1) : n \in 1..N \/ n = N + 1
      /\ 0 \in 0..N /\ N \in 0..N
  BY <1>1
<1>5. g \in [0..(N + 1) -> Specs]
  BY <1>2, <1>3, <1>4
<1> HIDE DEF g
<1>6. \A n \in 0..(N + 1) : g[n] \in Specs /\ Visible(g[n]) = g[n]
  BY <1>2, <1>3, <1>4
<1>7. ASSUME NEW n \in 1..(N + 1)
      PROVE  /\ Recorded(p, longer[n].updates[p])
             /\ Touches(longer[n], p) => g[n - 1] # None
             /\ g[n] = After(g[n - 1], p, longer[n].updates[p])
  <2>1. CASE n \in 1..N
    <3>1. n - 1 \in 0..N /\ n \in 0..N
      BY <1>1, <2>1
    <3>2. QED
      BY <1>1, <1>4, <2>1, <3>1 DEF Chain, N
  <2>2. CASE n = N + 1
    <3>1. n - 1 = N /\ longer[n] = entry
      BY <1>1, <2>2
    <3>2. g[n - 1] = f[N] /\ g[n] = After(f[N], p, entry.updates[p])
      BY <1>4, <2>2, <3>1 DEF last
    <3>3. QED
      BY <3>1, <3>2 DEF N
  <2>3. QED
    BY <1>4, <2>1, <2>2
<1>8. ASSUME NEW m \in 0..(N + 1), NEW n \in 0..(N + 1), m <= n,
             \A i \in (m + 1)..n : ~Touches(longer[i], p)
      PROVE  g[m] = g[n]
  <2>1. CASE n \in 0..N
    <3>1. m \in 0..N /\ \A i \in (m + 1)..n : i \in 1..N
      BY <1>1, <1>8, <2>1
    <3>2. \A i \in (m + 1)..n : ~Touches(updates[i], p)
      BY <1>1, <1>8, <3>1
    <3>3. f[m] = f[n]
      BY <1>8, <2>1, <3>1, <3>2 DEF Chain, N
    <3>4. QED
      BY <1>4, <2>1, <3>1, <3>3
  <2>2. CASE n = N + 1 /\ m # N + 1
    <3>1. /\ m \in 0..N /\ m <= N /\ N + 1 \in (m + 1)..n
          /\ \A i \in (m + 1)..N : i \in (m + 1)..n /\ i \in 1..N
      BY <1>1, <2>2
    <3>2. \A i \in (m + 1)..N : ~Touches(updates[i], p)
      BY <1>1, <1>8, <3>1
    <3>3. f[m] = f[N]
      BY <1>4, <3>1, <3>2 DEF Chain, N
    <3>4. ~Touches(entry, p)
      BY <1>1, <1>8, <3>1
    <3>5. last = f[N]
      BY <3>4 DEF last, After, Touches
    <3>6. QED
      BY <1>4, <2>2, <3>1, <3>3, <3>5
  <2>3. QED
    BY <1>1, <1>4, <2>1, <2>2
<1>9. g[0] = start
  BY <1>4 DEF Chain
<1>10. Chain(start, longer, p, g)
  BY <1>1, <1>6, <1>7, <1>8, <1>9 DEF Chain
<1>11. QED
  BY <1>1, <1>4, <1>5, <1>10 DEF longer, N, last, Links

LEMMA ChainRest ==
    ASSUME NEW p, NEW start, NEW U, NEW updates \in Seq(U), updates # <<>>,
           NEW f, Chain(start, updates, p, f)
    PROVE  \E g \in Links(Tail(updates)) :
               /\ Chain(f[1], Tail(updates), p, g)
               /\ g[Len(Tail(updates))] = f[Len(updates)]
<1> DEFINE N == Len(updates)
           rest == Tail(updates)
           g == [n \in 0..(N - 1) |-> f[n + 1]]
<1>1. /\ N \in Nat /\ N >= 1 /\ Len(rest) = N - 1
      /\ \A n \in 1..(N - 1) : rest[n] = updates[n + 1]
  OBVIOUS
<1> HIDE DEF N, rest
<1>2. \A n \in 0..N : f[n] \in Specs /\ Visible(f[n]) = f[n]
  BY DEF Chain, N
<1>3. /\ \A n \in 0..(N - 1) : g[n] = f[n + 1] /\ n + 1 \in 0..N
      /\ \A n \in 1..(N - 1) : n - 1 \in 0..(N - 1) /\ n \in 0..(N - 1) /\ n + 1 \in 1..N
                               /\ g[n - 1] = f[n] /\ (n + 1) - 1 = n
      /\ 0 \in 0..(N - 1) /\ N - 1 \in 0..(N - 1)
  BY <1>1
<1>4. g \in [0..(N - 1) -> Specs]
  BY <1>2, <1>3
<1> HIDE DEF g
<1>5. \A n \in 1..N :
          /\ Recorded(p, updates[n].updates[p])
          /\ Touches(updates[n], p) => f[n - 1] # None
          /\ f[n] = After(f[n - 1], p, updates[n].updates[p])
  BY DEF Chain, N
<1>6. ASSUME NEW n \in 1..(N - 1)
      PROVE  /\ Recorded(p, rest[n].updates[p])
             /\ Touches(rest[n], p) => g[n - 1] # None
             /\ g[n] = After(g[n - 1], p, rest[n].updates[p])
  <2>1. rest[n] = updates[n + 1] /\ g[n - 1] = f[(n + 1) - 1] /\ g[n] = f[n + 1] /\ n + 1 \in 1..N
    BY <1>1, <1>3
  <2>2. QED
    BY <1>5, <2>1
<1>7. ASSUME NEW m \in 0..(N - 1), NEW n \in 0..(N - 1), m <= n,
             \A i \in (m + 1)..n : ~Touches(rest[i], p)
      PROVE  g[m] = g[n]
  <2>1. ASSUME NEW i \in ((m + 1) + 1)..(n + 1) PROVE ~Touches(updates[i], p)
    <3>1. i - 1 \in (m + 1)..n /\ i - 1 \in 1..(N - 1) /\ (i - 1) + 1 = i
      BY <1>1
    <3>2. rest[i - 1] = updates[i]
      BY <1>1, <3>1
    <3>3. QED
      BY <1>7, <3>1, <3>2
  <2>2. f[m + 1] = f[n + 1]
    <3>1. m + 1 \in 0..N /\ n + 1 \in 0..N /\ m + 1 <= n + 1
      BY <1>1, <1>7
    <3>2. QED
      BY <2>1, <3>1 DEF Chain, N
  <2>3. QED
    BY <1>3, <2>2
<1>8. Chain(f[1], rest, p, g)
  <2>1. \A n \in 0..(N - 1) : g[n] \in Specs /\ Visible(g[n]) = g[n]
    BY <1>2, <1>3
  <2>2. g[0] = f[1]
    BY <1>3
  <2>3. QED
    BY <1>1, <1>6, <1>7, <2>1, <2>2 DEF Chain
<1>9. g[N - 1] = f[N]
  BY <1>1, <1>3
<1>10. QED
  BY <1>1, <1>4, <1>8, <1>9 DEF rest, N, Links

(***************************************************************************)
(* What one client sees of a path: its own copy, its edits since the last  *)
(* tick, whether its edits hide those of others, and the number of the     *)
(* last update it has applied.  sent are its edits that wait to be         *)
(* numbered.                                                               *)
(***************************************************************************)
ViewOf(d, p) ==
    [seen |-> Visible(d.mData[p]),
     local |-> d.mLocalDeltas[p],
     masks |-> d.mUnacknowledgedFields \cap {p},
     last |-> d.mLatestAppliedSequence]

Ahead(v, sent, p) == v.local # None \/ Outgoing(sent, p)
Later(history, v) == (v.last + 1)..Len(history)
OwnEntry(c, history, n, p) == history[n].user = c /\ Touches(history[n], p)

Sound(history, v, sent, p) ==
    /\ v.last \in 0..Len(history)
    /\ v.seen \in Specs /\ Visible(v.seen) = v.seen
    /\ v.masks \subseteq {p}
    /\ Recorded(p, v.local)
    /\ \A i \in DOMAIN sent : Recorded(p, sent[i].updates[p])

(***************************************************************************)
(* A path that is edited under a lock.  The client that is ahead of the    *)
(* history is the only one, knows all of the history but what it wrote     *)
(* itself, and sees the history with its own edits on top; everyone else   *)
(* sees the history as far as it has come.                                 *)
(***************************************************************************)
LockHeld(c, history, v, sent, p) ==
    /\ Ahead(v, sent, p) => \A n \in Later(history, v) :
           Touches(history[n], p) => history[n].user = c
    /\ \A m, n \in Later(history, v) :
           m < n /\ OwnEntry(c, history, n, p) /\ Touches(history[m], p) => history[m].user = c
    /\ v.masks # {} =>
           Ahead(v, sent, p) \/ \E n \in Later(history, v) : OwnEntry(c, history, n, p)

\* The client may be at n as well: all it has not applied up to n is its own, and all its own.
CountsAs(c, history, v, p, n) ==
    /\ \A m \in (v.last + 1)..n : Touches(history[m], p) => history[m].user = c
    /\ \A m \in (n + 1)..Len(history) : ~OwnEntry(c, history, m, p)

SeesHistory(c, history, f, v, p) ==
    \A n \in v.last..Len(history) : CountsAs(c, history, v, p, n) => v.seen = f[n]

SeesOwn(start, v, sent, p, g) ==
    /\ Chain(start, sent, p, g)
    /\ v.local # None => g[Len(sent)] # None
    /\ v.seen = After(g[Len(sent)], p, v.local)

Locked(c, history, f, v, sent, p) ==
    /\ LockHeld(c, history, v, sent, p)
    /\ ~Ahead(v, sent, p) => SeesHistory(c, history, f, v, p)
    /\ Ahead(v, sent, p) => \E g \in Links(sent) : SeesOwn(f[Len(history)], v, sent, p, g)

\* A host edits: it has been at the end of the history, or ahead of it already.
LEMMA LockedEdit ==
    ASSUME NEW p, NEW c, NEW U, NEW history \in Seq(U), NEW f, NEW E, NEW sent \in Seq(E),
           NEW start, Chain(start, history, p, f),
           NEW v, Sound(history, v, sent, p), Locked(c, history, f, v, sent, p),
           v.seen # None,
           \A n \in Later(history, v) : Touches(history[n], p) => history[n].user = c,
           NEW w, w.local # None, w.last = v.last,
           \A spec \in SpecData : v.seen = After(spec, p, v.local)
                                  => w.seen = After(spec, p, w.local)
    PROVE  Locked(c, history, f, w, sent, p)
<1>1. Later(history, w) = Later(history, v)
  BY DEF Later
<1>2. Ahead(w, sent, p)
  BY DEF Ahead
<1>3. LockHeld(c, history, w, sent, p)
  BY <1>1, <1>2 DEF LockHeld, Locked
<1>4. Len(history) \in 0..Len(history) /\ Len(history) \in Nat /\ v.last \in 0..Len(history)
  BY DEF Sound
<1>5. f[Len(history)] \in Specs /\ Visible(f[Len(history)]) = f[Len(history)]
  BY <1>4 DEF Chain
<1>6. PICK g \in Links(sent) :
          /\ Chain(f[Len(history)], sent, p, g)
          /\ v.local # None => g[Len(sent)] # None
          /\ v.seen = After(g[Len(sent)], p, v.local)
  <2>1. CASE Ahead(v, sent, p)
    BY <2>1 DEF Locked, SeesOwn
  <2>2. CASE ~Ahead(v, sent, p)
    <3>1. /\ \A m \in (v.last + 1)..Len(history) : Touches(history[m], p) => history[m].user = c
          /\ Len(history) \in v.last..Len(history)
          /\ \A m \in (Len(history) + 1)..Len(history) : FALSE
      BY <1>4 DEF Later
    <3>2. v.seen = f[Len(history)]
      BY <2>2, <3>1 DEF Locked, SeesHistory, CountsAs
    <3>3. v.local = None /\ \A i \in DOMAIN sent : ~Touches(sent[i], p)
      BY <2>2 DEF Ahead, Outgoing
    <3>4. PICK g \in Links(sent) :
              /\ Chain(f[Len(history)], sent, p, g)
              /\ \A n \in 0..Len(sent) : g[n] = f[Len(history)]
      <4>1. ~Outgoing(sent, p)
        BY <2>2 DEF Ahead
      <4>2. QED
        BY <1>5, <4>1, ChainOfNothing
    <3>5. Len(sent) \in 0..Len(sent)
      OBVIOUS
    <3>6. QED
      BY <3>2, <3>3, <3>4, <3>5 DEF After
  <2>3. QED
    BY <2>1, <2>2
<1>7. g[Len(sent)] \in Specs
  <2>1. Len(sent) \in 0..Len(sent)
    OBVIOUS
  <2>2. QED
    BY <1>6, <2>1 DEF Chain
<1>8. g[Len(sent)] # None
  BY <1>6 DEF After
<1>9. g[Len(sent)] \in SpecData
  BY <1>7, <1>8 DEF Specs
<1>10. w.seen = After(g[Len(sent)], p, w.local)
  BY <1>6, <1>9
<1>11. QED
  BY <1>2, <1>3, <1>6, <1>8, <1>10 DEF Locked, SeesOwn

\* A tick sends the edits; nothing else of the path changes.
LEMMA LockedFlush ==
    ASSUME NEW p, NEW c, NEW U, NEW history \in Seq(U), NEW f, NEW E, NEW sent \in Seq(E),
           NEW start, Chain(start, history, p, f),
           NEW v, Sound(history, v, sent, p), Locked(c, history, f, v, sent, p),
           NEW w, w.local = None, w.seen = v.seen, w.masks = v.masks, w.last = v.last,
           NEW event, event.updates[p] = v.local
    PROVE  Locked(c, history, f, w, Append(sent, event), p)
<1> DEFINE longer == Append(sent, event)
<1>1. /\ Len(sent) \in Nat /\ DOMAIN sent = 1..Len(sent) /\ DOMAIN longer = 1..(Len(sent) + 1)
      /\ (\A n \in 1..Len(sent) : longer[n] = sent[n]) /\ longer[Len(sent) + 1] = event
      /\ \A n \in 1..(Len(sent) + 1) : n \in 1..Len(sent) \/ n = Len(sent) + 1
      /\ Len(longer) = Len(sent) + 1
  BY Appending
<1> HIDE DEF longer
<1>2. Outgoing(longer, p) <=> Outgoing(sent, p) \/ v.local # None
  <2>1. \A n \in 1..Len(sent) : n \in DOMAIN longer
    BY <1>1
  <2>2. Len(sent) + 1 \in DOMAIN longer /\ (Touches(event, p) <=> v.local # None)
    BY <1>1 DEF Touches
  <2>3. QED
    BY <1>1, <2>1, <2>2 DEF Outgoing
<1>3. Ahead(w, longer, p) <=> Ahead(v, sent, p)
  BY <1>2 DEF Ahead
<1>4. LockHeld(c, history, w, longer, p)
  BY <1>3 DEF Locked, LockHeld, Later
<1>5. ~Ahead(w, longer, p) => SeesHistory(c, history, f, w, p)
  BY <1>3 DEF Locked, SeesHistory, CountsAs
<1>6. ASSUME Ahead(w, longer, p)
      PROVE  \E g \in Links(longer) : SeesOwn(f[Len(history)], w, longer, p, g)
  <2>1. PICK g \in Links(sent) : SeesOwn(f[Len(history)], v, sent, p, g)
    BY <1>3, <1>6 DEF Locked
  <2>2. Recorded(p, event.updates[p]) /\ (Touches(event, p) => g[Len(sent)] # None)
    BY <2>1 DEF SeesOwn, Sound, Touches
  <2>3. PICK h \in Links(longer) :
            /\ Chain(f[Len(history)], longer, p, h)
            /\ h[Len(sent) + 1] = After(g[Len(sent)], p, event.updates[p])
    BY <2>1, <2>2, ChainAppended DEF SeesOwn, longer
  <2>4. w.seen = After(h[Len(longer)], p, w.local)
    <3>1. After(h[Len(longer)], p, w.local) = h[Len(longer)]
      BY DEF After
    <3>2. h[Len(longer)] = After(g[Len(sent)], p, v.local)
      BY <1>1, <2>3
    <3>3. QED
      BY <2>1, <3>1, <3>2 DEF SeesOwn
  <2>5. QED
    BY <2>3, <2>4 DEF SeesOwn
<1>7. QED
  BY <1>4, <1>5, <1>6 DEF Locked, longer

\* The server numbers the oldest of the edits that wait: its author ...
LEMMA LockedNumbered ==
    ASSUME NEW p, NEW c, NEW U, NEW history \in Seq(U), NEW f, NEW g,
           NEW E, NEW sent \in Seq(E), sent # <<>>,
           NEW v, Sound(history, v, sent, p), Locked(c, history, f, v, sent, p),
           NEW entry, entry.user = c, entry.updates[p] = Head(sent).updates[p],
           \A n \in 0..Len(history) : g[n] = f[n],
           g[Len(history) + 1] = After(f[Len(history)], p, entry.updates[p])
    PROVE  Locked(c, Append(history, entry), g, v, Tail(sent), p)
<1> DEFINE N == Len(history)
           longer == Append(history, entry)
           rest == Tail(sent)
<1>1. /\ N \in Nat /\ DOMAIN history = 1..N /\ DOMAIN longer = 1..(N + 1)
      /\ (\A n \in 1..N : longer[n] = history[n]) /\ longer[N + 1] = entry
      /\ \A n \in 1..(N + 1) : n \in 1..N \/ n = N + 1
      /\ Len(longer) = N + 1
  BY Appending
<1>2. /\ Len(rest) \in Nat /\ DOMAIN rest = 1..Len(rest) /\ DOMAIN sent = 1..Len(sent)
      /\ Len(sent) = Len(rest) + 1 /\ Head(sent) = sent[1]
      /\ \A n \in 1..Len(rest) : rest[n] = sent[n + 1]
  OBVIOUS
<1> HIDE DEF N, longer, rest
<1>3. v.last \in 0..N
  BY DEF Sound, N
<1>4. /\ \A n \in Later(history, v) : n \in Later(longer, v) /\ n \in 1..N
      /\ N + 1 \in Later(longer, v)
      /\ \A n \in Later(longer, v) : n \in Later(history, v) \/ n = N + 1
  BY <1>1, <1>3 DEF Later, N
<1>5. Touches(entry, p) <=> Touches(sent[1], p)
  BY <1>2 DEF Touches
<1>6. Outgoing(rest, p) => Outgoing(sent, p)
  <2>1. \A i \in DOMAIN rest : i + 1 \in DOMAIN sent /\ rest[i] = sent[i + 1]
    BY <1>2
  <2>2. QED
    BY <2>1 DEF Outgoing
<1>7. Outgoing(sent, p) => Outgoing(rest, p) \/ Touches(entry, p)
  <2>1. \A i \in DOMAIN sent : i = 1 \/ (i - 1 \in DOMAIN rest /\ rest[i - 1] = sent[i])
    BY <1>2
  <2>2. QED
    BY <1>5, <2>1 DEF Outgoing
<1>8. Touches(entry, p) => Outgoing(sent, p)
  BY <1>2, <1>5 DEF Outgoing
<1>9. /\ Ahead(v, rest, p) => Ahead(v, sent, p)
      /\ Ahead(v, sent, p) => Ahead(v, rest, p) \/ Touches(entry, p)
      /\ Touches(entry, p) => Ahead(v, sent, p)
  BY <1>6, <1>7, <1>8 DEF Ahead
<1>10. LockHeld(c, longer, v, rest, p)
  <2>1. ASSUME NEW n \in Later(longer, v), Ahead(v, sent, p), Touches(longer[n], p)
        PROVE  longer[n].user = c
    BY <1>1, <1>4, <2>1 DEF Locked, LockHeld
  <2>2. ASSUME NEW m \in Later(longer, v), NEW n \in Later(longer, v), m < n,
               OwnEntry(c, longer, n, p), Touches(longer[m], p)
        PROVE  longer[m].user = c
    <3>1. CASE n = N + 1
      <4>1. Ahead(v, sent, p)
        BY <1>1, <1>9, <2>2, <3>1 DEF OwnEntry
      <4>2. QED
        BY <2>1, <2>2, <4>1
    <3>2. CASE n # N + 1
      <4>1. n \in Later(history, v) /\ n \in 1..N
        BY <1>4, <3>2
      <4>2. m \in Later(history, v) /\ m \in 1..N
        <5>1. m # N + 1
          BY <1>1, <2>2, <4>1
        <5>2. QED
          BY <1>4, <5>1
      <4>3. OwnEntry(c, history, n, p) /\ Touches(history[m], p)
        BY <1>1, <2>2, <4>1, <4>2 DEF OwnEntry
      <4>4. history[m].user = c
        BY <2>2, <4>1, <4>2, <4>3 DEF Locked, LockHeld
      <4>5. QED
        BY <1>1, <4>2, <4>4
    <3>3. QED
      BY <3>1, <3>2
  <2>3. ASSUME v.masks # {}
        PROVE  Ahead(v, rest, p) \/ \E n \in Later(longer, v) : OwnEntry(c, longer, n, p)
    <3>1. CASE Touches(entry, p)
      BY <1>1, <1>4, <3>1 DEF OwnEntry
    <3>2. CASE ~Touches(entry, p)
      <4>1. Ahead(v, rest, p) \/ \E n \in Later(history, v) : OwnEntry(c, history, n, p)
        BY <1>9, <2>3, <3>2 DEF Locked, LockHeld
      <4>2. QED
        BY <1>1, <1>4, <4>1 DEF OwnEntry
    <3>3. QED
      BY <3>1, <3>2
  <2>4. QED
    BY <1>9, <2>1, <2>2, <2>3 DEF LockHeld
<1>11. 0 \in 0..N /\ N \in 0..N /\ g[N] = f[N] /\ g[N + 1] = After(f[N], p, entry.updates[p])
  BY <1>1 DEF N
<1>12. CASE Ahead(v, sent, p)
  <2>1. PICK own \in Links(sent) : SeesOwn(f[N], v, sent, p, own)
    BY <1>12 DEF Locked, N
  <2>2. own[1] = g[N + 1]
    <3>1. 1 \in 1..Len(sent) /\ 1 - 1 = 0
      BY <1>2
    <3>2. own[0] = f[N] /\ own[1] = After(own[0], p, sent[1].updates[p])
      BY <2>1, <3>1 DEF SeesOwn, Chain
    <3>3. QED
      BY <1>2, <1>11, <3>2
  <2>3. PICK h \in Links(rest) : Chain(own[1], rest, p, h) /\ h[Len(rest)] = own[Len(sent)]
    BY <2>1, ChainRest DEF SeesOwn, rest
  <2>4. SeesOwn(g[N + 1], v, rest, p, h)
    BY <2>1, <2>2, <2>3 DEF SeesOwn
  <2>5. ASSUME ~Ahead(v, rest, p), NEW n \in v.last..(N + 1), CountsAs(c, longer, v, p, n)
        PROVE  v.seen = g[n]
    <3>1. Touches(entry, p) /\ v.local = None
      BY <1>9, <1>12, <2>5 DEF Ahead
    <3>2. n = N + 1
      <4>1. ASSUME n # N + 1 PROVE FALSE
        <5>1. N + 1 \in (n + 1)..(N + 1)
          BY <1>1, <1>3, <4>1
        <5>2. OwnEntry(c, longer, N + 1, p)
          BY <1>1, <3>1 DEF OwnEntry
        <5>3. CountsAs(c, longer, v, p, n) /\ Len(longer) = N + 1
          BY <1>1, <2>5
        <5>4. QED
          BY ONLY <5>1, <5>2, <5>3 DEF CountsAs
      <4>2. QED
        BY <4>1
    <3>3. h[Len(rest)] = h[0]
      <4>1. \A i \in (0 + 1)..Len(rest) : ~Touches(rest[i], p)
        BY <1>2, <2>5 DEF Ahead, Outgoing
      <4>2. 0 \in 0..Len(rest) /\ Len(rest) \in 0..Len(rest) /\ 0 <= Len(rest)
        BY <1>2
      <4>3. QED
        BY <2>3, <4>1, <4>2 DEF Chain
    <3>4. h[0] = g[N + 1]
      BY <2>2, <2>3 DEF Chain
    <3>5. v.seen = h[Len(rest)]
      BY <2>4, <3>1 DEF SeesOwn, After
    <3>6. QED
      BY <3>2, <3>3, <3>4, <3>5
  <2>6. ~Ahead(v, rest, p) => SeesHistory(c, longer, g, v, p)
    BY <1>1, <2>5 DEF SeesHistory
  <2>7. SeesOwn(g[Len(longer)], v, rest, p, h)
    BY <1>1, <2>4
  <2>8. QED
    BY <1>10, <2>3, <2>6, <2>7 DEF Locked, longer, rest
<1>13. CASE ~Ahead(v, sent, p)
  <2>1. ~Touches(entry, p) /\ ~Ahead(v, rest, p)
    BY <1>9, <1>13
  <2>2. g[N + 1] = f[N]
    BY <1>11, <2>1 DEF After, Touches
  <2>3. ASSUME NEW n \in v.last..(N + 1), CountsAs(c, longer, v, p, n)
        PROVE  v.seen = g[n]
    <3> DEFINE k == IF n = N + 1 THEN N ELSE n
    <3>1. k \in v.last..N /\ k \in 0..N /\ g[n] = f[k] /\ k <= n
      BY <1>1, <1>3, <2>2
    <3>2. \A m \in (v.last + 1)..k : m \in (v.last + 1)..n /\ m \in 1..N
      BY <1>1, <1>3, <3>1
    <3>3. \A m \in (k + 1)..N : m \in (n + 1)..(N + 1) /\ m \in 1..N
      BY <1>1, <1>3, <3>1
    <3>4. CountsAs(c, history, v, p, k)
      BY <1>1, <2>3, <3>2, <3>3 DEF CountsAs, N, OwnEntry
    <3> HIDE DEF k
    <3>5. v.seen = f[k]
      BY <1>13, <3>1, <3>4 DEF Locked, SeesHistory, N
    <3>6. QED
      BY <3>1, <3>5
  <2>4. SeesHistory(c, longer, g, v, p)
    BY <1>1, <2>3 DEF SeesHistory
  <2>5. QED
    BY <1>10, <2>1, <2>4 DEF Locked, longer, rest
<1>14. QED
  BY <1>12, <1>13

\* ... and the others, who have nothing of the path under way if the edit touches it.
LEMMA LockedGoesOn ==
    ASSUME NEW p, NEW c, NEW U, NEW history \in Seq(U), NEW f, NEW g, NEW sent,
           NEW v, Sound(history, v, sent, p), Locked(c, history, f, v, sent, p),
           NEW entry, entry.user # c, Touches(entry, p) => ~Ahead(v, sent, p),
           \A n \in 0..Len(history) : g[n] = f[n],
           g[Len(history) + 1] = After(f[Len(history)], p, entry.updates[p])
    PROVE  Locked(c, Append(history, entry), g, v, sent, p)
<1> DEFINE N == Len(history)
           longer == Append(history, entry)
<1>1. /\ N \in Nat /\ DOMAIN history = 1..N /\ DOMAIN longer = 1..(N + 1)
      /\ (\A n \in 1..N : longer[n] = history[n]) /\ longer[N + 1] = entry
      /\ \A n \in 1..(N + 1) : n \in 1..N \/ n = N + 1
      /\ Len(longer) = N + 1
  BY Appending
<1> HIDE DEF N, longer
<1>2. v.last \in 0..N
  BY DEF Sound, N
<1>3. /\ \A n \in Later(history, v) : n \in Later(longer, v) /\ n \in 1..N
      /\ \A n \in Later(longer, v) : n \in Later(history, v) \/ n = N + 1
  BY <1>1, <1>2 DEF Later, N
<1>4. \A n \in Later(longer, v) :
          OwnEntry(c, longer, n, p) => n \in Later(history, v) /\ OwnEntry(c, history, n, p)
  BY <1>1, <1>3 DEF OwnEntry
<1>5. LockHeld(c, longer, v, sent, p)
  <2>1. ASSUME NEW n \in Later(longer, v), Ahead(v, sent, p), Touches(longer[n], p)
        PROVE  longer[n].user = c
    BY <1>1, <1>3, <2>1 DEF Locked, LockHeld
  <2>2. ASSUME NEW m \in Later(longer, v), NEW n \in Later(longer, v), m < n,
               OwnEntry(c, longer, n, p), Touches(longer[m], p)
        PROVE  longer[m].user = c
    <3>1. n \in Later(history, v) /\ n \in 1..N /\ OwnEntry(c, history, n, p)
      BY <1>3, <1>4, <2>2
    <3>2. m # N + 1
      BY <1>1, <2>2, <3>1
    <3>3. m \in Later(history, v) /\ m \in 1..N
      BY <1>3, <3>2
    <3>4. Touches(history[m], p)
      BY <1>1, <2>2, <3>3
    <3>5. history[m].user = c
      BY <2>2, <3>1, <3>3, <3>4 DEF Locked, LockHeld
    <3>6. QED
      BY <1>1, <3>3, <3>5
  <2>3. ASSUME v.masks # {}
        PROVE  Ahead(v, sent, p) \/ \E n \in Later(longer, v) : OwnEntry(c, longer, n, p)
    <3>1. Ahead(v, sent, p) \/ \E n \in Later(history, v) : OwnEntry(c, history, n, p)
      BY <2>3 DEF Locked, LockHeld
    <3>2. QED
      BY <1>1, <1>3, <3>1 DEF OwnEntry
  <2>4. QED
    BY <2>1, <2>2, <2>3 DEF LockHeld
<1>6. N \in 0..N /\ g[N] = f[N] /\ g[N + 1] = After(f[N], p, entry.updates[p])
  BY <1>1 DEF N
<1>7. ~Touches(entry, p) => g[N + 1] = f[N]
  BY <1>6 DEF After, Touches
<1>8. ASSUME ~Ahead(v, sent, p), NEW n \in v.last..(N + 1), CountsAs(c, longer, v, p, n)
      PROVE  v.seen = g[n]
  <2>1. n = N + 1 => ~Touches(entry, p)
    <3>1. N + 1 \in (v.last + 1)..(N + 1)
      BY <1>1, <1>2
    <3>2. QED
      BY <1>1, <1>8, <3>1 DEF CountsAs
  <2> DEFINE k == IF n = N + 1 THEN N ELSE n
  <2>2. k \in v.last..N /\ k \in 0..N /\ g[n] = f[k] /\ k <= n
    BY <1>1, <1>2, <1>6, <1>7, <2>1
  <2>3. \A m \in (v.last + 1)..k : m \in (v.last + 1)..n /\ m \in 1..N
    BY <1>1, <1>2, <2>2
  <2>4. \A m \in (k + 1)..N : m \in (n + 1)..(N + 1) /\ m \in 1..N
    BY <1>1, <1>2, <2>2
  <2>5. CountsAs(c, history, v, p, k)
    BY <1>1, <1>8, <2>3, <2>4 DEF CountsAs, N, OwnEntry
  <2> HIDE DEF k
  <2>6. v.seen = f[k]
    BY <1>8, <2>2, <2>5 DEF Locked, SeesHistory, N
  <2>7. QED
    BY <2>2, <2>6
<1>9. ~Ahead(v, sent, p) => SeesHistory(c, longer, g, v, p)
  BY <1>1, <1>8 DEF SeesHistory
<1>10. ASSUME Ahead(v, sent, p)
       PROVE  \E h \in Links(sent) : SeesOwn(g[Len(longer)], v, sent, p, h)
  BY <1>1, <1>6, <1>7, <1>10 DEF Locked, N
<1>11. QED
  BY <1>5, <1>9, <1>10 DEF Locked, longer

\* A client applies the next update: its own edit, which it has seen all along, or that of
\* another, when it has nothing of its own on top.
LEMMA LockedApplies ==
    ASSUME NEW p, NEW c, NEW U, NEW history \in Seq(U), NEW f, NEW sent,
           NEW start, Chain(start, history, p, f),
           NEW v, Sound(history, v, sent, p), Locked(c, history, f, v, sent, p),
           v.last + 1 \in DOMAIN history,
           NEW w, w.last = v.last + 1, w.local = v.local,
           ~Touches(history[w.last], p) => w.seen = v.seen /\ w.masks = v.masks,
           OwnEntry(c, history, w.last, p) => w.seen = v.seen /\ w.masks = {},
           Touches(history[w.last], p) /\ history[w.last].user # c =>
              /\ w.masks = v.masks
              /\ v.seen # None /\ v.masks = {} =>
                    w.seen = After(v.seen, p, history[w.last].updates[p])
    PROVE  Locked(c, history, f, w, sent, p)
<1> DEFINE N == Len(history)
           m == v.last + 1
           entry == history[m]
<1>1. /\ N \in Nat /\ v.last \in 0..N /\ m \in 1..N /\ m - 1 = v.last
      /\ m \in Later(history, v)
  BY DEF Sound, Later
<1>2. /\ \A n \in Later(history, w) : n \in Later(history, v) /\ n > m
      /\ \A n \in Later(history, v) : n \in Later(history, w) \/ n = m
      /\ \A n \in w.last..N : n \in v.last..N /\ n >= m
      /\ w.last = m
  BY <1>1 DEF Later
<1> HIDE DEF N, m
<1>3. Ahead(w, sent, p) <=> Ahead(v, sent, p)
  BY DEF Ahead
<1>4. Ahead(v, sent, p) => (Touches(entry, p) => entry.user = c)
  BY <1>1 DEF Locked, LockHeld
<1>5. w.masks # {} => Ahead(w, sent, p) \/ \E n \in Later(history, w) : OwnEntry(c, history, n, p)
  <2>1. SUFFICES ASSUME w.masks # {}, ~Ahead(w, sent, p)
                 PROVE  \E n \in Later(history, w) : OwnEntry(c, history, n, p)
    OBVIOUS
  <2>2. v.masks # {} /\ ~OwnEntry(c, history, m, p)
    BY <1>2, <2>1 DEF OwnEntry
  <2>3. PICK n \in Later(history, v) : OwnEntry(c, history, n, p)
    BY <1>3, <2>1, <2>2 DEF Locked, LockHeld
  <2>4. QED
    BY <1>2, <2>2, <2>3
<1>6. LockHeld(c, history, w, sent, p)
  BY <1>2, <1>3, <1>5 DEF Locked, LockHeld
<1>7. Ahead(w, sent, p) => w.seen = v.seen
  BY <1>2, <1>3, <1>4 DEF OwnEntry
<1>8. CASE Ahead(w, sent, p)
  <2>1. PICK g \in Links(sent) : SeesOwn(f[N], v, sent, p, g)
    BY <1>3, <1>8 DEF Locked, N
  <2>2. SeesOwn(f[N], w, sent, p, g)
    BY <1>7, <1>8, <2>1 DEF SeesOwn
  <2>3. QED
    BY <1>6, <1>8, <2>2 DEF Locked, N
<1>9. CASE ~Ahead(w, sent, p)
  <2>1. ASSUME NEW n \in w.last..N, CountsAs(c, history, w, p, n)
        PROVE  w.seen = f[n]
    <3>1. n \in v.last..N /\ n >= m /\ n \in 0..N
      BY <1>1, <1>2
    <3>2. CASE Touches(entry, p) => entry.user = c
      <4>1. w.seen = v.seen
        BY <1>2, <3>2 DEF OwnEntry
      <4>2. \A i \in (v.last + 1)..n : i = m \/ i \in (w.last + 1)..n
        BY <1>1, <1>2, <3>1
      <4>3. CountsAs(c, history, v, p, n)
        BY <2>1, <3>2, <4>2 DEF CountsAs
      <4>4. v.seen = f[n]
        BY <1>3, <1>9, <3>1, <4>3 DEF Locked, SeesHistory, N
      <4>5. QED
        BY <4>1, <4>4
    <3>3. CASE Touches(entry, p) /\ entry.user # c
      <4>1. \A i \in Later(history, v) : ~OwnEntry(c, history, i, p)
        <5>1. SUFFICES ASSUME NEW i \in Later(history, v), OwnEntry(c, history, i, p)
                       PROVE  FALSE
          OBVIOUS
        <5>2. i # m
          BY <3>3, <5>1 DEF OwnEntry
        <5>3. m < i
          BY <1>1, <1>2, <5>2
        <5>4. QED
          BY <1>1, <3>3, <5>1, <5>3 DEF Locked, LockHeld
      <4>2. v.masks = {}
        BY <1>3, <1>9, <4>1 DEF Locked, LockHeld
      <4>3. v.seen = f[v.last]
        <5>1. CountsAs(c, history, v, p, v.last)
          <6>1. \A i \in (v.last + 1)..v.last : FALSE
            BY <1>1
          <6>2. \A i \in (v.last + 1)..Len(history) : ~OwnEntry(c, history, i, p)
            BY <4>1 DEF Later
          <6>3. QED
            BY <6>1, <6>2 DEF CountsAs
        <5>2. v.last \in v.last..N
          BY <1>1
        <5>3. QED
          BY <1>3, <1>9, <5>1, <5>2 DEF Locked, SeesHistory, N
      <4>4. f[m - 1] # None /\ f[m] = After(f[m - 1], p, entry.updates[p])
        BY <1>1, <3>3 DEF Chain, N
      <4>5. w.seen = f[m]
        BY <1>1, <1>2, <3>3, <4>2, <4>3, <4>4
      <4>6. \A i \in (m + 1)..n : ~Touches(history[i], p)
        <5>1. \A i \in (m + 1)..n : i \in Later(history, v) /\ i \in (w.last + 1)..n
          BY <1>1, <1>2, <3>1 DEF Later, N
        <5>2. QED
          BY <2>1, <4>1, <5>1 DEF CountsAs, OwnEntry
      <4>7. f[m] = f[n]
        <5>1. m \in 0..N /\ n \in 0..N /\ m <= n
          BY <1>1, <3>1
        <5>2. QED
          BY <4>6, <5>1 DEF Chain, N
      <4>8. QED
        BY <4>5, <4>7
    <3>4. QED
      BY <3>2, <3>3
  <2>2. SeesHistory(c, history, f, w, p)
    BY <2>1 DEF SeesHistory, N
  <2>3. QED
    BY <1>6, <1>9, <2>2 DEF Locked
<1>10. QED
  BY <1>8, <1>9

(***************************************************************************)
(* A path with one field that is not edited again before the edit is       *)
(* acknowledged.  A client has at most one edit of it under way and sees   *)
(* that edit, whatever else it has applied: that is what masks are for.    *)
(***************************************************************************)
SeesEdit(start, p, v, fields) ==
    fields # None => start # None /\ v.seen = After(start, p, fields)

OneEdit(c, history, v, sent, p) ==
    /\ v.local # None => ~Outgoing(sent, p)
    /\ \A i, j \in DOMAIN sent : Touches(sent[i], p) /\ Touches(sent[j], p) => i = j
    /\ Ahead(v, sent, p) => \A n \in Later(history, v) : ~OwnEntry(c, history, n, p)
    /\ \A m, n \in Later(history, v) :
           OwnEntry(c, history, m, p) /\ OwnEntry(c, history, n, p) => m = n
    /\ v.masks # {} <=>
           Ahead(v, sent, p) \/ \E n \in Later(history, v) : OwnEntry(c, history, n, p)

SeesItsEdit(c, start, history, v, sent, p) ==
    /\ SeesEdit(start, p, v, v.local)
    /\ \A i \in DOMAIN sent : SeesEdit(start, p, v, sent[i].updates[p])
    /\ \A n \in Later(history, v) :
           history[n].user = c => SeesEdit(start, p, v, history[n].updates[p])

Settled(c, start, history, f, v, sent, p) ==
    /\ OneEdit(c, history, v, sent, p)
    /\ SeesItsEdit(c, start, history, v, sent, p)
    /\ AlikeBut(FieldsOf[p], v.seen, start)
    /\ v.masks = {} => v.seen = f[v.last]

\* Where no edit changes more than the one field.
AlikeAll(start, history, f, p) ==
    \A n \in 0..Len(history) : AlikeBut(FieldsOf[p], f[n], start)

LEMMA AlikeSelf ==
    ASSUME NEW keys, NEW spec
    PROVE  AlikeBut(keys, spec, spec)
BY DEF AlikeBut

LEMMA SettledEdit ==
    ASSUME NEW p, OneField(p), NEW c, NEW history, NEW f, NEW sent,
           NEW start \in Specs, Visible(start) = start,
           NEW v, Sound(history, v, sent, p), Settled(c, start, history, f, v, sent, p),
           v.seen # None, v.masks = {} \/ v.local # None,
           NEW w, w.local # None, w.last = v.last, Recorded(p, w.local), w.masks # {},
           \A spec \in SpecData : v.seen = After(spec, p, v.local)
                                  => w.seen = After(spec, p, w.local)
    PROVE  Settled(c, start, history, f, w, sent, p)
<1>1. Later(history, w) = Later(history, v)
  BY DEF Later
<1>2. ~Outgoing(sent, p) /\ \A n \in Later(history, v) : ~OwnEntry(c, history, n, p)
  <2>1. CASE v.local # None
    BY <2>1 DEF Settled, OneEdit, Ahead
  <2>2. CASE v.local = None
    BY <2>2 DEF Settled, OneEdit, Ahead
  <2>3. QED
    BY <2>1, <2>2
<1>3. OneEdit(c, history, w, sent, p)
  BY <1>1, <1>2 DEF OneEdit, Ahead, Settled
<1>4. /\ v.seen \in SpecData /\ Visible(v.seen) = v.seen
      /\ AlikeBut(FieldsOf[p], v.seen, start)
      /\ start # None /\ start \in SpecData
  BY DEF Sound, Settled, AlikeBut, Specs
<1>5. w.seen = After(start, p, w.local)
  <2>1. CASE v.local # None
    BY <1>4, <2>1 DEF Settled, SeesItsEdit, SeesEdit
  <2>2. CASE v.local = None
    <3>1. v.seen = After(v.seen, p, v.local)
      BY <2>2 DEF After
    <3>2. w.seen = After(v.seen, p, w.local)
      BY <1>4, <3>1
    <3>3. After(v.seen, p, w.local) = After(start, p, w.local)
      BY <1>4, AlikeAfter DEF Specs
    <3>4. QED
      BY <3>2, <3>3
  <2>3. QED
    BY <2>1, <2>2
<1>6. AlikeBut(FieldsOf[p], w.seen, start)
  BY <1>4, <1>5, AlikeAfter, AlikeSelf
<1>7. SeesItsEdit(c, start, history, w, sent, p)
  BY <1>1, <1>2, <1>4, <1>5 DEF SeesItsEdit, SeesEdit, Outgoing, Touches, OwnEntry
<1>8. QED
  BY <1>3, <1>6, <1>7 DEF Settled

LEMMA SettledFlush ==
    ASSUME NEW p, NEW c, NEW history, NEW f, NEW E, NEW sent \in Seq(E), NEW start,
           NEW v, Settled(c, start, history, f, v, sent, p),
           NEW w, w.local = None, w.seen = v.seen, w.masks = v.masks, w.last = v.last,
           NEW event, event.updates[p] = v.local
    PROVE  Settled(c, start, history, f, w, Append(sent, event), p)
<1> DEFINE longer == Append(sent, event)
<1>1. /\ Len(sent) \in Nat /\ DOMAIN sent = 1..Len(sent) /\ DOMAIN longer = 1..(Len(sent) + 1)
      /\ (\A n \in 1..Len(sent) : longer[n] = sent[n]) /\ longer[Len(sent) + 1] = event
      /\ \A n \in 1..(Len(sent) + 1) : n \in 1..Len(sent) \/ n = Len(sent) + 1
  BY Appending
<1>2. \A n \in 1..Len(sent) : n \in 1..(Len(sent) + 1)
  BY <1>1
<1> HIDE DEF longer
<1>3. Touches(event, p) <=> v.local # None
  BY DEF Touches
<1>4. Outgoing(longer, p) <=> Outgoing(sent, p) \/ v.local # None
  BY <1>1, <1>2, <1>3 DEF Outgoing
<1>5. Ahead(w, longer, p) <=> Ahead(v, sent, p)
  BY <1>4 DEF Ahead
<1>6. Later(history, w) = Later(history, v)
  BY DEF Later
<1>7. \A i, j \in DOMAIN longer : Touches(longer[i], p) /\ Touches(longer[j], p) => i = j
  BY <1>1, <1>3 DEF Settled, OneEdit, Outgoing
<1>8. OneEdit(c, history, w, longer, p)
  BY <1>5, <1>6, <1>7 DEF Settled, OneEdit
<1>9. \A fields : SeesEdit(start, p, v, fields) => SeesEdit(start, p, w, fields)
  BY DEF SeesEdit
<1>10. SeesItsEdit(c, start, history, w, longer, p)
  <2>1. SeesEdit(start, p, w, w.local)
    BY DEF SeesEdit
  <2>2. \A i \in DOMAIN longer : SeesEdit(start, p, w, longer[i].updates[p])
    BY <1>1, <1>9 DEF Settled, SeesItsEdit
  <2>3. QED
    BY <1>6, <1>9, <2>1, <2>2 DEF Settled, SeesItsEdit
<1>11. QED
  BY <1>8, <1>10 DEF Settled, longer

LEMMA SettledNumbered ==
    ASSUME NEW p, NEW c, NEW U, NEW history \in Seq(U), NEW f, NEW g,
           NEW E, NEW sent \in Seq(E), sent # <<>>, NEW start,
           NEW v, Sound(history, v, sent, p), Settled(c, start, history, f, v, sent, p),
           NEW entry, entry.user = c, entry.updates[p] = Head(sent).updates[p],
           \A n \in 0..Len(history) : g[n] = f[n]
    PROVE  Settled(c, start, Append(history, entry), g, v, Tail(sent), p)
<1> DEFINE N == Len(history)
           longer == Append(history, entry)
           rest == Tail(sent)
<1>1. /\ N \in Nat /\ DOMAIN history = 1..N /\ DOMAIN longer = 1..(N + 1)
      /\ (\A n \in 1..N : longer[n] = history[n]) /\ longer[N + 1] = entry
      /\ \A n \in 1..(N + 1) : n \in 1..N \/ n = N + 1
      /\ Len(longer) = N + 1
  BY Appending
<1>2. /\ Head(sent) = sent[1] /\ 1 \in DOMAIN sent
      /\ \A i \in DOMAIN rest : i + 1 \in DOMAIN sent /\ rest[i] = sent[i + 1] /\ i + 1 # 1
      /\ \A i \in DOMAIN sent : i = 1 \/ (i - 1 \in DOMAIN rest /\ rest[i - 1] = sent[i])
      /\ \A i, j \in DOMAIN rest : i + 1 = j + 1 => i = j
  OBVIOUS
<1> HIDE DEF N, longer, rest
<1>3. v.last \in 0..N
  BY DEF Sound, N
<1>4. /\ \A n \in Later(history, v) : n \in Later(longer, v) /\ n \in 1..N
      /\ N + 1 \in Later(longer, v)
      /\ \A n \in Later(longer, v) : n \in Later(history, v) \/ n = N + 1
  BY <1>1, <1>3 DEF Later, N
<1>5. Touches(entry, p) <=> Touches(sent[1], p)
  BY <1>2 DEF Touches
<1>6. Touches(entry, p) => v.local = None /\ ~Outgoing(rest, p) /\ Ahead(v, sent, p)
  BY <1>2, <1>5 DEF Settled, OneEdit, Outgoing, Ahead
<1>7. ~Touches(entry, p) => (Outgoing(rest, p) <=> Outgoing(sent, p))
  BY <1>2, <1>5 DEF Outgoing
<1>8. \A n \in Later(longer, v) :
          OwnEntry(c, longer, n, p) <=>
              \/ n \in Later(history, v) /\ OwnEntry(c, history, n, p)
              \/ n = N + 1 /\ Touches(entry, p)
  <2>1. \A n \in Later(history, v) : n # N + 1 /\ longer[n] = history[n]
    BY <1>1, <1>4
  <2>2. QED
    BY <1>1, <1>4, <2>1 DEF OwnEntry
<1>9. OneEdit(c, longer, v, rest, p)
  <2>1. \A i, j \in DOMAIN rest : Touches(rest[i], p) /\ Touches(rest[j], p) => i = j
    BY <1>2 DEF Settled, OneEdit
  <2>2. v.local # None => ~Outgoing(rest, p)
    BY <1>6, <1>7 DEF Settled, OneEdit
  <2>3. CASE Touches(entry, p)
    <3>1. \A n \in Later(history, v) : ~OwnEntry(c, history, n, p)
      BY <1>6, <2>3 DEF Settled, OneEdit
    <3>2. ~Ahead(v, rest, p)
      BY <1>6, <2>3 DEF Ahead
    <3>3. v.masks # {}
      BY <1>6, <2>3 DEF Settled, OneEdit
    <3>4. OwnEntry(c, longer, N + 1, p)
      BY <1>4, <1>8, <2>3
    <3>5. \A n \in Later(longer, v) : OwnEntry(c, longer, n, p) => n = N + 1
      BY <1>8, <3>1
    <3>6. QED
      BY <1>4, <2>1, <2>2, <3>2, <3>3, <3>4, <3>5 DEF OneEdit
  <2>4. CASE ~Touches(entry, p)
    <3>1. Ahead(v, rest, p) <=> Ahead(v, sent, p)
      BY <1>7, <2>4 DEF Ahead
    <3>2. \A n \in Later(longer, v) : OwnEntry(c, longer, n, p) <=>
              n \in Later(history, v) /\ OwnEntry(c, history, n, p)
      BY <1>8, <2>4
    <3>3. QED
      BY <1>4, <2>1, <2>2, <3>1, <3>2 DEF Settled, OneEdit
  <2>5. QED
    BY <2>3, <2>4
<1>10. SeesItsEdit(c, start, longer, v, rest, p)
  <2>1. \A i \in DOMAIN rest : SeesEdit(start, p, v, rest[i].updates[p])
    BY <1>2 DEF Settled, SeesItsEdit
  <2>2. \A n \in Later(longer, v) :
            longer[n].user = c => SeesEdit(start, p, v, longer[n].updates[p])
    <3>1. SeesEdit(start, p, v, entry.updates[p])
      BY <1>2 DEF Settled, SeesItsEdit
    <3>2. \A n \in Later(history, v) : longer[n] = history[n]
      BY <1>1, <1>4
    <3>3. QED
      BY <1>1, <1>4, <3>1, <3>2 DEF Settled, SeesItsEdit
  <2>3. QED
    BY <2>1, <2>2 DEF Settled, SeesItsEdit
<1>11. v.masks = {} => v.seen = g[v.last]
  BY <1>3 DEF Settled, N
<1>12. QED
  BY <1>9, <1>10, <1>11 DEF Settled, longer, rest

LEMMA SettledGoesOn ==
    ASSUME NEW p, NEW c, NEW U, NEW history \in Seq(U), NEW f, NEW g, NEW sent, NEW start,
           NEW v, Sound(history, v, sent, p), Settled(c, start, history, f, v, sent, p),
           NEW entry, entry.user # c,
           \A n \in 0..Len(history) : g[n] = f[n]
    PROVE  Settled(c, start, Append(history, entry), g, v, sent, p)
<1> DEFINE N == Len(history)
           longer == Append(history, entry)
<1>1. /\ N \in Nat /\ DOMAIN history = 1..N /\ DOMAIN longer = 1..(N + 1)
      /\ (\A n \in 1..N : longer[n] = history[n]) /\ longer[N + 1] = entry
      /\ \A n \in 1..(N + 1) : n \in 1..N \/ n = N + 1
      /\ Len(longer) = N + 1
  BY Appending
<1> HIDE DEF N, longer
<1>2. v.last \in 0..N
  BY DEF Sound, N
<1>3. /\ \A n \in Later(history, v) : n \in Later(longer, v) /\ longer[n] = history[n]
      /\ \A n \in Later(longer, v) :
             n \in Later(history, v) \/ (n = N + 1 /\ longer[n].user # c)
  BY <1>1, <1>2 DEF Later, N
<1>4. OneEdit(c, longer, v, sent, p)
  BY <1>3 DEF Settled, OneEdit, OwnEntry
<1>5. SeesItsEdit(c, start, longer, v, sent, p)
  BY <1>3 DEF Settled, SeesItsEdit
<1>6. v.masks = {} => v.seen = g[v.last]
  BY <1>2 DEF Settled, N
<1>7. QED
  BY <1>4, <1>5, <1>6 DEF Settled, longer

LEMMA SettledApplies ==
    ASSUME NEW p, OneField(p), NEW c, NEW U, NEW history \in Seq(U), NEW f, NEW sent,
           NEW start \in Specs, Visible(start) = start, Chain(start, history, p, f),
           AlikeAll(start, history, f, p),
           NEW v, Sound(history, v, sent, p), Settled(c, start, history, f, v, sent, p),
           v.last + 1 \in DOMAIN history,
           NEW w, w.last = v.last + 1, w.local = v.local,
           ~Touches(history[w.last], p) => w.seen = v.seen /\ w.masks = v.masks,
           OwnEntry(c, history, w.last, p) => w.seen = v.seen /\ w.masks = {},
           Touches(history[w.last], p) /\ history[w.last].user # c =>
              /\ w.masks = v.masks
              /\ v.seen # None /\ v.masks = {} =>
                    w.seen = After(v.seen, p, history[w.last].updates[p])
              /\ v.seen # None /\ v.masks # {} => w.seen = v.seen
    PROVE  Settled(c, start, history, f, w, sent, p)
<1> DEFINE N == Len(history)
           m == v.last + 1
           entry == history[m]
<1>1. /\ N \in Nat /\ v.last \in 0..N /\ m \in 1..N /\ m - 1 = v.last /\ m \in 0..N
      /\ m \in Later(history, v)
  BY DEF Sound, Later
<1>2. /\ \A n \in Later(history, w) : n \in Later(history, v) /\ n # m
      /\ \A n \in Later(history, v) : n \in Later(history, w) \/ n = m
      /\ w.last = m
  BY <1>1 DEF Later
<1> HIDE DEF N, m
<1>3. Ahead(w, sent, p) <=> Ahead(v, sent, p)
  BY DEF Ahead
<1>4. /\ Recorded(p, entry.updates[p])
      /\ Touches(entry, p) => f[v.last] # None
      /\ f[m] = After(f[v.last], p, entry.updates[p])
      /\ f[v.last] \in Specs /\ Visible(f[v.last]) = f[v.last]
  BY <1>1 DEF Chain, N
<1>5. AlikeBut(FieldsOf[p], f[v.last], start) /\ AlikeBut(FieldsOf[p], f[m], start)
  BY <1>1 DEF AlikeAll, N
<1>6. CASE ~Touches(entry, p)
  <2>1. w.seen = v.seen /\ w.masks = v.masks /\ ~OwnEntry(c, history, m, p)
    BY <1>2, <1>6 DEF OwnEntry
  <2>2. OneEdit(c, history, w, sent, p)
    BY <1>2, <1>3, <2>1 DEF Settled, OneEdit
  <2>3. SeesItsEdit(c, start, history, w, sent, p)
    BY <1>2, <2>1 DEF Settled, SeesItsEdit, SeesEdit
  <2>4. f[m] = f[v.last]
    BY <1>4, <1>6 DEF After, Touches
  <2>5. QED
    BY <1>2, <2>1, <2>2, <2>3, <2>4 DEF Settled
<1>7. CASE OwnEntry(c, history, m, p)
  <2>1. w.seen = v.seen /\ w.masks = {} /\ Touches(entry, p) /\ entry.user = c
    BY <1>2, <1>7 DEF OwnEntry
  <2>2. ~Ahead(v, sent, p) /\ \A n \in Later(history, w) : ~OwnEntry(c, history, n, p)
    BY <1>1, <1>2, <1>7 DEF Settled, OneEdit
  <2>3. OneEdit(c, history, w, sent, p)
    BY <1>2, <1>3, <2>1, <2>2 DEF Settled, OneEdit
  <2>4. SeesItsEdit(c, start, history, w, sent, p)
    BY <1>2, <2>1 DEF Settled, SeesItsEdit, SeesEdit
  <2>5. v.seen = After(start, p, entry.updates[p]) /\ start # None
    BY <1>1, <2>1 DEF Settled, SeesItsEdit, SeesEdit, Touches
  <2>6. f[m] = After(start, p, entry.updates[p])
    <3>1. After(f[v.last], p, entry.updates[p]) = After(start, p, entry.updates[p])
      BY <1>4, <1>5, <2>1, AlikeAfter DEF Touches
    <3>2. QED
      BY <1>4, <3>1
  <2>7. QED
    BY <1>2, <2>1, <2>3, <2>4, <2>5, <2>6 DEF Settled
<1>8. CASE Touches(entry, p) /\ entry.user # c
  <2>1. w.masks = v.masks /\ ~OwnEntry(c, history, m, p)
    BY <1>2, <1>8 DEF OwnEntry
  <2>2. OneEdit(c, history, w, sent, p)
    BY <1>2, <1>3, <2>1 DEF Settled, OneEdit
  <2>3. v.seen # None
    BY <1>4, <1>5, <1>8 DEF Settled, AlikeBut
  <2>4. CASE v.masks # {}
    <3>1. w.seen = v.seen
      BY <1>2, <1>8, <2>3, <2>4
    <3>2. SeesItsEdit(c, start, history, w, sent, p)
      BY <1>2, <3>1 DEF Settled, SeesItsEdit, SeesEdit
    <3>3. QED
      BY <2>1, <2>2, <2>4, <3>1, <3>2 DEF Settled
  <2>5. CASE v.masks = {}
    <3>1. w.seen = f[m]
      BY <1>2, <1>4, <1>8, <2>3, <2>5 DEF Settled
    <3>2. ~Ahead(v, sent, p) /\ \A n \in Later(history, v) : ~OwnEntry(c, history, n, p)
      BY <2>5 DEF Settled, OneEdit
    <3>3. SeesItsEdit(c, start, history, w, sent, p)
      BY <1>2, <3>2 DEF SeesItsEdit, SeesEdit, Ahead, Outgoing, OwnEntry, Touches
    <3>4. QED
      BY <1>2, <1>5, <2>1, <2>2, <3>1, <3>3 DEF Settled
  <2>6. QED
    BY <2>4, <2>5
<1>9. QED
  BY <1>6, <1>7, <1>8 DEF OwnEntry, m

(***************************************************************************)
(* All clients, and the steps of one of them.                              *)
(***************************************************************************)
AllLocked(p, history, f, views, sent) ==
    /\ \A c, d \in Clients : Ahead(views[c], sent[c], p) /\ Ahead(views[d], sent[d], p) => c = d
    /\ \A c \in Clients : Locked(c, history, f, views[c], sent[c], p)

AllSettled(p, start, history, f, views, sent) ==
    /\ AlikeAll(start, history, f, p)
    /\ \A c \in Clients : Settled(c, start, history, f, views[c], sent[c], p)

Kept(p, start, history, f, views, sent) ==
    IF Discipline[p] = "locked" THEN AllLocked(p, history, f, views, sent)
    ELSE AllSettled(p, start, history, f, views, sent)

Together(p, start, history, views, sent) ==
    /\ \A c \in Clients : Sound(history, views[c], sent[c], p)
    /\ \E f \in Links(history) :
          Chain(start, history, p, f) /\ Kept(p, start, history, f, views, sent)

\* A path is edited under a lock, or has one field that is edited again only once the edit
\* is acknowledged.
EditedWithCare(p) == Discipline[p] = "locked" \/ (Discipline[p] = "settled" /\ OneField(p))

\* When a host may edit the path, as far as the path's views tell.
Free(c, history, views, sent, p) ==
    IF Discipline[p] = "locked"
    THEN /\ \A d \in Clients \ {c} : ~Ahead(views[d], sent[d], p)
         /\ \A n \in Later(history, views[c]) : Touches(history[n], p) => history[n].user = c
    ELSE views[c].masks = {} \/ views[c].local # None

LEMMA TogetherEdit ==
    ASSUME NEW p, EditedWithCare(p), NEW history \in Seq(ServerDelta), NEW sent,
           NEW start \in Specs, Visible(start) = start,
           NEW views, Together(p, start, history, views, sent),
           NEW c \in Clients, sent[c] \in Seq(ClientEvent), Free(c, history, views, sent, p),
           views[c].seen # None,
           NEW after, \A d \in Clients \ {c} : after[d] = views[d],
           after[c].last = views[c].last,
           after[c].seen \in Specs, Visible(after[c].seen) = after[c].seen,
           after[c].local # None, Recorded(p, after[c].local),
           after[c].masks \subseteq {p},
           views[c].local = None \/ views[c].masks # {} => after[c].masks # {},
           \A spec \in SpecData : views[c].seen = After(spec, p, views[c].local)
                                  => after[c].seen = After(spec, p, after[c].local)
    PROVE  Together(p, start, history, after, sent)
<1> DEFINE v == views[c]
           w == after[c]
<1>1. Sound(history, v, sent[c], p)
  BY DEF Together
<1>2. \A d \in Clients : Sound(history, after[d], sent[d], p)
  BY <1>1 DEF Together, Sound
<1>3. PICK f \in Links(history) :
          Chain(start, history, p, f) /\ Kept(p, start, history, f, views, sent)
  BY DEF Together
<1>4. CASE Discipline[p] = "locked"
  <2>1. Locked(c, history, f, v, sent[c], p)
    BY <1>3, <1>4 DEF Kept, AllLocked
  <2>2. \A n \in Later(history, v) : Touches(history[n], p) => history[n].user = c
    BY <1>4 DEF Free
  <2> HIDE DEF v, w
  <2>3. Locked(c, history, f, w, sent[c], p)
    BY <1>1, <1>3, <2>1, <2>2, LockedEdit DEF v, w
  <2>4. \A d \in Clients \ {c} : ~Ahead(after[d], sent[d], p)
    BY <1>4 DEF Free
  <2>5. AllLocked(p, history, f, after, sent)
    BY <1>3, <1>4, <2>3, <2>4 DEF Kept, AllLocked, w
  <2>6. QED
    BY <1>2, <1>3, <1>4, <2>5 DEF Together, Kept
<1>5. CASE Discipline[p] # "locked"
  <2>1. Settled(c, start, history, f, v, sent[c], p) /\ OneField(p)
    BY <1>3, <1>5 DEF Kept, AllSettled, EditedWithCare
  <2>2. v.masks = {} \/ v.local # None
    BY <1>5 DEF Free
  <2>3. w.masks # {}
    BY <2>1 DEF Settled, OneEdit, Ahead
  <2> HIDE DEF v, w
  <2>4. Settled(c, start, history, f, w, sent[c], p)
    BY <1>1, <2>1, <2>2, <2>3, SettledEdit DEF v, w
  <2>5. AllSettled(p, start, history, f, after, sent)
    BY <1>3, <1>5, <2>4 DEF Kept, AllSettled, w
  <2>6. QED
    BY <1>2, <1>3, <1>5, <2>5 DEF Together, Kept
<1>6. QED
  BY <1>4, <1>5

LEMMA TogetherFlush ==
    ASSUME NEW p, NEW history \in Seq(ServerDelta), NEW sent, NEW start,
           NEW views, Together(p, start, history, views, sent),
           NEW c \in Clients, sent[c] \in Seq(ClientEvent),
           NEW after, \A d \in Clients \ {c} : after[d] = views[d],
           after[c].local = None, after[c].seen = views[c].seen,
           after[c].masks = views[c].masks, after[c].last = views[c].last,
           NEW sent2, \A d \in Clients \ {c} : sent2[d] = sent[d],
           NEW event, event.updates[p] = views[c].local,
           sent2[c] = Append(sent[c], event)
    PROVE  Together(p, start, history, after, sent2)
<1> DEFINE v == views[c]
           w == after[c]
           before == sent[c]
           longer == Append(before, event)
<1>1. Sound(history, v, before, p)
  BY DEF Together
<1>2. Sound(history, w, longer, p)
  <2>1. \A i \in DOMAIN longer : longer[i] = event \/ (i \in DOMAIN before /\ longer[i] = before[i])
    <3> HIDE DEF before
    <3>1. before \in Seq(ClientEvent)
      BY DEF before
    <3>2. QED
      BY <3>1
  <2> HIDE DEF longer, before
  <2>2. QED
    BY <1>1, <2>1 DEF Sound, Recorded
<1>3. \A d \in Clients : Sound(history, after[d], sent2[d], p)
  <2>1. \A d \in Clients \ {c} : Sound(history, after[d], sent2[d], p)
    BY DEF Together
  <2>2. QED
    BY <1>2, <2>1
<1>4. PICK f \in Links(history) :
          Chain(start, history, p, f) /\ Kept(p, start, history, f, views, sent)
  BY DEF Together
<1>5. CASE Discipline[p] = "locked"
  <2>1. Locked(c, history, f, v, before, p)
    BY <1>4, <1>5 DEF Kept, AllLocked
  <2>2. /\ w.local = None /\ w.seen = v.seen /\ w.masks = v.masks /\ w.last = v.last
        /\ event.updates[p] = v.local
        /\ before \in Seq(ClientEvent)
    OBVIOUS
  <2> HIDE DEF v, w, before
  <2>3. Locked(c, history, f, w, longer, p)
    BY <1>1, <1>4, <2>1, <2>2, LockedFlush
  <2>4. Ahead(w, longer, p) => Ahead(v, before, p)
    <3>1. \A i \in DOMAIN longer : longer[i] = event \/ (i \in DOMAIN before /\ longer[i] = before[i])
      BY <2>2
    <3> HIDE DEF longer
    <3>2. QED
      BY <2>2, <3>1 DEF Ahead, Outgoing, Touches
  <2>5. \A d \in Clients : Ahead(after[d], sent2[d], p) => Ahead(views[d], sent[d], p)
    BY <2>4 DEF v, w, before
  <2>6. \A d \in Clients : Locked(d, history, f, after[d], sent2[d], p)
    BY <1>4, <1>5, <2>3 DEF Kept, AllLocked, v, w, before
  <2>7. AllLocked(p, history, f, after, sent2)
    BY <1>4, <1>5, <2>5, <2>6 DEF Kept, AllLocked
  <2>8. QED
    BY <1>3, <1>4, <1>5, <2>7 DEF Together, Kept
<1>6. CASE Discipline[p] # "locked"
  <2>1. Settled(c, start, history, f, v, before, p)
    BY <1>4, <1>6 DEF Kept, AllSettled
  <2>2. /\ w.local = None /\ w.seen = v.seen /\ w.masks = v.masks /\ w.last = v.last
        /\ event.updates[p] = v.local
        /\ before \in Seq(ClientEvent)
    OBVIOUS
  <2> HIDE DEF v, w, before
  <2>3. Settled(c, start, history, f, w, longer, p)
    BY <2>1, <2>2, SettledFlush
  <2>4. \A d \in Clients : Settled(d, start, history, f, after[d], sent2[d], p)
    BY <1>4, <1>6, <2>3 DEF Kept, AllSettled, v, w, before
  <2>5. QED
    BY <1>3, <1>4, <1>6, <2>4 DEF Together, Kept, AllSettled
<1>7. QED
  BY <1>5, <1>6

LEMMA TogetherNumbered ==
    ASSUME NEW p, EditedWithCare(p), NEW history \in Seq(ServerDelta), NEW sent,
           NEW start \in Specs, Visible(start) = start,
           NEW views, Together(p, start, history, views, sent),
           NEW c \in Clients, sent[c] \in Seq(ClientEvent), sent[c] # <<>>,
           NEW entry, entry.user = c, entry.updates[p] = Head(sent[c]).updates[p],
           NEW sent2, \A d \in Clients \ {c} : sent2[d] = sent[d], sent2[c] = Tail(sent[c])
    PROVE  Together(p, start, Append(history, entry), views, sent2)
<1> DEFINE N == Len(history)
           longer == Append(history, entry)
           before == sent[c]
           rest == Tail(before)
           v == views[c]
<1>1. /\ N \in Nat /\ DOMAIN longer = 1..(N + 1)
      /\ (\A n \in 1..N : longer[n] = history[n]) /\ longer[N + 1] = entry
      /\ Len(longer) = N + 1
      /\ N \in 0..N /\ \A n \in 0..(N + 1) : n \in 0..N \/ n = N + 1
  BY Appending
<1>2. /\ before \in Seq(ClientEvent) /\ 1 \in DOMAIN before /\ Head(before) = before[1]
      /\ \A i \in DOMAIN rest : i + 1 \in DOMAIN before /\ rest[i] = before[i + 1]
  OBVIOUS
<1>3. \A d \in Clients : Sound(history, views[d], sent[d], p)
  BY DEF Together
<1>4. \A d \in Clients : Sound(longer, views[d], sent2[d], p)
  <2>1. \A d \in Clients \ {c} : Sound(longer, views[d], sent2[d], p)
    <3> HIDE DEF longer
    <3>1. \A n \in 0..N : n \in 0..(N + 1)
      BY <1>1
    <3>2. QED
      BY <1>1, <1>3, <3>1 DEF Sound
  <2>2. Sound(longer, v, rest, p)
    <3>1. \A n \in 0..N : n \in 0..(N + 1)
      BY <1>1
    <3>2. Sound(history, v, before, p)
      BY <1>3
    <3> HIDE DEF longer, rest, before, v
    <3>3. QED
      BY <1>1, <1>2, <3>1, <3>2 DEF Sound
  <2>3. QED
    BY <2>1, <2>2
<1>5. PICK f \in Links(history) :
          Chain(start, history, p, f) /\ Kept(p, start, history, f, views, sent)
  BY DEF Together
<1>6. Recorded(p, entry.updates[p]) /\ (Touches(entry, p) => Touches(before[1], p))
  BY <1>2, <1>3 DEF Sound, Touches
<1>7. f[N] \in Specs /\ Visible(f[N]) = f[N]
  BY <1>1, <1>5 DEF Chain
<1>8. Touches(entry, p) => Ahead(v, before, p)
  BY <1>2, <1>6 DEF Ahead, Outgoing
<1>9. Touches(entry, p) => f[N] # None
  <2>1. SUFFICES ASSUME Touches(entry, p) PROVE f[N] # None
    OBVIOUS
  <2>2. CASE Discipline[p] = "locked"
    <3>1. Locked(c, history, f, v, before, p)
      BY <1>5, <2>2 DEF Kept, AllLocked
    <3>2. PICK g \in Links(before) : Chain(f[N], before, p, g)
      BY <1>8, <2>1, <3>1 DEF Locked, SeesOwn
    <3>3. 1 \in 1..Len(before) /\ 1 - 1 = 0
      BY <1>2
    <3>4. QED
      BY <1>6, <2>1, <3>2, <3>3 DEF Chain
  <2>3. CASE Discipline[p] # "locked"
    <3>1. SeesEdit(start, p, v, before[1].updates[p]) /\ AlikeBut(FieldsOf[p], f[N], start)
      BY <1>1, <1>2, <1>5, <2>3 DEF Kept, AllSettled, Settled, SeesItsEdit, AlikeAll
    <3>2. QED
      BY <1>6, <2>1, <3>1 DEF SeesEdit, Touches, AlikeBut
  <2>4. QED
    BY <2>2, <2>3
<1>10. PICK g \in Links(longer) :
           /\ Chain(start, longer, p, g)
           /\ \A n \in 0..N : g[n] = f[n]
           /\ g[N + 1] = After(f[N], p, entry.updates[p])
  <2>1. Chain(start, history, p, f) /\ (Touches(entry, p) => f[Len(history)] # None)
    BY <1>5, <1>9
  <2>2. Recorded(p, entry.updates[p])
    BY <1>6
  <2>3. QED
    BY ONLY <2>1, <2>2, history \in Seq(ServerDelta), ChainAppended
<1>11. CASE Discipline[p] = "locked"
  <2>1. Sound(history, v, before, p) /\ Locked(c, history, f, v, before, p)
    BY <1>3, <1>5, <1>11 DEF Kept, AllLocked
  <2>2. before # <<>> /\ entry.updates[p] = Head(before).updates[p]
    OBVIOUS
  <2> HIDE DEF v, before
  <2>3. Locked(c, longer, g, v, rest, p)
    BY <1>2, <1>10, <2>1, <2>2, LockedNumbered
  <2>4. ASSUME NEW d \in Clients \ {c} PROVE Locked(d, longer, g, views[d], sent2[d], p)
    <3>1. Touches(entry, p) => ~Ahead(views[d], sent[d], p)
      BY <1>5, <1>8, <1>11 DEF Kept, AllLocked, v, before
    <3>2. Sound(history, views[d], sent[d], p) /\ Locked(d, history, f, views[d], sent[d], p)
      BY <1>3, <1>5, <1>11 DEF Kept, AllLocked
    <3>3. Locked(d, longer, g, views[d], sent[d], p)
      BY <1>10, <3>1, <3>2, LockedGoesOn
    <3>4. QED
      BY <3>3
  <2>5. Ahead(v, rest, p) => Ahead(v, before, p)
    BY <1>2 DEF Ahead, Outgoing
  <2>6. sent2[c] = rest /\ views[c] = v /\ sent[c] = before
    BY DEF before, v
  <2> HIDE DEF rest, longer
  <2>7. AllLocked(p, longer, g, views, sent2)
    BY <1>5, <1>11, <2>3, <2>4, <2>5, <2>6 DEF Kept, AllLocked
  <2>8. QED
    BY <1>4, <1>10, <1>11, <2>7 DEF Together, Kept, longer
<1>12. CASE Discipline[p] # "locked"
  <2>1. Sound(history, v, before, p) /\ Settled(c, start, history, f, v, before, p)
    BY <1>3, <1>5, <1>12 DEF Kept, AllSettled
  <2>2. before # <<>> /\ entry.updates[p] = Head(before).updates[p]
    OBVIOUS
  <2> HIDE DEF v, before
  <2>3. Settled(c, start, longer, g, v, rest, p)
    BY <1>2, <1>10, <2>1, <2>2, SettledNumbered
  <2>4. ASSUME NEW d \in Clients \ {c} PROVE Settled(d, start, longer, g, views[d], sent2[d], p)
    <3>1. Sound(history, views[d], sent[d], p)
          /\ Settled(d, start, history, f, views[d], sent[d], p)
      BY <1>3, <1>5, <1>12 DEF Kept, AllSettled
    <3>2. Settled(d, start, longer, g, views[d], sent[d], p)
      BY <1>10, <3>1, SettledGoesOn
    <3>3. QED
      BY <3>2
  <2>5. AlikeAll(start, longer, g, p)
    <3>1. \A n \in 0..N : AlikeBut(FieldsOf[p], f[n], start)
      BY <1>5, <1>12 DEF Kept, AllSettled, AlikeAll
    <3>2. AlikeBut(FieldsOf[p], g[N + 1], start)
      <4>1. CASE Touches(entry, p)
        BY <1>1, <1>6, <1>7, <1>9, <1>10, <1>12, <3>1, <4>1, AlikeAfter DEF EditedWithCare, Touches
      <4>2. CASE ~Touches(entry, p)
        BY <1>1, <1>10, <3>1, <4>2 DEF After, Touches
      <4>3. QED
        BY <4>1, <4>2
    <3>3. QED
      BY <1>1, <1>10, <3>1, <3>2 DEF AlikeAll
  <2>6. sent2[c] = rest /\ views[c] = v
    BY DEF before, v
  <2> HIDE DEF rest, longer
  <2>7. AllSettled(p, start, longer, g, views, sent2)
    BY <2>3, <2>4, <2>5, <2>6 DEF AllSettled
  <2>8. QED
    BY <1>4, <1>10, <1>12, <2>7 DEF Together, Kept, longer
<1>13. QED
  BY <1>11, <1>12

\* What applying an update makes of a view, w being the view after it.
ViewApplied(c, p, update, v, w) ==
    /\ w.seen \in Specs /\ Visible(w.seen) = w.seen /\ w.masks \subseteq {p}
    /\ w.last = v.last + 1 /\ w.local = v.local
    /\ ~Touches(update, p) => w.seen = v.seen /\ w.masks = v.masks
    /\ Touches(update, p) /\ update.user = c => w.seen = v.seen /\ w.masks = {}
    /\ Touches(update, p) /\ update.user # c =>
          /\ w.masks = v.masks
          /\ v.seen # None /\ v.masks = {} => w.seen = After(v.seen, p, update.updates[p])
          /\ OneField(p) /\ v.seen # None /\ v.masks # {} => w.seen = v.seen

LEMMA TogetherApplied ==
    ASSUME NEW p, EditedWithCare(p), NEW history \in Seq(ServerDelta), NEW sent,
           NEW start \in Specs, Visible(start) = start,
           NEW views, Together(p, start, history, views, sent),
           NEW c \in Clients, views[c].last + 1 \in DOMAIN history,
           NEW after, \A d \in Clients \ {c} : after[d] = views[d],
           ViewApplied(c, p, history[views[c].last + 1], views[c], after[c])
    PROVE  Together(p, start, history, after, sent)
<1> DEFINE v == views[c]
           w == after[c]
<1>1. /\ w.seen \in Specs /\ Visible(w.seen) = w.seen /\ w.masks \subseteq {p}
      /\ w.last = v.last + 1 /\ w.local = v.local
      /\ ~Touches(history[w.last], p) => w.seen = v.seen /\ w.masks = v.masks
      /\ OwnEntry(c, history, w.last, p) => w.seen = v.seen /\ w.masks = {}
      /\ Touches(history[w.last], p) /\ history[w.last].user # c =>
            /\ w.masks = v.masks
            /\ v.seen # None /\ v.masks = {} =>
                  w.seen = After(v.seen, p, history[w.last].updates[p])
            /\ OneField(p) /\ v.seen # None /\ v.masks # {} => w.seen = v.seen
  BY DEF ViewApplied, OwnEntry
<1>2. Sound(history, v, sent[c], p)
  BY DEF Together
<1>3. Sound(history, w, sent[c], p)
  BY <1>1, <1>2 DEF Sound
<1>4. \A d \in Clients : Sound(history, after[d], sent[d], p)
  BY <1>3 DEF Together
<1>5. PICK f \in Links(history) :
          Chain(start, history, p, f) /\ Kept(p, start, history, f, views, sent)
  BY DEF Together
<1>6. v.last + 1 \in DOMAIN history
  OBVIOUS
<1> HIDE DEF v, w
<1>7. CASE Discipline[p] = "locked"
  <2>1. Locked(c, history, f, v, sent[c], p)
    BY <1>5, <1>7 DEF Kept, AllLocked, v
  <2>2. Locked(c, history, f, w, sent[c], p)
    BY <1>1, <1>2, <1>5, <1>6, <2>1, LockedApplies
  <2>3. \A d \in Clients : Ahead(after[d], sent[d], p) <=> Ahead(views[d], sent[d], p)
    BY <1>1 DEF Ahead, v, w
  <2>4. AllLocked(p, history, f, after, sent)
    BY <1>5, <1>7, <2>2, <2>3 DEF Kept, AllLocked, w
  <2>5. QED
    BY <1>4, <1>5, <1>7, <2>4 DEF Together, Kept
<1>8. CASE Discipline[p] # "locked"
  <2>1. Settled(c, start, history, f, v, sent[c], p) /\ AlikeAll(start, history, f, p) /\ OneField(p)
    BY <1>5, <1>8 DEF Kept, AllSettled, EditedWithCare, v
  <2>2. Settled(c, start, history, f, w, sent[c], p)
    BY <1>1, <1>2, <1>5, <1>6, <2>1, SettledApplies
  <2>3. AllSettled(p, start, history, f, after, sent)
    BY <1>5, <1>8, <2>2 DEF Kept, AllSettled, w
  <2>4. QED
    BY <1>4, <1>5, <1>8, <2>3 DEF Together, Kept
<1>9. QED
  BY <1>7, <1>8

(***************************************************************************)
(* The session.  Each of its steps is a step of one client for each path   *)
(* it touches, and leaves the views of the other paths alone.              *)
(***************************************************************************)
Outbox(c, l) == IF InLiveMode(c) THEN toServer[mWebsocketClient[c]][l] ELSE <<>>

Views(l, p) == [c \in Clients |-> ViewOf(data[c][l], p)]
Outboxes(l) == [c \in Clients |-> Outbox(c, l)]

Consistent ==
    \A l \in Layers, p \in Paths :
        Together(p, Visible(File[l][p]), mHistory[l], Views(l, p), Outboxes(l))

EveryPathWithCare == \A p \in Paths : EditedWithCare(p)

LEMMA ViewType ==
    ASSUME NEW d \in LayerState, NEW p \in Paths, NEW v, v = ViewOf(d, p)
    PROVE  /\ d.mData[p] \in Specs
           /\ v.seen \in Specs /\ Visible(v.seen) = v.seen /\ v.seen = Visible(d.mData[p])
           /\ v.local = d.mLocalDeltas[p]
           /\ v.masks \subseteq {p}
           /\ v.masks # {} <=> p \in d.mUnacknowledgedFields
           /\ v.last = d.mLatestAppliedSequence /\ v.last \in Nat
<1>1. d.mData[p] \in Specs /\ d.mLatestAppliedSequence \in Nat
  BY DEF LayerState, Contents, Specs
<1>2. Visible(d.mData[p]) \in Specs /\ Visible(Visible(d.mData[p])) = Visible(d.mData[p])
  BY <1>1, VisibleSpec
<1>3. QED
  BY <1>1, <1>2 DEF ViewOf

LEMMA FileVisible ==
    ASSUME NEW l \in Layers, NEW p \in Paths
    PROVE  /\ Visible(File[l][p]) \in Specs
           /\ Visible(Visible(File[l][p])) = Visible(File[l][p])
<1>1. File[l][p] \in Specs
  BY LiveClientAssumption DEF Contents, Specs
<1>2. QED
  BY <1>1, VisibleSpec

LEMMA OutboxType ==
    ASSUME TypeInv, NEW c \in Clients, NEW l \in Layers
    PROVE  Outbox(c, l) \in Seq(ClientEvent)
BY DEF Outbox, InLiveMode, TypeInv, TypeOK, WireTypeOK, ClientTypeOK

LEMMA ConsistentInit ==
    ASSUME EveryPathWithCare, Init
    PROVE  Consistent
<1> SUFFICES ASSUME NEW l \in Layers, NEW p \in Paths
             PROVE  Together(p, Visible(File[l][p]), mHistory[l], Views(l, p), Outboxes(l))
  BY DEF Consistent
<1> DEFINE start == Visible(File[l][p])
           views == Views(l, p)
           sent == Outboxes(l)
           history == mHistory[l]
           none == <<>>
<1>1. history = none /\ Len(none) = 0 /\ DOMAIN none = {} /\ none \in Seq(Specs)
      /\ \A n \in 0..Len(none) : n = 0
  BY DEF Init, ServerInit, Silent
<1>2. start \in Specs /\ Visible(start) = start
  BY FileVisible
<1>3. ASSUME NEW c \in Clients
      PROVE  /\ sent[c] = none
             /\ views[c].seen = start /\ views[c].local = None /\ views[c].masks = {}
             /\ views[c].last = 0
  <2>1. data[c][l] = OnLoaded(File[l]) /\ ~InLiveMode(c)
    BY <1>3 DEF Init, ClientInit, InLiveMode
  <2>2. ViewOf(OnLoaded(File[l]), p) = [seen |-> start, local |-> None, masks |-> {}, last |-> 0]
    BY DEF ViewOf, OnLoaded, NoUpdates
  <2>3. views[c] = [seen |-> start, local |-> None, masks |-> {}, last |-> 0]
    BY <2>1, <2>2 DEF Views
  <2>4. sent[c] = none
    BY <2>1 DEF Outboxes, Outbox
  <2>5. QED
    BY <2>3, <2>4
<1> HIDE DEF start, views, sent, history, none
<1>4. ~Outgoing(none, p)
  BY <1>1 DEF Outgoing
<1>5. PICK f \in Links(none) :
          Chain(start, none, p, f) /\ \A n \in 0..Len(none) : f[n] = start
  <2>1. none \in Seq(Specs)
    BY <1>1
  <2>2. QED
    BY ONLY <1>2, <1>4, <2>1, ChainOfNothing
<1>6. f[0] = start
  BY <1>1, <1>5
<1>7. ASSUME NEW c \in Clients
      PROVE  /\ ~Ahead(views[c], sent[c], p)
             /\ Later(none, views[c]) = {}
             /\ Sound(none, views[c], sent[c], p)
  <2>1. ~Ahead(views[c], sent[c], p)
    BY <1>3, <1>4 DEF Ahead
  <2>2. Later(none, views[c]) = {}
    BY <1>1, <1>3 DEF Later
  <2>3. Sound(none, views[c], sent[c], p)
    BY <1>1, <1>2, <1>3 DEF Sound, Recorded
  <2>4. QED
    BY <2>1, <2>2, <2>3
<1>8. CASE Discipline[p] = "locked"
  <2>1. ASSUME NEW c \in Clients
        PROVE  Locked(c, none, f, views[c], sent[c], p)
    <3>1. LockHeld(c, none, views[c], sent[c], p)
      BY <1>3, <1>7 DEF LockHeld
    <3>2. SeesHistory(c, none, f, views[c], p)
      BY <1>1, <1>3, <1>6 DEF SeesHistory
    <3>3. QED
      BY <1>7, <3>1, <3>2 DEF Locked
  <2>2. AllLocked(p, none, f, views, sent)
    BY <1>7, <2>1 DEF AllLocked
  <2>3. Kept(p, start, none, f, views, sent)
    BY <1>8, <2>2 DEF Kept
  <2>4. QED
    BY <1>1, <1>5, <1>7, <2>3 DEF Together, start, views, sent, history
<1>9. CASE Discipline[p] # "locked"
  <2>1. ASSUME NEW c \in Clients
        PROVE  Settled(c, start, none, f, views[c], sent[c], p)
    <3>1. OneEdit(c, none, views[c], sent[c], p)
      BY <1>1, <1>3, <1>7 DEF OneEdit
    <3>2. SeesItsEdit(c, start, none, views[c], sent[c], p)
      BY <1>1, <1>3, <1>7 DEF SeesItsEdit, SeesEdit
    <3>3. QED
      BY <1>3, <1>6, <3>1, <3>2, AlikeSelf DEF Settled
  <2>2. AlikeAll(start, none, f, p)
    BY <1>5, AlikeSelf DEF AlikeAll
  <2>3. Kept(p, start, none, f, views, sent)
    BY <1>9, <2>1, <2>2 DEF Kept, AllSettled
  <2>4. QED
    BY <1>1, <1>5, <1>7, <2>3 DEF Together, start, views, sent, history
<1>10. QED
  BY <1>8, <1>9

\* What changes neither the history nor what a client sees of it.
LEMMA ConsistentKept ==
    ASSUME Consistent, mHistory' = mHistory, data' = data,
           \A c \in Clients, l \in Layers : Outbox(c, l)' = Outbox(c, l)
    PROVE  Consistent'
<1>1. \A l \in Layers, p \in Paths : Views(l, p)' = Views(l, p)
  BY DEF Views
<1>2. \A l \in Layers : Outboxes(l)' = Outboxes(l)
  BY DEF Outboxes
<1>3. QED
  BY <1>1, <1>2 DEF Consistent

LEMMA ConsistentJoin ==
    ASSUME NobodyReloadsOrLeaves, TypeInv, Connections, Consistent,
           NEW c \in Clients, NEW s \in Sessions, Join(c, s)
    PROVE  Consistent'
<1>1. /\ UNCHANGED <<mHistory, data, toServer>>
      /\ mWebsocketClient' = [mWebsocketClient EXCEPT ![c] = s]
      /\ link[s] = "new" /\ ~IsConnected(c)
      /\ mWebsocketClient \in [Clients -> Sessions \cup {NoSession}]
  BY DEF Join, OnConnected, ClientOnConnected, TypeInv, TypeOK, ClientTypeOK
<1>2. ~InLiveMode(c)
  BY <1>1 DEF Connections, StayConnected, Steady, NobodyReloadsOrLeaves, IsConnected
<1>3. \A l \in Layers : toServer[s][l] = <<>>
  BY <1>1 DEF Connections, FreshSessions
<1>4. \A e \in Clients, l \in Layers : Outbox(e, l)' = Outbox(e, l)
  BY <1>1, <1>2, <1>3 DEF Outbox, InLiveMode
<1>5. QED
  BY <1>1, <1>4, ConsistentKept

\* What the sessions of a client carry is in its outbox, and of deltas only.
LEMMA NothingUnnumbered ==
    ASSUME NobodyReloadsOrLeaves, TypeInv, Delivery, Connections,
           NEW c \in Clients, NEW l \in Layers, NEW p \in Paths, ~Unnumbered(c, l, p)
    PROVE  ~Ahead(ViewOf(data[c][l], p), Outbox(c, l), p)
<1>1. data[c][l].mLocalDeltas[p] = None
  BY DEF Unnumbered, PathsOf
<1>2. ~Outgoing(Outbox(c, l), p)
  <2>1. CASE InLiveMode(c)
    <3> DEFINE s == mWebsocketClient[c]
    <3>1. s \in Sessions /\ ClientOf[s] = c
      BY <2>1 DEF Delivery, OwnSessions, InLiveMode, TypeInv, TypeOK, ClientTypeOK
    <3>2. s \in SessionsOf(c)
      BY <3>1 DEF SessionsOf
    <3>3. \A i \in DOMAIN toServer[s][l] : toServer[s][l][i].type = "Delta"
      <4>1. toServer[s][l] \in Seq(ClientEvent)
        BY <3>1 DEF TypeInv, TypeOK, WireTypeOK
      <4>2. \A i \in DOMAIN toServer[s][l] : toServer[s][l][i] \in ClientEvent
        BY <4>1
      <4>3. \A i \in DOMAIN toServer[s][l] : ~IsReload(toServer[s][l][i])
        BY <3>1 DEF Connections, OnlyReloadersReload, NobodyReloadsOrLeaves
      <4>4. QED
        BY <4>2, <4>3 DEF ClientEvent, IsReload
    <3>4. \A i \in DOMAIN toServer[s][l] : p \notin PathsOf(toServer[s][l][i].updates)
      BY <3>2, <3>3 DEF Unnumbered
    <3>5. QED
      BY <2>1, <3>4 DEF Outgoing, Outbox, Touches, PathsOf
  <2>2. CASE ~InLiveMode(c)
    BY <2>2 DEF Outgoing, Outbox
  <2>3. QED
    BY <2>1, <2>2
<1>3. QED
  BY <1>1, <1>2 DEF Ahead, ViewOf

LEMMA ConsistentHostEdits ==
    ASSUME NobodyReloadsOrLeaves, EveryPathWithCare, TypeInv, Delivery, Connections, Consistent,
           NEW c \in Clients, NEW l \in Layers, HostEdits(c, l)
    PROVE  Consistent'
<1>1. PICK p \in Paths : \E k \in FieldsOf[p] :
          /\ Visible(data[c][l].mData[p]) # None
          /\ MayEdit(c, l, p)
          /\ \E v \in Inputs(data[c][l].mData[p][k], k) : Edit(c, l, p, k, v)
  BY DEF HostEdits
<1>2. PICK k \in FieldsOf[p] :
          /\ Visible(data[c][l].mData[p]) # None
          /\ MayEdit(c, l, p)
          /\ \E v \in Inputs(data[c][l].mData[p][k], k) : Edit(c, l, p, k, v)
  BY <1>1
<1>3. PICK v \in Inputs(data[c][l].mData[p][k], k) : Edit(c, l, p, k, v)
  BY <1>2
<1> DEFINE d == data[c][l]
           after == Set(d, p, k, v)
<1>4. k \in Keys /\ edits \in Nat
  BY LiveSessionAssumption DEF TypeInv, TypeOK
<1>5. /\ data \in [Clients -> [Layers -> LayerState]]
      /\ d \in LayerState /\ HasSpec(d, p)
      /\ data' = [data EXCEPT ![c][l] = after]
      /\ UNCHANGED <<mHistory, toServer, mWebsocketClient>>
  <2>1. UNCHANGED <<wireVars, serverVars, mWebsocketClient>>
    BY EditOf
  <2>2. data \in [Clients -> [Layers -> LayerState]]
    BY DEF TypeInv, TypeOK, ClientTypeOK
  <2>3. HasSpec(d, p) /\ data' = [data EXCEPT ![c][l] = after]
    BY <1>3 DEF Edit
  <2>4. QED
    BY <2>1, <2>2, <2>3 DEF serverVars, wireVars
<1>6. d.mData[p][k] \in Value
  BY <1>4, <1>5 DEF HasSpec, LayerState, Contents, SpecData
<1>7. v \in Value
  BY <1>4, <1>6, InputsType
<1>8. /\ after.mData = [d.mData EXCEPT ![p] = [d.mData[p] EXCEPT ![k] = v]]
      /\ after.mLocalDeltas = [d.mLocalDeltas EXCEPT ![p] = RecordedFields(d.mLocalDeltas, p, k, v)]
      /\ after.mUnacknowledgedFields =
            IF IsNewField(d.mLocalDeltas, p, k) THEN d.mUnacknowledgedFields \cup {p}
            ELSE d.mUnacknowledgedFields
      /\ after.mLatestAppliedSequence = d.mLatestAppliedSequence
      /\ d.mData \in [Paths -> SpecData \cup {None}]
      /\ d.mLocalDeltas \in Table
      /\ d.mUnacknowledgedFields \subseteq Paths
  BY <1>5 DEF Set, LayerState, Contents
<1>9. after \in LayerState
  BY <1>4, <1>5, <1>7, SetType
<1> HIDE DEF after, d
<1>10. \A e \in Clients, m \in Layers : ~(e = c /\ m = l) => data'[e][m] = data[e][m]
  BY <1>5 DEF d
<1>11. data'[c][l] = after
  BY <1>5
<1>12. \A e \in Clients, m \in Layers : Outbox(e, m)' = Outbox(e, m)
  BY <1>5 DEF Outbox, InLiveMode
<1>13. \A m \in Layers : Outboxes(m)' = Outboxes(m)
  BY <1>12 DEF Outboxes
<1>14. \A q \in Paths \ {p} : ViewOf(after, q) = ViewOf(d, q)
  <2> SUFFICES ASSUME NEW q \in Paths \ {p} PROVE ViewOf(after, q) = ViewOf(d, q)
    OBVIOUS
  <2>1. after.mData[q] = d.mData[q] /\ after.mLocalDeltas[q] = d.mLocalDeltas[q]
    BY <1>8 DEF Table
  <2>2. after.mUnacknowledgedFields \cap {q} = d.mUnacknowledgedFields \cap {q}
    BY <1>8
  <2>3. QED
    BY <1>8, <2>1, <2>2 DEF ViewOf
<1>15. ASSUME NEW m \in Layers, NEW q \in Paths, ~(m = l /\ q = p)
       PROVE  Views(m, q)' = Views(m, q)
  <2>1. \A e \in Clients : ViewOf(data'[e][m], q) = ViewOf(data[e][m], q)
    BY <1>10, <1>11, <1>14, <1>15 DEF d
  <2>2. QED
    BY <2>1 DEF Views
<1> DEFINE start == Visible(File[l][p])
           history == mHistory[l]
           views == Views(l, p)
           views2 == Views(l, p)'
           sent == Outboxes(l)
<1>16. Together(p, start, history, views, sent)
  BY DEF Consistent
<1>17. /\ views[c] = ViewOf(d, p) /\ views2[c] = ViewOf(after, p)
       /\ \A e \in Clients \ {c} : views2[e] = views[e]
       /\ \A e \in Clients : views[e] = ViewOf(data[e][l], p) /\ sent[e] = Outbox(e, l)
  BY <1>10, <1>11 DEF Views, d, Outboxes
<1>18. history \in Seq(ServerDelta) /\ sent[c] \in Seq(ClientEvent)
  BY <1>17, OutboxType DEF TypeInv, TypeOK, ServerTypeOK
<1>19. /\ d.mData[p] \in Specs
       /\ views[c].seen = Visible(d.mData[p]) /\ views[c].local = d.mLocalDeltas[p]
       /\ views[c].masks # {} <=> p \in d.mUnacknowledgedFields
       /\ views[c].last = d.mLatestAppliedSequence
  BY <1>5, <1>17, ViewType DEF d
<1>20. /\ views2[c].seen \in Specs /\ Visible(views2[c].seen) = views2[c].seen
       /\ views2[c].seen = Visible([d.mData[p] EXCEPT ![k] = v])
       /\ views2[c].local = RecordedFields(d.mLocalDeltas, p, k, v)
       /\ views2[c].masks \subseteq {p}
       /\ views2[c].masks # {} <=> p \in after.mUnacknowledgedFields
       /\ views2[c].last = d.mLatestAppliedSequence
  <2>1. after.mData[p] = [d.mData[p] EXCEPT ![k] = v]
        /\ after.mLocalDeltas[p] = RecordedFields(d.mLocalDeltas, p, k, v)
    BY <1>8 DEF Table
  <2> DEFINE w == ViewOf(after, p)
  <2>2. w = ViewOf(after, p)
    OBVIOUS
  <2> HIDE DEF w
  <2>3. /\ w.seen \in Specs /\ Visible(w.seen) = w.seen /\ w.seen = Visible(after.mData[p])
        /\ w.local = after.mLocalDeltas[p]
        /\ w.masks \subseteq {p}
        /\ w.masks # {} <=> p \in after.mUnacknowledgedFields
        /\ w.last = after.mLatestAppliedSequence
    BY <1>9, <2>2, ViewType
  <2>4. views2[c] = w
    BY <1>17, <2>2
  <2> HIDE DEF views2
  <2>5. QED
    BY <1>8, <2>1, <2>3, <2>4
<1>21. Recorded(p, d.mLocalDeltas[p])
  BY <1>16, <1>19 DEF Together, Sound
<1>22. Recorded(p, views2[c].local) /\ views2[c].local # None
  BY <1>4, <1>7, <1>20, <1>21, EditRecorded
<1>23. \A spec \in SpecData : views[c].seen = After(spec, p, views[c].local)
                              => views2[c].seen = After(spec, p, views2[c].local)
  <2> SUFFICES ASSUME NEW spec \in SpecData, views[c].seen = After(spec, p, views[c].local)
               PROVE  views2[c].seen = After(spec, p, views2[c].local)
    OBVIOUS
  <2> DEFINE own == d.mData[p]
             table == d.mLocalDeltas
  <2>1. /\ own \in Specs /\ Visible(own) # None /\ Recorded(p, table[p])
        /\ Visible(own) = After(spec, p, table[p])
    BY <1>2, <1>19, <1>21 DEF d
  <2> HIDE DEF own, table
  <2>2. Visible([own EXCEPT ![k] = v]) = After(spec, p, RecordedFields(table, p, k, v))
    BY <1>4, <1>7, <2>1, EditSeen
  <2>3. QED
    BY <1>20, <2>2 DEF own, table
<1>24. views[c].local = None \/ views[c].masks # {} => views2[c].masks # {}
  BY <1>8, <1>19, <1>20 DEF IsNewField
<1>25. Free(c, history, views, sent, p)
  <2>1. CASE Discipline[p] = "locked"
    <3>1. /\ \A e \in Clients \ {c} : ~Unnumbered(e, l, p)
          /\ \A n \in DOMAIN history :
                 n > d.mLatestAppliedSequence /\ history[n].user # c
                 => p \notin PathsOf(history[n].updates)
      BY <1>2, <2>1 DEF MayEdit, d
    <3>2. \A e \in Clients \ {c} : ~Ahead(views[e], sent[e], p)
      BY <1>17, <3>1, NothingUnnumbered
    <3>3. \A n \in Later(history, views[c]) :
              n \in DOMAIN history /\ n > d.mLatestAppliedSequence
      BY <1>5, <1>18, <1>19 DEF Later, LayerState
    <3>4. QED
      BY <2>1, <3>1, <3>2, <3>3 DEF Free, Touches, PathsOf
  <2>2. CASE Discipline[p] # "locked"
    <3>1. Discipline[p] = "settled"
      BY <2>2 DEF EveryPathWithCare, EditedWithCare
    <3>2. p \notin d.mUnacknowledgedFields \/ p \in PathsOf(d.mLocalDeltas)
      BY <1>2, <3>1 DEF MayEdit, d
    <3>3. QED
      BY <1>19, <2>2, <3>2 DEF Free, PathsOf
  <2>3. QED
    BY <2>1, <2>2
<1>26. /\ start \in Specs /\ Visible(start) = start
       /\ EditedWithCare(p) /\ views[c].seen # None /\ views2[c].last = views[c].last
  BY <1>2, <1>19, <1>20, FileVisible DEF EveryPathWithCare, d
<1>27. Together(p, start, history, views2, sent)
  <2> HIDE DEF start, history, views, views2, sent
  <2>1. /\ \A e \in Clients \ {c} : views2[e] = views[e]
        /\ views2[c].seen \in Specs /\ Visible(views2[c].seen) = views2[c].seen
        /\ views2[c].masks \subseteq {p}
    BY <1>17, <1>20
  <2>2. QED
    BY ONLY <1>16, <1>18, <1>22, <1>23, <1>24, <1>25, <1>26, <2>1, TogetherEdit
<1>28. QED
  BY <1>5, <1>13, <1>15, <1>27 DEF Consistent

\* What AccumulateRemoteUpdate leaves alone.
LEMMA AccumulateLeaves ==
    ASSUME NEW d \in LayerState, NEW updates, NEW after, after = AccumulateRemoteUpdates(d, updates)
    PROVE  /\ after.mData = d.mData /\ after.mLocalDeltas = d.mLocalDeltas
           /\ after.mUnacknowledgedFields = d.mUnacknowledgedFields
           /\ after.mLatestAppliedSequence = d.mLatestAppliedSequence
BY DEF AccumulateRemoteUpdates, LayerState

\* What a client sees after a tick: the same, with its edits sent.
LEMMA TickView ==
    ASSUME TypeInv, Connections, Telling, NEW c \in Clients, NEW l \in Layers,
           NEW d, d = data[c][l], NEW after, after = Accumulated(c, l)
    PROVE  /\ after.mData = d.mData
           /\ after.mLocalDeltas = NoUpdates
           /\ after.mUnacknowledgedFields = d.mUnacknowledgedFields
           /\ after.mLatestAppliedSequence = d.mLatestAppliedSequence
           /\ DeltaEvents(c, l) = IF d.mLocalDeltas # NoUpdates /\ Sendable(d.mLocalDeltas)
                                  THEN <<[type |-> "Delta", updates |-> d.mLocalDeltas]>>
                                  ELSE <<>>
<1>1. /\ d \in LayerState
      /\ mAccumulatedDeltas[c][l] \in Seq(ServerDelta)
      /\ mAccumulatedAcknowledges[c][l] \in Seq(Acknowledge)
      /\ Reloaded(c, l) = d
  BY DEF TypeInv, TypeOK, ClientTypeOK, Telling, Reloaded
<1>2. CASE l \in mLayerRegistry[c]
  <2> DEFINE fetched == FetchLocalDeltas(d)
             acknowledged == AccumulateRemoteUpdates(fetched, mAccumulatedAcknowledges[c][l])
  <2>1. /\ fetched \in LayerState /\ fetched.mLocalDeltas = NoUpdates
        /\ fetched.mData = d.mData
        /\ fetched.mUnacknowledgedFields = d.mUnacknowledgedFields
        /\ fetched.mLatestAppliedSequence = d.mLatestAppliedSequence
    BY <1>1, FetchLocalDeltasType DEF FetchLocalDeltas, LayerState
  <2>2. after = AccumulateRemoteUpdates(acknowledged, mAccumulatedDeltas[c][l])
    BY <1>1, <1>2 DEF Accumulated
  <2> HIDE DEF fetched
  <2>3. acknowledged \in LayerState
    <3>1. mAccumulatedAcknowledges[c][l] \in Seq(ServerDelta \cup Acknowledge)
      BY <1>1, SeqOfSubset
    <3>2. QED
      BY <2>1, <3>1, AccumulateRemoteUpdatesType
  <2>4. /\ acknowledged.mData = fetched.mData
        /\ acknowledged.mLocalDeltas = fetched.mLocalDeltas
        /\ acknowledged.mUnacknowledgedFields = fetched.mUnacknowledgedFields
        /\ acknowledged.mLatestAppliedSequence = fetched.mLatestAppliedSequence
    BY <2>1, AccumulateLeaves
  <2> HIDE DEF acknowledged
  <2>5. DeltaEvents(c, l) = IF d.mLocalDeltas # NoUpdates /\ Sendable(d.mLocalDeltas)
                            THEN <<[type |-> "Delta", updates |-> d.mLocalDeltas]>>
                            ELSE <<>>
    BY <1>1, <1>2 DEF DeltaEvents, Sendable
  <2>6. QED
    BY <2>1, <2>2, <2>3, <2>4, <2>5, AccumulateLeaves
<1>3. CASE l \notin mLayerRegistry[c]
  <2>1. d = OnLoaded(File[l])
    BY <1>3 DEF Connections, Untouched
  <2>2. d.mLocalDeltas = NoUpdates
    BY <2>1 DEF OnLoaded
  <2>3. after = d /\ DeltaEvents(c, l) = <<>>
    BY <1>3 DEF Accumulated, DeltaEvents
  <2>4. QED
    BY <2>2, <2>3
<1>4. QED
  BY <1>2, <1>3

LEMMA ConsistentHostTicks ==
    ASSUME NobodyReloadsOrLeaves, TypeInv, Delivery, Connections, Telling, EditsSendable,
           Consistent, NEW c \in Clients, HostTicks(c)
    PROVE  Consistent'
<1>1. /\ InLiveMode(c)
      /\ UNCHANGED <<mHistory, mWebsocketClient>>
      /\ data' = [data EXCEPT ![c] = [l \in Layers |-> Accumulated(c, l)]]
      /\ Send(c, [l \in Layers |-> DeltaEvents(c, l)])
      /\ data \in [Clients -> [Layers -> LayerState]]
      /\ WireTypeOK /\ ClientTypeOK
  BY DEF HostTicks, Tick, serverVars, TypeInv, TypeOK, ClientTypeOK
<1>2. c \in Steady /\ IsConnected(c) /\ mWebsocketClient[c] \in Sessions
  <2>1. c \in Steady
    BY DEF Steady, NobodyReloadsOrLeaves
  <2>2. QED
    BY <1>1, <2>1, SteadyLive
<1>3. \A l \in Layers : DeltaEvents(c, l) \in Seq(ClientEvent)
  BY DeltaEventsType DEF TypeInv, TypeOK
<1>4. \A s \in Sessions, l \in Layers :
          toServer'[s][l] = IF s = mWebsocketClient[c] THEN toServer[s][l] \o DeltaEvents(c, l)
                            ELSE toServer[s][l]
  <2> DEFINE to == [l \in Layers |-> DeltaEvents(c, l)]
  <2>1. to \in [Layers -> Seq(ClientEvent)] /\ \A l \in Layers : to[l] = DeltaEvents(c, l)
    BY <1>3
  <2>2. Send(c, to)
    BY <1>1
  <2> HIDE DEF to
  <2>3. ASSUME NEW s \in Sessions, NEW l \in Layers
        PROVE  toServer'[s][l] = IF IsConnected(c) /\ s = mWebsocketClient[c]
                                 THEN toServer[s][l] \o to[l] ELSE toServer[s][l]
    BY ONLY <1>1, <2>1, <2>2, c \in Clients, s \in Sessions, l \in Layers, SentBehind
  <2>4. QED
    BY <1>2, <2>1, <2>3
<1>5. ASSUME NEW l \in Layers
      PROVE  /\ Outbox(c, l)' = Outbox(c, l) \o DeltaEvents(c, l)
             /\ \A e \in Clients \ {c} : Outbox(e, l)' = Outbox(e, l)
  <2>1. Outbox(c, l)' = Outbox(c, l) \o DeltaEvents(c, l)
    BY <1>1, <1>2, <1>4 DEF Outbox, InLiveMode
  <2>2. ASSUME NEW e \in Clients \ {c}, InLiveMode(e)
        PROVE  mWebsocketClient[e] \in Sessions /\ mWebsocketClient[e] # mWebsocketClient[c]
    BY <1>1, <2>2 DEF Delivery, OwnSessions, InLiveMode, ClientTypeOK
  <2>3. ASSUME NEW e \in Clients \ {c} PROVE Outbox(e, l)' = Outbox(e, l)
    <3>1. CASE InLiveMode(e)
      <4>1. toServer'[mWebsocketClient[e]][l] = toServer[mWebsocketClient[e]][l]
        BY <1>4, <2>2, <3>1
      <4>2. QED
        BY <1>1, <4>1 DEF Outbox, InLiveMode
    <3>2. CASE ~InLiveMode(e)
      BY <1>1, <3>2 DEF Outbox, InLiveMode
    <3>3. QED
      BY <3>1, <3>2
  <2>4. QED
    BY <2>1, <2>3
<1> SUFFICES ASSUME NEW l \in Layers, NEW p \in Paths
             PROVE  Together(p, Visible(File[l][p]), mHistory[l], Views(l, p)', Outboxes(l)')
  BY <1>1 DEF Consistent
<1> DEFINE d == data[c][l]
           after == Accumulated(c, l)
           start == Visible(File[l][p])
           history == mHistory[l]
           views == Views(l, p)
           views2 == Views(l, p)'
           sent == Outboxes(l)
           sent2 == Outboxes(l)'
           event == [type |-> "Delta", updates |-> d.mLocalDeltas]
<1>6. Together(p, start, history, views, sent)
  BY DEF Consistent
<1>7. /\ views[c] = ViewOf(d, p) /\ views2[c] = ViewOf(after, p)
      /\ \A e \in Clients \ {c} : views2[e] = views[e]
      /\ \A e \in Clients : sent[e] = Outbox(e, l) /\ sent2[e] = Outbox(e, l)'
  BY <1>1 DEF Views, Outboxes
<1>8. /\ after.mData = d.mData
      /\ after.mLocalDeltas = NoUpdates
      /\ after.mUnacknowledgedFields = d.mUnacknowledgedFields
      /\ after.mLatestAppliedSequence = d.mLatestAppliedSequence
      /\ DeltaEvents(c, l) = IF d.mLocalDeltas # NoUpdates THEN <<event>> ELSE <<>>
  <2>1. Sendable(d.mLocalDeltas)
    BY DEF EditsSendable
  <2>2. QED
    BY <2>1, TickView
<1>9. history \in Seq(ServerDelta) /\ sent[c] \in Seq(ClientEvent)
  BY <1>7, OutboxType DEF TypeInv, TypeOK, ServerTypeOK
<1>10. /\ views2[c].local = None /\ views2[c].seen = views[c].seen
       /\ views2[c].masks = views[c].masks /\ views2[c].last = views[c].last
       /\ views[c].local = d.mLocalDeltas[p]
  <2>1. NoUpdates[p] = None
    BY DEF NoUpdates
  <2>2. QED
    BY <1>7, <1>8, <2>1 DEF ViewOf
<1>11. CASE d.mLocalDeltas = NoUpdates
  <2>1. ViewOf(after, p) = ViewOf(d, p)
    BY <1>8, <1>11 DEF ViewOf
  <2>2. Views(l, p)' = Views(l, p)
    <3>1. \A e \in Clients : ViewOf(data'[e][l], p) = ViewOf(data[e][l], p)
      BY <1>1, <2>1
    <3>2. QED
      BY <3>1 DEF Views
  <2>3. Outbox(c, l)' = Outbox(c, l)
    BY <1>5, <1>7, <1>8, <1>9, <1>11
  <2>4. Outboxes(l)' = Outboxes(l)
    BY <1>5, <2>3 DEF Outboxes
  <2>5. QED
    BY <1>6, <2>2, <2>4
<1>12. CASE d.mLocalDeltas # NoUpdates
  <2>1. sent2[c] = Append(sent[c], event)
    <3>1. DeltaEvents(c, l) = <<event>>
      BY <1>8, <1>12
    <3>2. sent2[c] = sent[c] \o <<event>>
      BY <1>5, <1>7, <3>1
    <3> HIDE DEF event, sent, sent2
    <3>3. QED
      BY <1>9, <3>2
  <2>2. event.updates[p] = views[c].local
    BY <1>10
  <2>3. \A e \in Clients \ {c} : views2[e] = views[e]
    BY <1>7
  <2>4. \A e \in Clients \ {c} : sent2[e] = sent[e]
    BY <1>5, <1>7
  <2> HIDE DEF start, history, views, views2, sent, sent2, event, d, after
  <2>5. Together(p, start, history, views2, sent2)
    BY ONLY <1>6, <1>9, <1>10, <2>1, <2>2, <2>3, <2>4, TogetherFlush
  <2>6. QED
    BY <2>5 DEF start, history, views2, sent2
<1>13. QED
  BY <1>11, <1>12

LEMMA ConsistentDelta ==
    ASSUME NobodyReloadsOrLeaves, EveryPathWithCare, TypeInv, Delivery, Connections, Consistent,
           NEW s \in Sessions, NEW l \in Layers, OnDeltaEvent(s, l), UNCHANGED clientVars
    PROVE  Consistent'
<1> DEFINE c == ClientOf[s]
           updates == Head(toServer[s][l]).updates
           entry == [type |-> "Delta", user |-> c, updates |-> updates,
                     sequence |-> GetSequenceNumber(l), epoch |-> epoch[l]]
<1>1. /\ s \in serverUp /\ toServer[s][l] # <<>>
      /\ toServer' = [toServer EXCEPT ![s][l] = Tail(@)]
      /\ UNCHANGED <<data, mWebsocketClient>>
      /\ toServer \in [Sessions -> [Layers -> Seq(ClientEvent)]]
      /\ mHistory \in [Layers -> Seq(ServerDelta)]
      /\ mWebsocketClient \in [Clients -> Sessions \cup {NoSession}]
  BY DEF OnDeltaEvent, TakeFromClient, clientVars, TypeInv, TypeOK, WireTypeOK, ServerTypeOK,
         ClientTypeOK
<1>2. c \in Clients /\ s \in SessionsOf(c) /\ c \in Steady
  BY LiveWireAssumption DEF SessionsOf, Steady, NobodyReloadsOrLeaves
<1>3. mWebsocketClient[c] = s /\ InLiveMode(c)
  BY <1>1, <1>2, LiveClientAssumption DEF Connections, OneSession, InLiveMode
<1>4. ChannelExists
  BY <1>2, <1>3 DEF Connections, StayConnected, ChannelExists
<1>5. mHistory' = [mHistory EXCEPT ![l] = Append(@, entry)]
  BY <1>4 DEF OnDeltaEvent
<1> HIDE DEF c
<1>6. ASSUME NEW e \in Clients, NEW m \in Layers, ~(e = c /\ m = l)
      PROVE  Outbox(e, m)' = Outbox(e, m)
  <2>1. CASE InLiveMode(e)
    <3>1. mWebsocketClient[e] \in Sessions /\ ClientOf[mWebsocketClient[e]] = e
      BY <1>1, <2>1 DEF Delivery, OwnSessions, InLiveMode
    <3>2. ~(mWebsocketClient[e] = s /\ m = l)
      BY <1>6, <3>1 DEF c
    <3>3. toServer'[mWebsocketClient[e]][m] = toServer[mWebsocketClient[e]][m]
      BY <1>1, <3>1, <3>2
    <3>4. QED
      BY <1>1, <3>3 DEF Outbox, InLiveMode
  <2>2. CASE ~InLiveMode(e)
    BY <1>1, <2>2 DEF Outbox, InLiveMode
  <2>3. QED
    BY <2>1, <2>2
<1>7. Outbox(c, l) = toServer[s][l] /\ Outbox(c, l)' = Tail(toServer[s][l])
  <2>1. toServer'[s][l] = Tail(toServer[s][l])
    BY <1>1
  <2>2. QED
    BY <1>1, <1>2, <1>3, <2>1 DEF Outbox, InLiveMode
<1> SUFFICES ASSUME NEW m \in Layers, NEW p \in Paths
             PROVE  Together(p, Visible(File[m][p]), mHistory'[m], Views(m, p), Outboxes(m)')
  BY <1>1 DEF Consistent, Views
<1>8. CASE m # l
  <2>1. Outboxes(m)' = Outboxes(m)
    BY <1>6, <1>8 DEF Outboxes
  <2>2. mHistory'[m] = mHistory[m]
    BY <1>1, <1>5, <1>8
  <2>3. QED
    BY <2>1, <2>2 DEF Consistent
<1>9. CASE m = l
  <2> DEFINE start == Visible(File[l][p])
             history == mHistory[l]
             views == Views(l, p)
             sent == Outboxes(l)
             sent2 == Outboxes(l)'
  <2>1. Together(p, start, history, views, sent) /\ EditedWithCare(p)
    BY DEF Consistent, EveryPathWithCare
  <2>2. \A e \in Clients : sent[e] = Outbox(e, l) /\ sent2[e] = Outbox(e, l)'
    BY DEF Outboxes
  <2>3. \A e \in Clients \ {c} : sent2[e] = sent[e]
    BY <1>6, <2>2
  <2>4. /\ sent[c] \in Seq(ClientEvent) /\ sent[c] # <<>>
        /\ sent2[c] = Tail(sent[c])
        /\ Head(sent[c]).updates = updates
    <3>1. sent[c] = toServer[s][l] /\ sent2[c] = Tail(toServer[s][l])
      <4> HIDE DEF sent, sent2
      <4>1. QED
        BY <1>2, <1>7, <2>2
    <3> HIDE DEF sent, sent2
    <3>2. toServer[s][l] \in Seq(ClientEvent)
      BY <1>1
    <3>3. QED
      BY <1>1, <3>1, <3>2
  <2>5. entry.user = c /\ entry.updates[p] = Head(sent[c]).updates[p]
    BY <2>4
  <2>6. history \in Seq(ServerDelta) /\ mHistory'[l] = Append(history, entry)
    BY <1>1, <1>5
  <2>7. start \in Specs /\ Visible(start) = start
    BY FileVisible
  <2> HIDE DEF start, history, views, sent, sent2, entry, updates
  <2>8. Together(p, start, Append(history, entry), views, sent2)
    BY ONLY <1>2, <2>1, <2>3, <2>4, <2>5, <2>6, <2>7, TogetherNumbered
  <2>9. QED
    BY <1>9, <2>6, <2>8 DEF start, history, views, sent2
<1>10. QED
  BY <1>8, <1>9

\* What one turn of the loop makes of a path.
LEMMA ApplyView ==
    ASSUME NEW d \in LayerState, HasNextUpdate(d), NEW p \in Paths,
           NEW after, after = ApplyNextUpdate(d)
    PROVE  \E u \in d.mRemoteDeltasQueue :
               /\ u.sequence = d.mLatestAppliedSequence + 1
               /\ after.mLatestAppliedSequence = d.mLatestAppliedSequence + 1
               /\ after.mLocalDeltas = d.mLocalDeltas
               /\ u.updates[p] = None \/ u.updates[p] = <<>> => after.mData[p] = d.mData[p]
               /\ u.updates[p] # None /\ u.updates[p] # <<>> =>
                     after.mData[p] = ApplyDelta(d.mData[p], p, u.updates[p],
                                                 p \in d.mUnacknowledgedFields)
               /\ p \in after.mUnacknowledgedFields <=>
                     p \in d.mUnacknowledgedFields /\ u.updates[p] # <<>>
<1> DEFINE update == CHOOSE u \in d.mRemoteDeltasQueue : IsNextUpdate(d, u)
           table == update.updates
           edited == {q \in PathsOf(table) : table[q] # <<>>}
           Changed(q) == IF q \in edited
                         THEN ApplyDelta(d.mData[q], q, table[q], q \in d.mUnacknowledgedFields)
                         ELSE d.mData[q]
<1>1. update \in d.mRemoteDeltasQueue /\ IsNextUpdate(d, update)
  BY DEF HasNextUpdate
<1>2. after = [d EXCEPT !.mData = [q \in Paths |-> Changed(q)],
                        !.mUnacknowledgedFields = @ \ (PathsOf(table) \ edited),
                        !.mLatestAppliedSequence = update.sequence,
                        !.mRemoteDeltasQueue = @ \ {update},
                        !.applied = Append(@, update)]
  BY DEF ApplyNextUpdate
<1> HIDE DEF update, Changed
<1>3. /\ after.mData[p] = Changed(p)
      /\ after.mUnacknowledgedFields = d.mUnacknowledgedFields \ (PathsOf(table) \ edited)
      /\ after.mLatestAppliedSequence = update.sequence
      /\ after.mLocalDeltas = d.mLocalDeltas
  BY <1>2 DEF LayerState
<1>4. p \in edited <=> table[p] # None /\ table[p] # <<>>
  BY DEF PathsOf
<1>5. None # <<>>
  BY NoneNoFields
<1>6. p \in PathsOf(table) \ edited <=> table[p] = <<>>
  BY <1>4, <1>5 DEF PathsOf
<1> HIDE DEF edited
<1>7. /\ table[p] = None \/ table[p] = <<>> => Changed(p) = d.mData[p]
      /\ table[p] # None /\ table[p] # <<>> =>
            Changed(p) = ApplyDelta(d.mData[p], p, table[p], p \in d.mUnacknowledgedFields)
  BY <1>4 DEF Changed
<1>8. update.sequence = d.mLatestAppliedSequence + 1
  BY <1>1 DEF IsNextUpdate
<1>9. p \in after.mUnacknowledgedFields <=> p \in d.mUnacknowledgedFields /\ table[p] # <<>>
  BY <1>3, <1>6
<1>10. QED
  BY <1>1, <1>3, <1>7, <1>8, <1>9

LEMMA ConsistentHostApplies ==
    ASSUME EveryPathWithCare, TypeInv, Telling, Consistent,
           NEW c \in Clients, NEW l \in Layers, HostApplies(c, l)
    PROVE  Consistent'
<1> DEFINE d == data[c][l]
           next == ApplyNextUpdate(d)
<1>1. /\ UNCHANGED <<mHistory, toServer, mWebsocketClient>>
      /\ data' = [data EXCEPT ![c][l] = next]
      /\ HasNextUpdate(d)
      /\ data \in [Clients -> [Layers -> LayerState]]
      /\ mHistory[l] \in Seq(ServerDelta)
  BY DEF HostApplies, ApplyRemoteUpdate, wireVars, serverVars, TypeInv, TypeOK, ClientTypeOK,
         ServerTypeOK, LoopInv
<1>2. d \in LayerState /\ next \in LayerState
  BY <1>1, ApplyNextUpdateType
<1>3. \A u \in d.mRemoteDeltasQueue : Told(c, mHistory[l], u)
  BY DEF Telling, ClientTold, LayerTold
<1> HIDE DEF d, next
<1>4. data'[c][l] = next /\ \A e \in Clients, m \in Layers :
          ~(e = c /\ m = l) => data'[e][m] = data[e][m]
  BY <1>1
<1>5. \A m \in Layers : Outboxes(m)' = Outboxes(m)
  BY <1>1 DEF Outboxes, Outbox, InLiveMode
<1> SUFFICES ASSUME NEW m \in Layers, NEW p \in Paths
             PROVE  Together(p, Visible(File[m][p]), mHistory[m], Views(m, p)', Outboxes(m))
  BY <1>1, <1>5 DEF Consistent
<1>6. CASE m # l
  <2>1. Views(m, p)' = Views(m, p)
    BY <1>4, <1>6 DEF Views
  <2>2. QED
    BY <2>1 DEF Consistent
<1>7. CASE m = l
  <2> DEFINE start == Visible(File[l][p])
             history == mHistory[l]
             views == Views(l, p)
             views2 == Views(l, p)'
             sent == Outboxes(l)
             v == ViewOf(d, p)
             w == ViewOf(next, p)
  <2>1. Together(p, start, history, views, sent) /\ EditedWithCare(p)
    BY DEF Consistent, EveryPathWithCare
  <2>2. start \in Specs /\ Visible(start) = start
    BY FileVisible
  <2>3. v = views[c] /\ w = views2[c] /\ \A e \in Clients \ {c} : views2[e] = views[e]
    BY <1>4 DEF Views, d
  <2>4. /\ v = ViewOf(d, p) /\ w = ViewOf(next, p)
        /\ history \in Seq(ServerDelta)
        /\ \A u \in d.mRemoteDeltasQueue : Told(c, history, u)
    BY <1>1, <1>3
  <2> HIDE DEF start, history, views, views2, sent, v, w
  <2>5. /\ d.mData[p] \in Specs /\ v.seen = Visible(d.mData[p])
        /\ v.local = d.mLocalDeltas[p]
        /\ v.masks \subseteq {p} /\ (v.masks # {} <=> p \in d.mUnacknowledgedFields)
        /\ v.last = d.mLatestAppliedSequence
    BY <1>2, <2>4, ViewType
  <2>6. /\ w.seen \in Specs /\ Visible(w.seen) = w.seen /\ w.seen = Visible(next.mData[p])
        /\ w.local = next.mLocalDeltas[p]
        /\ w.masks \subseteq {p} /\ (w.masks # {} <=> p \in next.mUnacknowledgedFields)
        /\ w.last = next.mLatestAppliedSequence
    BY <1>2, <2>4, ViewType
  <2>7. PICK u \in d.mRemoteDeltasQueue :
            /\ u.sequence = d.mLatestAppliedSequence + 1
            /\ next.mLatestAppliedSequence = d.mLatestAppliedSequence + 1
            /\ next.mLocalDeltas = d.mLocalDeltas
            /\ u.updates[p] = None \/ u.updates[p] = <<>> => next.mData[p] = d.mData[p]
            /\ u.updates[p] # None /\ u.updates[p] # <<>> =>
                  next.mData[p] = ApplyDelta(d.mData[p], p, u.updates[p],
                                             p \in d.mUnacknowledgedFields)
            /\ p \in next.mUnacknowledgedFields <=>
                  p \in d.mUnacknowledgedFields /\ u.updates[p] # <<>>
    BY <1>1, <1>2, ApplyView DEF next
  <2> DEFINE entry == history[w.last]
             fields == entry.updates[p]
  <2>8. /\ w.last = v.last + 1 /\ w.last \in DOMAIN history
        /\ w.local = v.local
        /\ u.updates = IF entry.user = c THEN PathsOnly(entry.updates) ELSE entry.updates
    <3>1. w.last = v.last + 1 /\ w.last = u.sequence /\ w.local = v.local
      BY <2>5, <2>6, <2>7
    <3>2. Told(c, history, u)
      BY <2>4
    <3>3. QED
      BY <3>1, <3>2 DEF Told, Log!AsSeenBy
  <2>9. entry.user = c => u.updates[p] = IF fields = None THEN None ELSE <<>>
    BY <2>8 DEF PathsOnly
  <2>10. entry.user # c => u.updates[p] = fields
    BY <2>8
  <2>11. Recorded(p, fields)
    <3>1. PICK f : Chain(start, history, p, f)
      BY <2>1 DEF Together
    <3>2. w.last \in 1..Len(history)
      BY <2>4, <2>8
    <3>3. QED
      BY <3>1, <3>2 DEF Chain
  <2>12. fields # None => fields # <<>>
    BY <2>11 DEF Recorded
  <2> HIDE DEF fields, entry
  <2>13. None # <<>>
    BY NoneNoFields
  <2>14. w.masks = IF u.updates[p] = <<>> THEN {} ELSE v.masks
    <3>1. (v.masks = {} \/ v.masks = {p}) /\ (w.masks = {} \/ w.masks = {p})
      BY <2>5, <2>6
    <3>2. w.masks # {} <=> v.masks # {} /\ u.updates[p] # <<>>
      BY <2>5, <2>6, <2>7
    <3>3. QED
      BY <3>1, <3>2
  <2>15. fields = None => w.seen = v.seen /\ w.masks = v.masks
    BY <2>5, <2>6, <2>7, <2>9, <2>10, <2>13, <2>14
  <2>16. fields # None /\ entry.user = c => w.seen = v.seen /\ w.masks = {}
    BY <2>5, <2>6, <2>7, <2>9, <2>14
  <2>17. ASSUME fields # None, entry.user # c
         PROVE  /\ w.masks = v.masks
                /\ v.seen # None /\ v.masks = {} => w.seen = After(v.seen, p, fields)
                /\ OneField(p) /\ v.seen # None /\ v.masks # {} => w.seen = v.seen
    <3>1. u.updates[p] = fields /\ fields # <<>>
      BY <2>10, <2>12, <2>17
    <3>2. next.mData[p] = ApplyDelta(d.mData[p], p, fields, p \in d.mUnacknowledgedFields)
      BY <2>7, <2>17, <3>1
    <3>3. v.seen # None => d.mData[p] = v.seen /\ v.seen \in SpecData
      BY <2>5, VisibleSpec
    <3>4. ASSUME v.seen # None, v.masks = {} PROVE w.seen = After(v.seen, p, fields)
      <4>1. (p \in d.mUnacknowledgedFields) = FALSE
        BY <2>5, <3>4
      <4>2. next.mData[p] = ApplyDelta(v.seen, p, fields, FALSE)
        BY <3>2, <3>3, <3>4, <4>1
      <4>3. QED
        BY <2>6, <2>17, <4>2 DEF After
    <3>5. ASSUME OneField(p), v.seen # None, v.masks # {} PROVE w.seen = v.seen
      <4>1. (p \in d.mUnacknowledgedFields) = TRUE
        BY <2>5, <3>5
      <4>2. next.mData[p] = ApplyDelta(v.seen, p, fields, TRUE)
        BY <3>2, <3>3, <3>5, <4>1
      <4>3. next.mData[p] = v.seen
        BY <2>11, <2>17, <3>3, <3>5, <4>2, MaskedUnchanged
      <4>4. QED
        BY <2>5, <2>6, <3>3, <3>5, <4>3
    <3>6. w.masks = v.masks
      BY <2>14, <3>1
    <3>7. QED
      BY <3>4, <3>5, <3>6
  <2>18. w.last = v.last + 1 /\ v.last + 1 \in DOMAIN history
    BY <2>8
  <2>19. ViewApplied(c, p, history[v.last + 1], v, w)
    <3>1. ViewApplied(c, p, entry, v, w)
      BY <2>6, <2>8, <2>15, <2>16, <2>17 DEF Touches, ViewApplied, fields
    <3>2. QED
      BY <2>18, <3>1 DEF entry
  <2>20. \A e \in Clients \ {c} : views2[e] = views[e]
    BY <2>3
  <2>21. /\ views[c].last + 1 \in DOMAIN history
         /\ ViewApplied(c, p, history[views[c].last + 1], views[c], views2[c])
    BY <2>3, <2>18, <2>19
  <2>22. history \in Seq(ServerDelta)
    BY <2>4
  <2>23. Together(p, start, history, views2, sent)
    BY ONLY <2>1, <2>2, <2>20, <2>21, <2>22, TogetherApplied
  <2>24. QED
    BY <1>7, <2>23 DEF start, history, views2, sent
<1>8. QED
  BY <1>6, <1>7

LEMMA ConsistentStep ==
    ASSUME NobodyReloadsOrLeaves, EveryPathWithCare, TypeInv, Delivery, Connections, Telling,
           EditsSendable, Consistent, [Next]_vars
    PROVE  Consistent'
<1>1. ASSUME NEW c \in Clients, NEW s \in Sessions, Join(c, s) PROVE Consistent'
  BY <1>1, ConsistentJoin
<1>2. ASSUME NEW c \in Clients, Leave(c) PROVE FALSE
  BY <1>2 DEF Leave, NobodyReloadsOrLeaves
<1>3. ASSUME NEW c \in Clients, HostTicks(c) PROVE Consistent'
  BY <1>3, ConsistentHostTicks
<1>4. ASSUME NEW s \in Sessions, ServerNotices(s) PROVE FALSE
  BY <1>4 DEF ServerNotices, NobodyReloadsOrLeaves
<1>5. ASSUME NEW s \in Sessions, NEW l \in Layers, ServerReceives(s, l) PROVE Consistent'
  <2>1. ~OnReloadEvent(s, l)
    BY NothingToReload
  <2>2. QED
    BY <1>5, <2>1, ConsistentDelta DEF ServerReceives
<1>6. ASSUME NEW c \in Clients, NEW l \in Layers, ClientReceives(c, l) PROVE Consistent'
  <2>1. UNCHANGED <<mHistory, data, toServer, mWebsocketClient>>
    BY <1>6 DEF ClientReceives, OnMessage, serverVars
  <2>2. QED
    BY <2>1, ConsistentKept DEF Outbox, InLiveMode
<1>7. ASSUME NEW c \in Clients, NEW l \in Layers, HostEdits(c, l) PROVE Consistent'
  BY <1>7, ConsistentHostEdits
<1>8. ASSUME NEW c \in Clients, NEW l \in Layers, HostApplies(c, l) PROVE Consistent'
  BY <1>8, ConsistentHostApplies
<1>9. ASSUME NEW c \in Clients, NEW l \in Layers, HostOpens(c, l) PROVE Consistent'
  <2>1. UNCHANGED <<mHistory, data, toServer, mWebsocketClient>>
    BY <1>9, OpensUnchanged DEF HostOpens, OpenLayer, wireVars, serverVars
  <2>2. QED
    BY <2>1, ConsistentKept DEF Outbox, InLiveMode
<1>10. ASSUME NEW c \in Clients, NEW l \in Layers, HostReloads(c, l) PROVE FALSE
  BY <1>10 DEF HostReloads, NobodyReloadsOrLeaves
<1>11. CASE UNCHANGED vars
  <2>1. UNCHANGED <<mHistory, data, toServer, mWebsocketClient>>
    BY <1>11 DEF vars, wireVars, serverVars, clientVars
  <2>2. QED
    BY <2>1, ConsistentKept DEF Outbox, InLiveMode
<1>12. QED
  BY <1>1, <1>2, <1>3, <1>4, <1>5, <1>6, <1>7, <1>8, <1>9, <1>10, <1>11 DEF Next

(***************************************************************************)
(* When all is quiet a client has applied the whole history and has        *)
(* nothing on top of it.                                                   *)
(***************************************************************************)
LEMMA QuietClient ==
    ASSUME NobodyReloadsOrLeaves, TypeInv, Delivery, Connections, Streams,
           NEW l \in OpenedFirst, AllQuiet(l), NEW c \in Clients, IsConnected(c),
           NEW d, d = data[c][l], NEW last, last = Len(mHistory[l])
    PROVE  /\ d.mLatestAppliedSequence = last
           /\ d.mLocalDeltas = NoUpdates
           /\ Outbox(c, l) = <<>>
<1>1. l \in Layers /\ c \in Steady /\ InLiveMode(c)
  BY LiveSessionAssumption DEF Steady, NobodyReloadsOrLeaves, IsConnected
<1>2. mWebsocketClient[c] \in Sessions
  BY <1>1, SteadyLive
<1> DEFINE wire == toClient[mWebsocketClient[c]][l]
           deltas == mAccumulatedDeltas[c][l]
           acks == mAccumulatedAcknowledges[c][l]
           asked == mRequestedReloads[c]
<1>3. /\ wire \in Seq(ServerEvent) /\ deltas \in Seq(ServerDelta) /\ acks \in Seq(Acknowledge)
      /\ d \in LayerState /\ last \in Nat
  BY <1>1, <1>2, StreamTypes
<1>4. /\ deltas \o acks \o wire = <<>>
      /\ toServer[mWebsocketClient[c]][l] = <<>>
      /\ d.mLocalDeltas = NoUpdates
      /\ ~HasNextUpdate(d)
      /\ l \notin asked
  BY <1>1 DEF AllQuiet, Arriving
<1>5. PICK m \in Nat, e \in Nat, f \in Nat :
          /\ Wire(wire, m, e, last, epoch[l])
          /\ Taken(deltas, acks, d, l, asked, m, e, f, epoch[l])
  BY <1>1 DEF Streams, StreamOf, Stream
<1> HIDE DEF wire, deltas, acks, asked
<1>6. wire = <<>> /\ deltas = <<>> /\ acks = <<>>
  <2>1. Len(deltas \o acks \o wire) = Len(deltas) + Len(acks) + Len(wire)
    BY <1>3
  <2>2. Len(deltas) + Len(acks) + Len(wire) = 0
    BY <1>4, <2>1
  <2>3. Len(deltas) = 0 /\ Len(acks) = 0 /\ Len(wire) = 0
    BY <1>3, <2>2
  <2>4. QED
    BY <1>3, <2>3
<1>7. m = last
  <2>1. Segment(wire, 0, m, e, last, epoch[l])
    BY <1>5 DEF Wire
  <2>2. Len(wire) = 0
    BY <1>6
  <2>3. QED
    BY <1>3, <2>1, <2>2 DEF Segment
<1>8. d.mLatestAppliedSequence <= last /\ \A n \in 1..last : InLayer(d, n)
  <2>1. \A n : ~Among(deltas, n) /\ ~Among(acks, n)
    BY <1>6 DEF Among
  <2>2. QED
    BY <1>4, <1>5, <1>7, <2>1 DEF Taken
<1>9. d.mLatestAppliedSequence = last
  <2> SUFFICES ASSUME d.mLatestAppliedSequence # last PROVE FALSE
    OBVIOUS
  <2>1. d.mLatestAppliedSequence \in Nat
    BY <1>3 DEF LayerState
  <2> DEFINE n == d.mLatestAppliedSequence + 1
  <2>2. n \in 1..last /\ ~(n <= d.mLatestAppliedSequence)
    BY <1>3, <1>8, <2>1
  <2>3. PICK u \in d.mRemoteDeltasQueue : u.sequence = n
    BY <1>8, <2>2 DEF InLayer
  <2>4. QED
    BY <1>4, <2>3 DEF HasNextUpdate, IsNextUpdate
<1>10. QED
  BY <1>1, <1>4, <1>9 DEF Outbox

\* All who have applied the whole history and have nothing on top see its last link.
LEMMA LastLink ==
    ASSUME NEW p, NEW start, NEW history \in Seq(ServerDelta), NEW views, NEW sent,
           Together(p, start, history, views, sent)
    PROVE  \A c, d \in Clients :
               /\ views[c].last = Len(history) /\ ~Ahead(views[c], sent[c], p)
               /\ views[d].last = Len(history) /\ ~Ahead(views[d], sent[d], p)
               => views[c].seen = views[d].seen
<1>1. PICK f \in Links(history) : Kept(p, start, history, f, views, sent)
  BY DEF Together
<1>2. ASSUME NEW c \in Clients, NEW v, v = views[c],
             v.last = Len(history), ~Ahead(v, sent[c], p)
      PROVE  v.seen = f[Len(history)]
  <2>1. /\ Len(history) \in Nat /\ Len(history) \in v.last..Len(history)
        /\ (v.last + 1)..Len(history) = {}
        /\ (Len(history) + 1)..Len(history) = {}
    BY <1>2
  <2>2. CASE Discipline[p] = "locked"
    <3>1. SeesHistory(c, history, f, v, p)
      BY <1>1, <1>2, <2>2 DEF Kept, AllLocked, Locked
    <3>2. CountsAs(c, history, v, p, Len(history))
      BY <2>1 DEF CountsAs
    <3>3. QED
      BY <2>1, <3>1, <3>2 DEF SeesHistory
  <2>3. CASE Discipline[p] # "locked"
    <3>1. Settled(c, start, history, f, v, sent[c], p)
      BY <1>1, <1>2, <2>3 DEF Kept, AllSettled
    <3>2. v.masks = {}
      BY <1>2, <2>1, <3>1 DEF Settled, OneEdit, Later
    <3>3. QED
      BY <1>2, <3>1, <3>2 DEF Settled
  <2>4. QED
    BY <2>2, <2>3
<1>3. QED
  BY <1>2

LEMMA ConsistentShows ==
    ASSUME NobodyReloadsOrLeaves, TypeInv, Delivery, Connections, Streams, Consistent
    PROVE  DataConsistency
<1> SUFFICES ASSUME NEW l \in OpenedFirst, AllQuiet(l),
                    NEW c \in Clients, IsConnected(c), NEW e \in Clients, IsConnected(e),
                    NEW p \in Paths
             PROVE  Visible(data[c][l].mData[p]) = Visible(data[e][l].mData[p])
  BY DEF DataConsistency
<1> DEFINE start == Visible(File[l][p])
           views == Views(l, p)
           sent == Outboxes(l)
           history == mHistory[l]
<1>1. l \in Layers
  BY LiveSessionAssumption
<1>2. Together(p, start, history, views, sent) /\ history \in Seq(ServerDelta)
  BY <1>1 DEF Consistent, TypeInv, TypeOK, ServerTypeOK
<1>3. ASSUME NEW a \in Clients, IsConnected(a)
      PROVE  /\ views[a].last = Len(history)
             /\ ~Ahead(views[a], sent[a], p)
             /\ views[a].seen = Visible(data[a][l].mData[p])
  <2>1. /\ data[a][l].mLatestAppliedSequence = Len(history)
        /\ data[a][l].mLocalDeltas = NoUpdates
        /\ Outbox(a, l) = <<>>
    BY <1>3, QuietClient
  <2>2. views[a] = ViewOf(data[a][l], p) /\ sent[a] = Outbox(a, l)
    BY DEF Views, Outboxes
  <2>3. NoUpdates[p] = None
    BY DEF NoUpdates
  <2>4. QED
    BY <2>1, <2>2, <2>3 DEF ViewOf, Ahead, Outgoing
<1> HIDE DEF start, views, sent, history
<1>4. \A a, b \in Clients :
          /\ views[a].last = Len(history) /\ ~Ahead(views[a], sent[a], p)
          /\ views[b].last = Len(history) /\ ~Ahead(views[b], sent[b], p)
          => views[a].seen = views[b].seen
  BY <1>2, LastLink
<1>5. QED
  BY <1>3, <1>4

(***************************************************************************)
(* In every session in which nobody leaves or reloads, however many users, *)
(* layers and edits it has: once everything sent has been received and     *)
(* applied, all connected users see the same contents ("would grant data   *)
(* consistency", Data.cpp:571).  That holds where hosts take care: a path  *)
(* is edited under a lock, or it has one field that events can carry and   *)
(* that is not edited again while an edit of it is unacknowledged.         *)
(***************************************************************************)
THEOREM DataConsistencyCorrect ==
    ASSUME NobodyReloadsOrLeaves, FieldsSerializable, EveryPathWithCare
    PROVE  Spec => []DataConsistency
<1> DEFINE IInv == Telling /\ EditsSendable /\ Consistent
<1>1. Init => IInv
  BY TellingInit, SendableInit, ConsistentInit
<1>2. TypeInv /\ Delivery /\ Connections /\ IInv /\ [Next]_vars => IInv'
  BY TellingStep, SendableStep, ConsistentStep
<1>3. TypeInv /\ Delivery /\ Connections /\ Streams /\ IInv => DataConsistency
  BY ConsistentShows
<1>4. Init => TypeInv
  BY TypeInit
<1>5. TypeInv /\ [Next]_vars => TypeInv'
  BY TypeStep
<1> HIDE DEF IInv
<1>6. QED
  BY <1>1, <1>2, <1>3, <1>4, <1>5, DeliveryCorrect, StreamsCorrect, PTL DEF Spec
=============================================================================
