-------------------------- MODULE LiveStreamProofs --------------------------
(***************************************************************************)
(* What reaches a client that stays: none of the server's numbers is lost  *)
(* or there twice, and updates numbered before a reload of the layer never *)
(* mix with updates numbered after it.                                     *)
(*                                                                         *)
(* The invariant sees the way from the server to the data of one layer as  *)
(* a stream.  Its end is on the socket; what the client has taken from it  *)
(* is accumulated, queued or applied.  A Reload cuts the stream into       *)
(* segments, in each of which the server numbers from 1.                   *)
(*                                                                         *)
(* The second part is about users who come back: see EverythingReached.    *)
(***************************************************************************)
EXTENDS LiveSessionProofs, FiniteSetTheorems, WellFoundedInduction

IsReload(event) == event.type = "Reload"

(***************************************************************************)
(* From position r of the socket on, up to the next Reload, the numbers go *)
(* on after m in numbering e.  If no Reload follows, they end with the     *)
(* server's last number and the numbering is the server's.                 *)
(***************************************************************************)
Segment(wire, r, m, e, last, numbering) ==
    /\ \A i \in (r + 1)..Len(wire) :
           (\A k \in (r + 1)..i : ~IsReload(wire[k]))
           => wire[i].sequence = m + (i - r) /\ wire[i].epoch = e
    /\ \/ /\ \A k \in (r + 1)..Len(wire) : ~IsReload(wire[k])
          /\ e = numbering
          /\ m + (Len(wire) - r) = last
       \/ /\ \E k \in (r + 1)..Len(wire) : IsReload(wire[k])
          /\ e < numbering

LastReload(wire, r) ==
    IsReload(wire[r]) /\ \A k \in (r + 1)..Len(wire) : ~IsReload(wire[k])

Wire(wire, m, e, last, numbering) ==
    /\ Segment(wire, 0, m, e, last, numbering)
    /\ \A r \in 1..Len(wire) : IsReload(wire[r]) =>
           \E later \in Nat : Segment(wire, r, 0, later, last, numbering)
    /\ \A r \in 1..Len(wire) : IsReload(wire[r]) =>
           \E k \in 1..Len(wire) : LastReload(wire, k)
    /\ \A r \in 1..Len(wire) : IsReload(wire[r]) =>
           \A i \in 1..(r - 1) : ~IsReload(wire[i]) => wire[i].epoch < numbering

(***************************************************************************)
(* What the client has taken from the stream: 1..m in numbering e, each in *)
(* one place.  A reload asked for and not done yet leaves what was queued  *)
(* and applied before, in an older numbering.                              *)
(***************************************************************************)
AllNumbered(events, m, e) ==
    /\ \A i \in DOMAIN events : events[i].sequence \in 1..m /\ events[i].epoch = e
    /\ \A i, j \in DOMAIN events : events[i].sequence = events[j].sequence => i = j

LayerOf(d, e) ==
    /\ \A u \in d.mRemoteDeltasQueue :
           u.epoch = e /\ u.sequence > d.mLatestAppliedSequence
    /\ \A u, v \in d.mRemoteDeltasQueue : u.sequence = v.sequence => u = v
    /\ \A n \in DOMAIN d.applied : d.applied[n].epoch = e

NotIn(d, events) ==
    \A i \in DOMAIN events :
        /\ events[i].sequence > d.mLatestAppliedSequence
        /\ \A u \in d.mRemoteDeltasQueue : u.sequence # events[i].sequence

InLayer(d, n) ==
    n <= d.mLatestAppliedSequence \/ \E u \in d.mRemoteDeltasQueue : u.sequence = n

Among(events, n) == \E i \in DOMAIN events : events[i].sequence = n

Taken(deltas, acks, d, l, asked, m, e, f, numbering) ==
    /\ AllNumbered(deltas, m, e)
    /\ AllNumbered(acks, m, e)
    /\ \A i \in DOMAIN deltas : ~Among(acks, deltas[i].sequence)
    /\ LayerOf(d, f)
    /\ l \in asked => f < numbering
    /\ l \notin asked =>
          /\ f = e
          /\ d.mLatestAppliedSequence <= m
          /\ \A u \in d.mRemoteDeltasQueue : u.sequence <= m
          /\ NotIn(d, deltas)
          /\ NotIn(d, acks)
    /\ l \in OpenedFirst =>
          \A n \in 1..m : Among(deltas, n) \/ Among(acks, n) \/ (l \notin asked /\ InLayer(d, n))

Stream(wire, deltas, acks, d, l, asked, last, numbering) ==
    \E m, e, f \in Nat :
        /\ Wire(wire, m, e, last, numbering)
        /\ Taken(deltas, acks, d, l, asked, m, e, f, numbering)

(***************************************************************************)
(* The sessions of the clients that stay, and what is true of layers and   *)
(* clients before they take part.                                          *)
(***************************************************************************)
FreshSessions ==
    \A s \in Sessions : link[s] = "new" =>
        /\ s \notin serverUp
        /\ s \notin mConnections
        /\ \A l \in Layers : toClient[s][l] = <<>> /\ toServer[s][l] = <<>>

StayConnected ==
    \A c \in Steady : InLiveMode(c) =>
        /\ link[mWebsocketClient[c]] = "up"
        /\ mWebsocketClient[c] \in mConnections
        /\ OpenedFirst \subseteq mLayerRegistry[c]

OneSession ==
    \A c \in Steady : \A s \in SessionsOf(c) :
        s \in serverUp \/ (\E l \in Layers : toServer[s][l] # <<>>)
        => mWebsocketClient[c] = s

OnlyReloadersReload ==
    \A s \in Sessions, l \in Layers : \A i \in DOMAIN toServer[s][l] :
        IsReload(toServer[s][l][i]) => ClientOf[s] \in Reloaders

Untouched ==
    \A c \in Clients, l \in Layers :
        l \notin mLayerRegistry[c] => data[c][l] = OnLoaded(File[l])

NothingYet ==
    \A c \in Steady : ~InLiveMode(c) =>
        /\ mRequestedReloads[c] = {}
        /\ \A l \in Layers :
              /\ mAccumulatedDeltas[c][l] = <<>>
              /\ mAccumulatedAcknowledges[c][l] = <<>>
              /\ data[c][l].mRemoteDeltasQueue = {}
              /\ data[c][l].mLatestAppliedSequence = 0
              /\ data[c][l].applied = <<>>

Connections ==
    /\ FreshSessions
    /\ StayConnected
    /\ OneSession
    /\ OnlyReloadersReload
    /\ Untouched
    /\ NothingYet

StreamOf(c, l) ==
    Stream(toClient[mWebsocketClient[c]][l], mAccumulatedDeltas[c][l],
           mAccumulatedAcknowledges[c][l], data[c][l], l, mRequestedReloads[c], Len(mHistory[l]), epoch[l])

Streams == \A c \in Steady, l \in Layers : InLiveMode(c) => StreamOf(c, l)

(***************************************************************************)
(* How the socket of a stream changes.                                     *)
(***************************************************************************)
LEMMA SegmentStart ==
    ASSUME NEW wire \in Seq(ServerEvent), NEW numbering \in Nat,
           \A i \in 1..Len(wire) :
               ~IsReload(wire[i]) /\ wire[i].sequence = i /\ wire[i].epoch = numbering
    PROVE  Wire(wire, 0, numbering, Len(wire), numbering)
BY DEF Wire, Segment

LEMMA SegmentGoesOn ==
    ASSUME NEW wire \in Seq(ServerEvent), NEW r \in 0..Len(wire), NEW m \in Nat,
           NEW e \in Nat, NEW last \in Nat, NEW numbering \in Nat,
           NEW x, ~IsReload(x), x.sequence = last + 1, x.epoch = numbering,
           Segment(wire, r, m, e, last, numbering)
    PROVE  Segment(Append(wire, x), r, m, e, last + 1, numbering)
<1> DEFINE longer == Append(wire, x)
<1>1. /\ Len(longer) = Len(wire) + 1
      /\ \A i \in 1..Len(wire) : longer[i] = wire[i]
      /\ longer[Len(wire) + 1] = x
      /\ Len(wire) \in Nat
  OBVIOUS
<1> HIDE DEF longer
<1>2. ASSUME NEW i \in (r + 1)..Len(longer),
             \A k \in (r + 1)..i : ~IsReload(longer[k])
      PROVE  longer[i].sequence = m + (i - r) /\ longer[i].epoch = e
  <2>1. CASE i <= Len(wire)
    <3>1. i \in (r + 1)..Len(wire) /\ longer[i] = wire[i]
      BY <1>1, <2>1
    <3>2. \A k \in (r + 1)..i : ~IsReload(wire[k])
      BY <1>1, <1>2, <2>1
    <3>3. QED
      BY <3>1, <3>2 DEF Segment
  <2>2. CASE i = Len(wire) + 1
    <3>1. \A k \in (r + 1)..Len(wire) : ~IsReload(wire[k])
      BY <1>1, <1>2, <2>2
    <3>2. e = numbering /\ m + (Len(wire) - r) = last
      BY <3>1 DEF Segment
    <3>3. longer[i].sequence = last + 1 /\ longer[i].epoch = numbering
      BY <1>1, <2>2
    <3>4. m + (i - r) = last + 1
      BY <1>1, <2>2, <3>2
    <3>5. QED
      BY <3>2, <3>3, <3>4
  <2>3. QED
    BY <1>1, <1>2, <2>1, <2>2
<1>3. \/ /\ \A k \in (r + 1)..Len(longer) : ~IsReload(longer[k])
         /\ e = numbering
         /\ m + (Len(longer) - r) = last + 1
      \/ /\ \E k \in (r + 1)..Len(longer) : IsReload(longer[k])
         /\ e < numbering
  <2>1. CASE \A k \in (r + 1)..Len(wire) : ~IsReload(wire[k])
    <3>1. e = numbering /\ m + (Len(wire) - r) = last
      BY <2>1 DEF Segment
    <3>2. \A k \in (r + 1)..Len(longer) : ~IsReload(longer[k])
      BY <1>1, <2>1
    <3>3. m + (Len(longer) - r) = last + 1
      BY <1>1, <3>1
    <3>4. QED
      BY <3>1, <3>2, <3>3
  <2>2. CASE \E k \in (r + 1)..Len(wire) : IsReload(wire[k])
    BY <1>1, <2>2 DEF Segment
  <2>3. QED
    BY <2>1, <2>2
<1>4. QED
  BY <1>2, <1>3 DEF Segment, longer

LEMMA SegmentIsCut ==
    ASSUME NEW wire \in Seq(ServerEvent), NEW r \in 0..Len(wire), NEW m \in Nat,
           NEW e \in Nat, NEW last \in Nat, NEW numbering \in Nat,
           NEW x, IsReload(x),
           Segment(wire, r, m, e, last, numbering)
    PROVE  Segment(Append(wire, x), r, m, e, 0, numbering + 1)
<1> DEFINE longer == Append(wire, x)
<1>1. /\ Len(longer) = Len(wire) + 1
      /\ \A i \in 1..Len(wire) : longer[i] = wire[i]
      /\ longer[Len(wire) + 1] = x
      /\ Len(wire) \in Nat
  OBVIOUS
<1> HIDE DEF longer
<1>2. ASSUME NEW i \in (r + 1)..Len(longer),
             \A k \in (r + 1)..i : ~IsReload(longer[k])
      PROVE  longer[i].sequence = m + (i - r) /\ longer[i].epoch = e
  <2>1. i <= Len(wire)
    BY <1>1, <1>2
  <2>2. i \in (r + 1)..Len(wire) /\ longer[i] = wire[i]
    BY <1>1, <2>1
  <2>3. \A k \in (r + 1)..i : ~IsReload(wire[k])
    BY <1>1, <1>2, <2>1
  <2>4. QED
    BY <2>2, <2>3 DEF Segment
<1>3. e < numbering + 1
  BY DEF Segment
<1>4. Len(wire) + 1 \in (r + 1)..Len(longer)
  BY <1>1
<1>5. QED
  BY <1>1, <1>2, <1>3, <1>4 DEF Segment, longer

LEMMA SegmentMoves ==
    ASSUME NEW wire \in Seq(ServerEvent), wire # <<>>, NEW r \in 1..Len(wire),
           NEW m \in Nat, NEW e \in Nat, NEW last \in Nat, NEW numbering \in Nat,
           Segment(wire, r, m, e, last, numbering)
    PROVE  Segment(Tail(wire), r - 1, m, e, last, numbering)
<1> DEFINE rest == Tail(wire)
<1>1. /\ Len(rest) = Len(wire) - 1
      /\ \A i \in 1..Len(rest) : rest[i] = wire[i + 1]
      /\ Len(wire) \in Nat
  OBVIOUS
<1> HIDE DEF rest
<1>2. ASSUME NEW i \in r..Len(rest), \A k \in r..i : ~IsReload(rest[k])
      PROVE  rest[i].sequence = m + (i - (r - 1)) /\ rest[i].epoch = e
  <2>1. \A k \in (r + 1)..(i + 1) : k - 1 \in r..i /\ wire[k] = rest[k - 1]
    BY <1>1, <1>2
  <2>2. \A k \in (r + 1)..(i + 1) : ~IsReload(wire[k])
    BY <1>2, <2>1
  <2>3. i + 1 \in (r + 1)..Len(wire)
    BY <1>1, <1>2
  <2>4. wire[i + 1].sequence = m + (i + 1 - r) /\ wire[i + 1].epoch = e
    BY <2>2, <2>3 DEF Segment
  <2>5. QED
    BY <1>1, <1>2, <2>4
<1>3. CASE \A k \in (r + 1)..Len(wire) : ~IsReload(wire[k])
  <2>1. \A k \in r..Len(rest) : ~IsReload(rest[k])
    BY <1>1, <1>3
  <2>2. e = numbering /\ m + (Len(wire) - r) = last
    BY <1>3 DEF Segment
  <2>3. QED
    BY <1>1, <1>2, <2>1, <2>2 DEF Segment, rest
<1>4. CASE \E k \in (r + 1)..Len(wire) : IsReload(wire[k])
  <2>1. \E k \in r..Len(rest) : IsReload(rest[k])
    <3>1. PICK k \in (r + 1)..Len(wire) : IsReload(wire[k])
      BY <1>4
    <3>2. k - 1 \in r..Len(rest) /\ rest[k - 1] = wire[k]
      BY <1>1
    <3>3. QED
      BY <3>1, <3>2
  <2>2. e < numbering
    BY <1>4 DEF Segment
  <2>3. QED
    BY <1>1, <1>2, <2>1, <2>2 DEF Segment, rest
<1>5. QED
  BY <1>3, <1>4

LEMMA WireGoesOn ==
    ASSUME NEW wire \in Seq(ServerEvent), NEW m \in Nat, NEW e \in Nat,
           NEW last \in Nat, NEW numbering \in Nat,
           NEW x, ~IsReload(x), x.sequence = last + 1, x.epoch = numbering,
           Wire(wire, m, e, last, numbering)
    PROVE  Wire(Append(wire, x), m, e, last + 1, numbering)
<1> DEFINE longer == Append(wire, x)
<1>1. /\ Len(longer) = Len(wire) + 1
      /\ \A i \in 1..Len(wire) : longer[i] = wire[i]
      /\ longer[Len(wire) + 1] = x
      /\ Len(wire) \in Nat
  OBVIOUS
<1>2. Segment(longer, 0, m, e, last + 1, numbering)
  BY <1>1, SegmentGoesOn DEF Wire
<1>3. ASSUME NEW r \in 1..Len(longer), IsReload(longer[r])
      PROVE  /\ r \in 1..Len(wire) /\ IsReload(wire[r])
             /\ \E later \in Nat : Segment(longer, r, 0, later, last + 1, numbering)
             /\ \E k \in 1..Len(longer) : LastReload(longer, k)
             /\ \A i \in 1..(r - 1) : ~IsReload(longer[i]) => longer[i].epoch < numbering
  <2>1. r \in 1..Len(wire) /\ IsReload(wire[r])
    <3> HIDE DEF longer
    <3> QED BY <1>1, <1>3
  <2>2. PICK later \in Nat : Segment(wire, r, 0, later, last, numbering)
    BY <2>1 DEF Wire
  <2>3. Segment(longer, r, 0, later, last + 1, numbering)
    <3>1. r \in 0..Len(wire) /\ 0 \in Nat
      BY <1>1, <2>1
    <3>2. QED
      BY <2>2, <3>1, SegmentGoesOn
  <2>4. PICK k \in 1..Len(wire) : LastReload(wire, k)
    BY <2>1 DEF Wire
  <2> HIDE DEF longer
  <2>5. LastReload(longer, k)
    <3>1. ASSUME NEW j \in (k + 1)..Len(longer)
          PROVE  ~IsReload(longer[j])
      <4>1. CASE j = Len(wire) + 1
        BY <1>1, <4>1
      <4>2. CASE j # Len(wire) + 1
        <5>1. Len(longer) = Len(wire) + 1 /\ Len(wire) \in Nat
          BY <1>1
        <5>2. j \in (k + 1)..Len(wire) /\ j \in 1..Len(wire)
          BY <4>2, <5>1
        <5>3. QED
          BY <1>1, <2>4, <5>2 DEF LastReload
      <4>3. QED
        BY <4>1, <4>2
    <3>2. longer[k] = wire[k]
      BY <1>1, <2>4
    <3>3. QED
      BY <2>4, <3>1, <3>2 DEF LastReload
  <2>6. \A i \in 1..(r - 1) : ~IsReload(longer[i]) => longer[i].epoch < numbering
    <3>1. \A i \in 1..(r - 1) : longer[i] = wire[i]
      BY <1>1, <2>1
    <3>2. QED
      BY <2>1, <3>1 DEF Wire
  <2>7. QED
    BY <1>1, <2>1, <2>3, <2>5, <2>6
<1>4. QED
  <2> HIDE DEF longer
  <2> QED BY <1>2, <1>3 DEF Wire, longer

LEMMA WireIsCut ==
    ASSUME NEW wire \in Seq(ServerEvent), NEW m \in Nat, NEW e \in Nat,
           NEW last \in Nat, NEW numbering \in Nat,
           NEW x, IsReload(x),
           \A i \in DOMAIN wire : ~IsReload(wire[i]) => wire[i].epoch \in 0..numbering,
           Wire(wire, m, e, last, numbering)
    PROVE  Wire(Append(wire, x), m, e, 0, numbering + 1)
<1> DEFINE longer == Append(wire, x)
<1>1. /\ Len(longer) = Len(wire) + 1
      /\ \A i \in 1..Len(wire) : longer[i] = wire[i]
      /\ longer[Len(wire) + 1] = x
      /\ Len(wire) \in Nat
  OBVIOUS
<1>2. Segment(longer, 0, m, e, 0, numbering + 1)
  BY <1>1, SegmentIsCut DEF Wire
<1>3. LastReload(longer, Len(wire) + 1)
  <2> HIDE DEF longer
  <2> QED BY <1>1 DEF LastReload
<1>4. \A i \in 1..Len(wire) : ~IsReload(longer[i]) => longer[i].epoch < numbering + 1
  <2> HIDE DEF longer
  <2> QED BY <1>1
<1>5. ASSUME NEW r \in 1..Len(longer), IsReload(longer[r])
      PROVE  \E later \in Nat : Segment(longer, r, 0, later, 0, numbering + 1)
  <2>1. CASE r = Len(wire) + 1
    <3> HIDE DEF longer
    <3>1. Segment(longer, r, 0, numbering + 1, 0, numbering + 1)
      BY <1>1, <2>1 DEF Segment
    <3>2. QED
      BY <3>1
  <2>2. CASE r <= Len(wire)
    <3>1. r \in 1..Len(wire) /\ IsReload(wire[r])
      <4> HIDE DEF longer
      <4> QED BY <1>1, <1>5, <2>2
    <3>2. PICK later \in Nat : Segment(wire, r, 0, later, last, numbering)
      BY <3>1 DEF Wire
    <3>3. r \in 0..Len(wire) /\ 0 \in Nat
      BY <1>1, <3>1
    <3>4. Segment(longer, r, 0, later, 0, numbering + 1)
      BY <3>2, <3>3, SegmentIsCut
    <3>5. QED
      BY <3>4
  <2>3. QED
    <3> HIDE DEF longer
    <3> QED BY <1>1, <2>1, <2>2
<1>6. QED
  <2> HIDE DEF longer
  <2>1. Len(wire) + 1 \in 1..Len(longer)
    BY <1>1
  <2>2. \A r \in 1..Len(longer), i \in 1..Len(longer) : i \in 1..(r - 1) => i \in 1..Len(wire)
    BY <1>1
  <2>3. \A r \in 1..Len(longer) : \A i \in 1..(r - 1) :
            ~IsReload(longer[i]) => longer[i].epoch < numbering + 1
    BY <1>1, <1>4
  <2>4. QED
    BY <1>2, <1>3, <1>5, <2>1, <2>3 DEF Wire, longer

\* What is left of a socket when its first event is taken.
LEMMA WireRest ==
    ASSUME NEW wire \in Seq(ServerEvent), wire # <<>>, NEW m \in Nat, NEW e \in Nat,
           NEW last \in Nat, NEW numbering \in Nat,
           Wire(wire, m, e, last, numbering)
    PROVE  LET rest == Tail(wire)
           IN  /\ \A r \in 1..Len(rest) : IsReload(rest[r]) =>
                      \E later \in Nat : Segment(rest, r, 0, later, last, numbering)
               /\ \A r \in 1..Len(rest) : IsReload(rest[r]) =>
                      \E k \in 1..Len(rest) : LastReload(rest, k)
               /\ \A r \in 1..Len(rest) : IsReload(rest[r]) =>
                      \A i \in 1..(r - 1) : ~IsReload(rest[i]) => rest[i].epoch < numbering
<1> DEFINE rest == Tail(wire)
<1>1. /\ Len(rest) = Len(wire) - 1
      /\ \A i \in 1..Len(rest) : rest[i] = wire[i + 1]
      /\ Len(wire) \in Nat
  OBVIOUS
<1>2. ASSUME NEW r \in 1..Len(rest), IsReload(rest[r])
      PROVE  /\ \E later \in Nat : Segment(rest, r, 0, later, last, numbering)
             /\ \E k \in 1..Len(rest) : LastReload(rest, k)
             /\ \A i \in 1..(r - 1) : ~IsReload(rest[i]) => rest[i].epoch < numbering
  <2>1. r + 1 \in 1..Len(wire) /\ IsReload(wire[r + 1])
    <3> HIDE DEF rest
    <3> QED BY <1>1, <1>2
  <2>2. PICK later \in Nat : Segment(wire, r + 1, 0, later, last, numbering)
    BY <2>1 DEF Wire
  <2>3. Segment(rest, r, 0, later, last, numbering)
    <3>1. Segment(rest, (r + 1) - 1, 0, later, last, numbering)
      BY <2>1, <2>2, SegmentMoves
    <3>2. (r + 1) - 1 = r
      BY <2>1
    <3>3. QED
      BY <3>1, <3>2
  <2>4. PICK k \in 1..Len(wire) : LastReload(wire, k)
    BY <2>1 DEF Wire
  <2> HIDE DEF rest
  <2>5. k >= r + 1
    BY <2>1, <2>4 DEF LastReload
  <2>6. k - 1 \in 1..Len(rest) /\ LastReload(rest, k - 1)
    <3>1. k - 1 \in 1..Len(rest) /\ rest[k - 1] = wire[k]
      BY <1>1, <2>1, <2>4, <2>5
    <3>2. \A j \in ((k - 1) + 1)..Len(rest) :
             j + 1 \in (k + 1)..Len(wire) /\ rest[j] = wire[j + 1]
      BY <1>1, <2>1, <2>4, <2>5
    <3>3. QED
      BY <2>4, <3>1, <3>2 DEF LastReload
  <2>7. ASSUME NEW i \in 1..(r - 1), ~IsReload(rest[i])
        PROVE  rest[i].epoch < numbering
    <3>1. i + 1 \in 1..((r + 1) - 1) /\ i \in 1..Len(rest)
      BY <1>1, <2>1
    <3>2. rest[i] = wire[i + 1]
      BY <1>1, <3>1
    <3>3. QED
      BY <2>1, <2>7, <3>1, <3>2 DEF Wire
  <2>8. QED
    BY <2>3, <2>6, <2>7
<1>3. QED
  BY <1>2

LEMMA WireTaken ==
    ASSUME NEW wire \in Seq(ServerEvent), wire # <<>>, NEW m \in Nat, NEW e \in Nat,
           NEW last \in Nat, NEW numbering \in Nat,
           ~IsReload(Head(wire)),
           Wire(wire, m, e, last, numbering)
    PROVE  /\ Head(wire).sequence = m + 1
           /\ Head(wire).epoch = e
           /\ Wire(Tail(wire), m + 1, e, last, numbering)
<1> DEFINE rest == Tail(wire)
<1>1. /\ Len(rest) = Len(wire) - 1
      /\ \A i \in 1..Len(rest) : rest[i] = wire[i + 1]
      /\ Len(wire) \in Nat /\ 1 \in 1..Len(wire)
      /\ Head(wire) = wire[1]
  OBVIOUS
<1>2. Segment(wire, 0, m, e, last, numbering)
  BY DEF Wire
<1>3. wire[1].sequence = m + 1 /\ wire[1].epoch = e
  BY <1>1, <1>2 DEF Segment
<1>4. Segment(rest, 0, m + 1, e, last, numbering)
  <2> HIDE DEF rest
  <2>1. ASSUME NEW i \in 1..Len(rest), \A k \in 1..i : ~IsReload(rest[k])
        PROVE  rest[i].sequence = m + 1 + i /\ rest[i].epoch = e
    <3>1. \A k \in 2..(i + 1) : k - 1 \in 1..i /\ wire[k] = rest[k - 1]
      BY <1>1, <2>1
    <3>2. \A k \in 1..(i + 1) : ~IsReload(wire[k])
      BY <1>1, <2>1, <3>1
    <3>3. i + 1 \in 1..Len(wire)
      BY <1>1, <2>1
    <3>4. wire[i + 1].sequence = m + (i + 1) /\ wire[i + 1].epoch = e
      BY <1>2, <3>2, <3>3 DEF Segment
    <3>5. QED
      BY <1>1, <2>1, <3>4
  <2>2. CASE \A k \in 1..Len(wire) : ~IsReload(wire[k])
    <3>1. \A k \in 1..Len(rest) : ~IsReload(rest[k])
      <4>1. \A k \in 1..Len(rest) : k + 1 \in 1..Len(wire) /\ rest[k] = wire[k + 1]
        BY <1>1
      <4>2. QED
        BY <2>2, <4>1
    <3>2. e = numbering /\ m + Len(wire) = last
      BY <1>1, <1>2, <2>2 DEF Segment
    <3>3. QED
      BY <1>1, <2>1, <3>1, <3>2 DEF Segment
  <2>3. CASE \E k \in 1..Len(wire) : IsReload(wire[k])
    <3>1. PICK k \in 1..Len(wire) : IsReload(wire[k])
      BY <2>3
    <3>2. k - 1 \in 1..Len(rest) /\ rest[k - 1] = wire[k]
      BY <1>1, <3>1
    <3>3. e < numbering
      BY <1>2, <2>3 DEF Segment
    <3>4. QED
      BY <1>1, <2>1, <3>1, <3>2, <3>3 DEF Segment
  <2>4. QED
    BY <2>2, <2>3
<1>5. QED
  BY <1>1, <1>3, <1>4, WireRest DEF Wire

LEMMA WireReloadTaken ==
    ASSUME NEW wire \in Seq(ServerEvent), wire # <<>>, NEW m \in Nat, NEW e \in Nat,
           NEW last \in Nat, NEW numbering \in Nat,
           IsReload(Head(wire)),
           Wire(wire, m, e, last, numbering)
    PROVE  /\ e < numbering
           /\ \E later \in Nat : Wire(Tail(wire), 0, later, last, numbering)
<1>1. Len(wire) \in Nat /\ 1 \in 1..Len(wire) /\ Head(wire) = wire[1]
  OBVIOUS
<1>2. e < numbering
  BY <1>1 DEF Wire, Segment
<1>3. PICK later \in Nat : Segment(wire, 1, 0, later, last, numbering)
  BY <1>1 DEF Wire
<1>4. Segment(Tail(wire), 1 - 1, 0, later, last, numbering)
  BY <1>1, <1>3, SegmentMoves
<1>5. Segment(Tail(wire), 0, 0, later, last, numbering)
  BY <1>4
<1>6. QED
  BY <1>2, <1>5, WireRest DEF Wire

(***************************************************************************)
(* How what the client has taken changes.                                  *)
(***************************************************************************)
LEMMA TakenMore ==
    ASSUME NEW S, NEW events \in Seq(S), NEW x, NEW m \in Nat, NEW e,
           x.sequence = m + 1, x.epoch = e,
           AllNumbered(events, m, e)
    PROVE  /\ AllNumbered(Append(events, x), m + 1, e)
           /\ \A n : Among(Append(events, x), n) <=> Among(events, n) \/ n = m + 1
<1> DEFINE longer == Append(events, x)
<1>1. /\ DOMAIN longer = 1..(Len(events) + 1)
      /\ DOMAIN events = 1..Len(events)
      /\ \A i \in 1..Len(events) : longer[i] = events[i]
      /\ longer[Len(events) + 1] = x
      /\ Len(events) \in Nat
  OBVIOUS
<1> HIDE DEF longer
<1>2. \A i \in DOMAIN longer :
          \/ i \in DOMAIN events /\ longer[i] = events[i]
          \/ i = Len(events) + 1 /\ longer[i] = x
  BY <1>1
<1>3. \A i \in DOMAIN longer : longer[i].sequence \in 1..(m + 1) /\ longer[i].epoch = e
  BY <1>2 DEF AllNumbered
<1>4. ASSUME NEW i \in DOMAIN longer, NEW j \in DOMAIN longer,
             longer[i].sequence = longer[j].sequence
      PROVE  i = j
  BY <1>2, <1>4 DEF AllNumbered
<1>5. AllNumbered(longer, m + 1, e)
  BY <1>3, <1>4 DEF AllNumbered
<1>6. ASSUME NEW n
      PROVE  Among(longer, n) <=> Among(events, n) \/ n = m + 1
  <2>1. DOMAIN events \subseteq DOMAIN longer /\ Len(events) + 1 \in DOMAIN longer
    BY <1>1
  <2>2. QED
    BY <1>1, <1>2, <2>1 DEF Among
<1>7. QED
  BY <1>5, <1>6 DEF longer

\* One number more is where it was not before.
LEMMA FewerAllNumbered ==
    ASSUME NEW events, NEW m \in Nat, NEW e, AllNumbered(events, m, e)
    PROVE  AllNumbered(events, m + 1, e) /\ ~Among(events, m + 1)
BY DEF AllNumbered, Among

LEMMA NotInMore ==
    ASSUME NEW S, NEW events \in Seq(S), NEW x, NEW d \in LayerState,
           NotIn(d, events), x.sequence > d.mLatestAppliedSequence,
           \A u \in d.mRemoteDeltasQueue : u.sequence # x.sequence
    PROVE  NotIn(d, Append(events, x))
<1>1. \A i \in DOMAIN Append(events, x) :
          \/ i \in DOMAIN events /\ Append(events, x)[i] = events[i]
          \/ Append(events, x)[i] = x
  OBVIOUS
<1>2. QED
  BY <1>1 DEF NotIn

LEMMA TakenDelta ==
    ASSUME NEW deltas \in Seq(ServerDelta), NEW acks \in Seq(Acknowledge),
           NEW d \in LayerState, NEW l, NEW asked,
           NEW m \in Nat, NEW e \in Nat, NEW f \in Nat, NEW numbering \in Nat,
           NEW x, x.sequence = m + 1, x.epoch = e,
           Taken(deltas, acks, d, l, asked, m, e, f, numbering)
    PROVE  Taken(Append(deltas, x), acks, d, l, asked, m + 1, e, f, numbering)
<1> DEFINE longer == Append(deltas, x)
<1>1. AllNumbered(longer, m + 1, e)
  BY TakenMore DEF Taken
<1>2. \A n : Among(longer, n) <=> Among(deltas, n) \/ n = m + 1
  BY TakenMore DEF Taken
<1>3. AllNumbered(acks, m + 1, e) /\ ~Among(acks, m + 1)
  BY FewerAllNumbered DEF Taken
<1>4. \A i \in DOMAIN longer : ~Among(acks, longer[i].sequence)
  <2>1. \A i \in DOMAIN longer :
            \/ i \in DOMAIN deltas /\ longer[i] = deltas[i]
            \/ longer[i] = x
    OBVIOUS
  <2> HIDE DEF longer
  <2>2. QED
    BY <1>3, <2>1 DEF Taken
<1>5. LayerOf(d, f) /\ (l \in asked => f < numbering)
  BY DEF Taken
<1>6. ASSUME l \notin asked
      PROVE  /\ f = e
             /\ d.mLatestAppliedSequence <= m + 1
             /\ \A u \in d.mRemoteDeltasQueue : u.sequence <= m + 1
             /\ NotIn(d, longer)
             /\ NotIn(d, acks)
  <2>1. /\ f = e
        /\ d.mLatestAppliedSequence <= m
        /\ \A u \in d.mRemoteDeltasQueue : u.sequence <= m
        /\ NotIn(d, deltas)
        /\ NotIn(d, acks)
    BY <1>6 DEF Taken
  <2>2. d.mLatestAppliedSequence \in Nat /\ \A u \in d.mRemoteDeltasQueue : u.sequence \in Nat
    BY DEF LayerState, Update
  <2>3. NotIn(d, longer)
    BY <2>1, <2>2, NotInMore
  <2>4. QED
    BY <2>1, <2>2, <2>3
<1>7. l \in OpenedFirst =>
          \A n \in 1..(m + 1) :
              Among(longer, n) \/ Among(acks, n) \/ (l \notin asked /\ InLayer(d, n))
  <2>1. \A n \in 1..(m + 1) : n \in 1..m \/ n = m + 1
    OBVIOUS
  <2>2. QED
    BY <1>2, <2>1 DEF Taken
<1>8. QED
  <2> HIDE DEF longer
  <2> QED BY <1>1, <1>3, <1>4, <1>5, <1>6, <1>7 DEF Taken, longer

LEMMA TakenAcknowledge ==
    ASSUME NEW deltas \in Seq(ServerDelta), NEW acks \in Seq(Acknowledge),
           NEW d \in LayerState, NEW l, NEW asked,
           NEW m \in Nat, NEW e \in Nat, NEW f \in Nat, NEW numbering \in Nat,
           NEW x, x.sequence = m + 1, x.epoch = e,
           Taken(deltas, acks, d, l, asked, m, e, f, numbering)
    PROVE  Taken(deltas, Append(acks, x), d, l, asked, m + 1, e, f, numbering)
<1> DEFINE longer == Append(acks, x)
<1>1. AllNumbered(longer, m + 1, e)
  BY TakenMore DEF Taken
<1>2. \A n : Among(longer, n) <=> Among(acks, n) \/ n = m + 1
  BY TakenMore DEF Taken
<1>3. AllNumbered(deltas, m + 1, e) /\ ~Among(deltas, m + 1)
  BY FewerAllNumbered DEF Taken
<1>4. \A i \in DOMAIN deltas : ~Among(longer, deltas[i].sequence)
  <2> HIDE DEF longer
  <2>1. \A i \in DOMAIN deltas : deltas[i].sequence # m + 1
    BY <1>3 DEF Among
  <2>2. QED
    BY <1>2, <2>1 DEF Taken
<1>5. LayerOf(d, f) /\ (l \in asked => f < numbering)
  BY DEF Taken
<1>6. ASSUME l \notin asked
      PROVE  /\ f = e
             /\ d.mLatestAppliedSequence <= m + 1
             /\ \A u \in d.mRemoteDeltasQueue : u.sequence <= m + 1
             /\ NotIn(d, deltas)
             /\ NotIn(d, longer)
  <2>1. /\ f = e
        /\ d.mLatestAppliedSequence <= m
        /\ \A u \in d.mRemoteDeltasQueue : u.sequence <= m
        /\ NotIn(d, deltas)
        /\ NotIn(d, acks)
    BY <1>6 DEF Taken
  <2>2. d.mLatestAppliedSequence \in Nat /\ \A u \in d.mRemoteDeltasQueue : u.sequence \in Nat
    BY DEF LayerState, Update
  <2>3. NotIn(d, longer)
    BY <2>1, <2>2, NotInMore
  <2>4. QED
    BY <2>1, <2>2, <2>3
<1>7. l \in OpenedFirst =>
          \A n \in 1..(m + 1) :
              Among(deltas, n) \/ Among(longer, n) \/ (l \notin asked /\ InLayer(d, n))
  <2>1. \A n \in 1..(m + 1) : n \in 1..m \/ n = m + 1
    OBVIOUS
  <2>2. QED
    BY <1>2, <2>1 DEF Taken
<1>8. QED
  <2> HIDE DEF longer
  <2> QED BY <1>1, <1>3, <1>4, <1>5, <1>6, <1>7 DEF Taken, longer

LEMMA TakenReload ==
    ASSUME NEW deltas, NEW acks, NEW d, NEW l, NEW asked,
           NEW m \in Nat, NEW e \in Nat, NEW f \in Nat, NEW numbering \in Nat,
           NEW later \in Nat, e < numbering,
           Taken(deltas, acks, d, l, asked, m, e, f, numbering)
    PROVE  Taken(<<>>, <<>>, d, l, asked \cup {l}, 0, later, f, numbering)
<1>1. LayerOf(d, f) /\ f < numbering
  BY DEF Taken
<1>2. AllNumbered(<<>>, 0, later)
  BY DEF AllNumbered
<1>3. QED
  BY <1>1, <1>2 DEF Taken

LEMMA TakenWhileCut ==
    ASSUME NEW deltas, NEW acks, NEW d, NEW l, NEW asked,
           NEW m \in Nat, NEW e \in Nat, NEW f \in Nat, NEW numbering \in Nat,
           Taken(deltas, acks, d, l, asked, m, e, f, numbering)
    PROVE  Taken(deltas, acks, d, l, asked, m, e, f, numbering + 1)
BY DEF Taken

\* A layer that holds nothing of the stream.
LEMMA TakenNothing ==
    ASSUME NEW d, NEW l, NEW asked, NEW m \in Nat,
           NEW e \in Nat, NEW numbering,
           d.mRemoteDeltasQueue = {}, d.mLatestAppliedSequence = 0, d.applied = <<>>,
           l \notin asked, l \in OpenedFirst => m = 0
    PROVE  Taken(<<>>, <<>>, d, l, asked, m, e, e, numbering)
<1>1. AllNumbered(<<>>, m, e)
  BY DEF AllNumbered
<1>2. LayerOf(d, e) /\ NotIn(d, <<>>)
  BY DEF LayerOf, NotIn
<1>3. QED
  BY <1>1, <1>2 DEF Taken

(***************************************************************************)
(* What a tick queues: every number is new to the layer, so that nothing   *)
(* that waits there is replaced.                                           *)
(***************************************************************************)
Queueable(event) ==
    [sequence |-> event.sequence, updates |-> event.updates, epoch |-> event.epoch]

LEMMA AccumulateQueues ==
    ASSUME NEW d \in LayerState, NEW S, NEW updates \in Seq(S), NEW m, NEW e,
           AllNumbered(updates, m, e), NotIn(d, updates)
    PROVE  AccumulateRemoteUpdates(d, updates) =
              [d EXCEPT !.mRemoteDeltasQueue =
                  @ \cup {Queueable(updates[i]) : i \in DOMAIN updates}]
<1> DEFINE stored == {i \in DOMAIN updates : \A j \in DOMAIN updates :
                          updates[j].sequence = updates[i].sequence => j <= i}
           numbers == {updates[i].sequence : i \in stored}
<1>1. stored = DOMAIN updates
  <2>1. \A i, j \in DOMAIN updates :
            updates[j].sequence = updates[i].sequence => j = i
    BY DEF AllNumbered
  <2>2. \A i \in DOMAIN updates : i <= i
    OBVIOUS
  <2>3. \A i, j \in DOMAIN updates :
            updates[j].sequence = updates[i].sequence => j <= i
    BY <2>1, <2>2, Zenon
  <2>4. QED
    BY <2>3, Zenon
<1>2. {u \in d.mRemoteDeltasQueue : u.sequence \notin numbers} = d.mRemoteDeltasQueue
  BY DEF NotIn
<1>3. QED
  BY <1>1, <1>2 DEF AccumulateRemoteUpdates, Queueable

LEMMA LayerQueues ==
    ASSUME NEW d \in LayerState, NEW S, NEW updates \in Seq(S), NEW m \in Nat, NEW e,
           AllNumbered(updates, m, e), NotIn(d, updates), LayerOf(d, e),
           \A u \in d.mRemoteDeltasQueue : u.sequence <= m
    PROVE  LET after == AccumulateRemoteUpdates(d, updates)
           IN  /\ LayerOf(after, e)
               /\ after.mLatestAppliedSequence = d.mLatestAppliedSequence
               /\ \A u \in after.mRemoteDeltasQueue : u.sequence <= m
               /\ \A n : InLayer(after, n) <=> InLayer(d, n) \/ Among(updates, n)
               /\ \A events :
                     /\ NotIn(d, events)
                     /\ \A i \in DOMAIN events : ~Among(updates, events[i].sequence)
                     => NotIn(after, events)
<1> DEFINE after == AccumulateRemoteUpdates(d, updates)
           queued == {Queueable(updates[i]) : i \in DOMAIN updates}
<1>1. /\ after.mLatestAppliedSequence = d.mLatestAppliedSequence
      /\ after.applied = d.applied
      /\ after.mRemoteDeltasQueue = d.mRemoteDeltasQueue \cup queued
  BY AccumulateQueues DEF LayerState
<1>2. ASSUME NEW u \in queued
      PROVE  \E i \in DOMAIN updates : u.sequence = updates[i].sequence /\ u = Queueable(updates[i])
                                       /\ u.epoch = updates[i].epoch
  BY <1>2 DEF Queueable
<1>3. ASSUME NEW i \in DOMAIN updates
      PROVE  Queueable(updates[i]) \in queued /\ Queueable(updates[i]).sequence = updates[i].sequence
  BY DEF Queueable
<1> HIDE DEF after, queued
<1>4. \A u \in queued : /\ u.epoch = e
                        /\ u.sequence > d.mLatestAppliedSequence
                        /\ u.sequence <= m
  BY <1>2 DEF AllNumbered, NotIn
<1>5. \A u, v \in queued : u.sequence = v.sequence => u = v
  BY <1>2 DEF AllNumbered
<1>6. \A u \in queued, v \in d.mRemoteDeltasQueue : u.sequence # v.sequence
  BY <1>2 DEF NotIn
<1>7. LayerOf(after, e)
  BY <1>1, <1>4, <1>5, <1>6 DEF LayerOf
<1>8. \A u \in after.mRemoteDeltasQueue : u.sequence <= m
  BY <1>1, <1>4
<1>9. \A n : InLayer(after, n) <=> InLayer(d, n) \/ Among(updates, n)
  BY <1>1, <1>2, <1>3 DEF InLayer, Among
<1>10. ASSUME NEW events, NotIn(d, events),
              \A i \in DOMAIN events : ~Among(updates, events[i].sequence)
       PROVE  NotIn(after, events)
  BY <1>1, <1>2, <1>10 DEF NotIn, Among
<1>11. QED
  BY <1>1, <1>7, <1>8, <1>9, <1>10 DEF after

\* What a tick makes of the layer it has perhaps reloaded.
Queued(d, deltas, acks) ==
    AccumulateRemoteUpdates(AccumulateRemoteUpdates(FetchLocalDeltas(d), acks), deltas)

LEMMA QueuedAll ==
    ASSUME NEW d \in LayerState, NEW deltas \in Seq(ServerDelta),
           NEW acks \in Seq(Acknowledge), NEW m \in Nat, NEW e,
           AllNumbered(deltas, m, e), AllNumbered(acks, m, e),
           \A i \in DOMAIN deltas : ~Among(acks, deltas[i].sequence),
           NotIn(d, deltas), NotIn(d, acks), LayerOf(d, e),
           d.mLatestAppliedSequence <= m,
           \A u \in d.mRemoteDeltasQueue : u.sequence <= m
    PROVE  LET after == Queued(d, deltas, acks)
           IN  /\ LayerOf(after, e)
               /\ after.mLatestAppliedSequence <= m
               /\ \A u \in after.mRemoteDeltasQueue : u.sequence <= m
               /\ \A n : InLayer(after, n)
                         <=> InLayer(d, n) \/ Among(acks, n) \/ Among(deltas, n)
<1> DEFINE fetched == FetchLocalDeltas(d)
           acknowledged == AccumulateRemoteUpdates(fetched, acks)
           after == AccumulateRemoteUpdates(acknowledged, deltas)
<1>1. /\ fetched \in LayerState
      /\ fetched.mRemoteDeltasQueue = d.mRemoteDeltasQueue
      /\ fetched.mLatestAppliedSequence = d.mLatestAppliedSequence
      /\ fetched.applied = d.applied
  BY FetchLocalDeltasType DEF FetchLocalDeltas, LayerState
<1> HIDE DEF fetched
<1>2. /\ NotIn(fetched, deltas) /\ NotIn(fetched, acks) /\ LayerOf(fetched, e)
      /\ \A n : InLayer(fetched, n) <=> InLayer(d, n)
  BY <1>1 DEF NotIn, LayerOf, InLayer
<1>3. acknowledged \in LayerState
  <2>1. acks \in Seq(ServerDelta \cup Acknowledge)
    BY SeqOfSubset
  <2>2. QED
    BY <1>1, <2>1, AccumulateRemoteUpdatesType
<1>4. /\ LayerOf(acknowledged, e)
      /\ acknowledged.mLatestAppliedSequence = fetched.mLatestAppliedSequence
      /\ \A u \in acknowledged.mRemoteDeltasQueue : u.sequence <= m
      /\ \A n : InLayer(acknowledged, n) <=> InLayer(fetched, n) \/ Among(acks, n)
      /\ NotIn(acknowledged, deltas)
  BY <1>1, <1>2, LayerQueues
<1> HIDE DEF acknowledged
<1>5. /\ LayerOf(after, e)
      /\ after.mLatestAppliedSequence = acknowledged.mLatestAppliedSequence
      /\ \A u \in after.mRemoteDeltasQueue : u.sequence <= m
      /\ \A n : InLayer(after, n) <=> InLayer(acknowledged, n) \/ Among(deltas, n)
  BY <1>3, <1>4, LayerQueues
<1>6. after = Queued(d, deltas, acks)
  BY DEF Queued, acknowledged, fetched
<1> HIDE DEF after
<1>7. QED
  BY <1>1, <1>2, <1>4, <1>5, <1>6

LEMMA TakenTick ==
    ASSUME NEW deltas \in Seq(ServerDelta), NEW acks \in Seq(Acknowledge),
           NEW d \in LayerState, NEW file \in Contents,
           NEW l, NEW asked,
           NEW m \in Nat, NEW e \in Nat, NEW f \in Nat, NEW numbering \in Nat,
           Taken(deltas, acks, d, l, asked, m, e, f, numbering)
    PROVE  Taken(<<>>, <<>>,
                 Queued(IF l \in asked THEN OnLoaded(file) ELSE d, deltas, acks),
                 l, {}, m, e, e, numbering)
<1> DEFINE start == IF l \in asked THEN OnLoaded(file) ELSE d
           after == Queued(start, deltas, acks)
<1>1. /\ AllNumbered(deltas, m, e) /\ AllNumbered(acks, m, e)
      /\ \A i \in DOMAIN deltas : ~Among(acks, deltas[i].sequence)
  BY DEF Taken
<1>2. /\ start \in LayerState
      /\ NotIn(start, deltas) /\ NotIn(start, acks) /\ LayerOf(start, e)
      /\ start.mLatestAppliedSequence <= m
      /\ \A u \in start.mRemoteDeltasQueue : u.sequence <= m
  <2>1. CASE l \in asked
    <3>1. start \in LayerState
      BY <2>1, OnLoadedType
    <3>2. /\ start.mRemoteDeltasQueue = {} /\ start.mLatestAppliedSequence = 0
          /\ start.applied = <<>>
      BY <2>1 DEF OnLoaded
    <3> HIDE DEF start
    <3>3. NotIn(start, deltas) /\ NotIn(start, acks)
      BY <1>1, <3>2 DEF NotIn, AllNumbered
    <3>4. LayerOf(start, e)
      BY <3>2 DEF LayerOf
    <3>5. QED
      BY <3>1, <3>2, <3>3, <3>4
  <2>2. CASE l \notin asked
    BY <2>2 DEF Taken
  <2>3. QED
    BY <2>1, <2>2
<1>3. l \in OpenedFirst => \A n \in 1..m : InLayer(start, n) \/ Among(acks, n) \/ Among(deltas, n)
  <2>1. CASE l \in asked
    BY <2>1 DEF Taken
  <2>2. CASE l \notin asked
    BY <2>2 DEF Taken
  <2>3. QED
    BY <2>1, <2>2
<1> HIDE DEF start
<1>4. /\ LayerOf(after, e)
      /\ after.mLatestAppliedSequence <= m
      /\ \A u \in after.mRemoteDeltasQueue : u.sequence <= m
      /\ \A n : InLayer(after, n) <=> InLayer(start, n) \/ Among(acks, n) \/ Among(deltas, n)
  BY <1>1, <1>2, QueuedAll
<1> HIDE DEF after
<1>5. AllNumbered(<<>>, m, e) /\ NotIn(after, <<>>)
  BY DEF AllNumbered, NotIn
<1>6. Taken(<<>>, <<>>, after, l, {}, m, e, e, numbering)
  BY <1>3, <1>4, <1>5 DEF Taken
<1>7. QED
  BY <1>6 DEF after, start

LEMMA TakenApply ==
    ASSUME NEW deltas, NEW acks, NEW d \in LayerState, NEW l, NEW asked,
           NEW m \in Nat, NEW e \in Nat, NEW f \in Nat, NEW numbering \in Nat,
           HasNextUpdate(d),
           Taken(deltas, acks, d, l, asked, m, e, f, numbering)
    PROVE  Taken(deltas, acks, ApplyNextUpdate(d), l, asked, m, e, f, numbering)
<1> DEFINE update == CHOOSE u \in d.mRemoteDeltasQueue : IsNextUpdate(d, u)
           after == ApplyNextUpdate(d)
<1>1. update \in d.mRemoteDeltasQueue /\ update.sequence = d.mLatestAppliedSequence + 1
  BY DEF HasNextUpdate, IsNextUpdate
<1>2. /\ after.applied = Append(d.applied, update)
      /\ after.mLatestAppliedSequence = update.sequence
      /\ after.mRemoteDeltasQueue = d.mRemoteDeltasQueue \ {update}
  BY DEF ApplyNextUpdate, LayerState
<1>3. /\ d.applied \in Seq(Update) /\ d.mLatestAppliedSequence \in Nat
      /\ \A u \in d.mRemoteDeltasQueue : u.sequence \in Nat
  BY DEF LayerState, Update
<1> HIDE DEF update, after
<1>4. LayerOf(d, f)
  BY DEF Taken
<1>5. LayerOf(after, f)
  <2>1. \A n \in DOMAIN after.applied :
            \/ n \in DOMAIN d.applied /\ after.applied[n] = d.applied[n]
            \/ after.applied[n] = update
    BY <1>2, <1>3
  <2>2. \A n \in DOMAIN after.applied : after.applied[n].epoch = f
    BY <1>1, <1>4, <2>1 DEF LayerOf
  <2>3. ASSUME NEW u \in after.mRemoteDeltasQueue
        PROVE  u.epoch = f /\ u.sequence > after.mLatestAppliedSequence
    <3>1. u \in d.mRemoteDeltasQueue /\ u # update
      BY <1>2
    <3>2. u.sequence # update.sequence /\ u.sequence > d.mLatestAppliedSequence
      BY <1>1, <1>4, <3>1 DEF LayerOf
    <3>3. QED
      BY <1>1, <1>2, <1>3, <1>4, <3>1, <3>2 DEF LayerOf
  <2>4. QED
    BY <1>2, <1>4, <2>2, <2>3 DEF LayerOf
<1>6. ASSUME NEW events, NotIn(d, events), AllNumbered(events, m, e)
      PROVE  NotIn(after, events)
  <2>1. \A i \in DOMAIN events :
            /\ events[i].sequence \in Nat
            /\ events[i].sequence > d.mLatestAppliedSequence
            /\ events[i].sequence # update.sequence
    BY <1>1, <1>6 DEF NotIn, AllNumbered
  <2>2. QED
    BY <1>1, <1>2, <1>3, <1>6, <2>1 DEF NotIn
<1>7. ASSUME NEW n \in 1..m, InLayer(d, n)
      PROVE  InLayer(after, n)
  <2>1. CASE n <= d.mLatestAppliedSequence
    BY <1>1, <1>2, <1>3, <2>1 DEF InLayer
  <2>2. CASE \E u \in d.mRemoteDeltasQueue : u.sequence = n
    BY <1>1, <1>2, <1>3, <2>2 DEF InLayer
  <2>3. QED
    BY <1>7, <2>1, <2>2 DEF InLayer
<1>8. ASSUME l \notin asked
      PROVE  /\ f = e
             /\ after.mLatestAppliedSequence <= m
             /\ \A u \in after.mRemoteDeltasQueue : u.sequence <= m
             /\ NotIn(after, deltas)
             /\ NotIn(after, acks)
  BY <1>1, <1>2, <1>6, <1>8 DEF Taken
<1>9. QED
  BY <1>5, <1>7, <1>8 DEF Taken, after

(***************************************************************************)
(* Connections, step by step.                                              *)
(***************************************************************************)
LEMMA ConnectionsInit == Init => Connections
<1> SUFFICES ASSUME Init PROVE Connections
  OBVIOUS
<1> USE DEF Init
<1>1. FreshSessions /\ OneSession /\ OnlyReloadersReload
  BY DEF WireInit, ServerInit, FreshSessions, OneSession, OnlyReloadersReload, SessionsOf
<1>2. StayConnected /\ Untouched
  BY DEF ClientInit, StayConnected, Untouched, Steady, InLiveMode
<1>3. NothingYet
  BY DEF ClientInit, NothingYet, Silent, OnLoaded, Steady
<1>4. QED
  BY <1>1, <1>2, <1>3 DEF Connections

LEMMA ConnectionsJoin ==
    ASSUME TypeInv, Delivery, Connections, NEW c \in Clients, NEW s \in Sessions, Join(c, s)
    PROVE  Connections'
<1> USE DEF Join, OnConnected, ClientOnConnected
<1>1. WireTypeOK /\ ServerTypeOK /\ ClientTypeOK
  BY DEF TypeInv, TypeOK
<1>2. ClientOf[s] = c /\ link[s] = "new"
  BY DEF SessionsOf
<1>3. FreshSessions'
  BY <1>1 DEF Connections, FreshSessions, WireTypeOK, ClientTypeOK
<1>4. StayConnected'
  <2>1. \A d \in Steady : d \in Clients
    BY DEF Steady
  <2>2. ASSUME NEW d \in Steady, InLiveMode(d)'
        PROVE  /\ link'[mWebsocketClient'[d]] = "up"
               /\ mWebsocketClient'[d] \in mConnections'
               /\ OpenedFirst \subseteq mLayerRegistry'[d]
    <3>1. CASE d = c
      BY <1>1, <2>1, <3>1 DEF ClientTypeOK
    <3>2. CASE d # c
      <4>1. mWebsocketClient'[d] = mWebsocketClient[d] /\ InLiveMode(d)
        BY <1>1, <2>1, <2>2, <3>2 DEF ClientTypeOK, InLiveMode
      <4>2. mWebsocketClient[d] # s
        BY <1>2, <2>1, <3>2, <4>1 DEF Delivery, OwnSessions
      <4>3. QED
        BY <1>1, <2>1, <4>1, <4>2 DEF Connections, StayConnected, ClientTypeOK
    <3>3. QED
      BY <3>1, <3>2
  <2>3. QED
    BY <2>2 DEF StayConnected
<1>5. OneSession'
  <2>1. ASSUME NEW d \in Steady, NEW t \in SessionsOf(d),
               t \in serverUp' \/ (\E l \in Layers : toServer'[t][l] # <<>>)
        PROVE  mWebsocketClient'[d] = t
    <3>1. d \in Clients /\ t \in Sessions /\ ClientOf[t] = d
      BY DEF Steady, SessionsOf
    <3>2. CASE d = c
      <4>1. ~InLiveMode(c)
        BY <3>2 DEF Connections, StayConnected, IsConnected
      <4>2. mWebsocketClient[c] \notin Sessions
        BY <1>1, <4>1, LiveClientAssumption DEF InLiveMode
      <4>3. t \notin serverUp /\ ~(\E l \in Layers : toServer[t][l] # <<>>)
        BY <3>1, <3>2, <4>2 DEF Connections, OneSession
      <4>4. t = s
        BY <2>1, <4>3
      <4>5. QED
        BY <1>1, <3>2, <4>4 DEF ClientTypeOK
    <3>3. CASE d # c
      <4>1. t # s
        BY <1>2, <3>1, <3>3
      <4>2. mWebsocketClient[d] = t
        BY <2>1, <4>1 DEF Connections, OneSession
      <4>3. QED
        BY <1>1, <3>1, <3>3, <4>2 DEF ClientTypeOK
    <3>4. QED
      BY <3>2, <3>3
  <2>2. QED
    BY <2>1 DEF OneSession, SessionsOf
<1>6. OnlyReloadersReload' /\ Untouched'
  BY DEF Connections, OnlyReloadersReload, Untouched
<1>7. NothingYet'
  <2>1. ASSUME NEW d \in Steady, ~InLiveMode(d)'
        PROVE  ~InLiveMode(d)
    BY <1>1, <2>1, LiveClientAssumption DEF Steady, InLiveMode, ClientTypeOK
  <2>2. QED
    BY <2>1 DEF Connections, NothingYet
<1>8. QED
  BY <1>3, <1>4, <1>5, <1>6, <1>7 DEF Connections

LEMMA ConnectionsLeave ==
    ASSUME TypeInv, Delivery, Connections, NEW c \in Clients, Leave(c)
    PROVE  Connections'
<1> DEFINE s == mWebsocketClient[c]
<1>1. /\ WireTypeOK /\ ServerTypeOK /\ ClientTypeOK
      /\ c \in Leavers /\ InLiveMode(c)
  BY DEF TypeInv, TypeOK, Leave, ClientOnDisconnected, Disconnect, IsConnected
<1>2. /\ s \in Sessions /\ ClientOf[s] = c
      /\ link' = [link EXCEPT ![s] = "down"]
      /\ toClient' = [toClient EXCEPT ![s] = Silent]
      /\ \/ mWebsocketClient' = mWebsocketClient
         \/ mWebsocketClient' = [mWebsocketClient EXCEPT ![c] = NoSession]
      /\ UNCHANGED <<toServer, mLayerRegistry, data, mAccumulatedDeltas,
                     mAccumulatedAcknowledges, mRequestedReloads, serverUp, mConnections>>
  BY <1>1 DEF Delivery, OwnSessions, InLiveMode, ClientTypeOK, Leave, ClientOnDisconnected,
              Disconnect, serverVars
<1> HIDE DEF s
<1>3. \A d \in Steady : d \in Clients /\ d # c
  BY <1>1 DEF Steady
<1>4. \A d \in Steady : mWebsocketClient'[d] = mWebsocketClient[d]
  BY <1>1, <1>2, <1>3 DEF ClientTypeOK
<1>5. FreshSessions'
  <2>1. \A t \in Sessions : link'[t] = "new" => link[t] = "new" /\ t # s
    BY <1>1, <1>2 DEF ClientTypeOK
  <2>2. \A t \in Sessions : t # s => toClient'[t] = toClient[t]
    BY <1>1, <1>2 DEF WireTypeOK
  <2>3. QED
    BY <1>2, <2>1, <2>2 DEF Connections, FreshSessions
<1>6. StayConnected'
  <2>1. ASSUME NEW d \in Steady, InLiveMode(d)'
        PROVE  /\ link'[mWebsocketClient'[d]] = "up"
               /\ mWebsocketClient'[d] \in mConnections'
               /\ OpenedFirst \subseteq mLayerRegistry'[d]
    <3>1. InLiveMode(d)
      BY <1>4, <2>1 DEF InLiveMode
    <3>2. mWebsocketClient[d] # s
      BY <1>2, <1>3, <3>1 DEF Delivery, OwnSessions
    <3>3. mWebsocketClient[d] \in Sessions
      BY <1>1, <1>3, <3>1 DEF ClientTypeOK, InLiveMode
    <3>4. QED
      BY <1>1, <1>2, <1>4, <3>1, <3>2, <3>3 DEF Connections, StayConnected, ClientTypeOK
  <2>2. QED
    BY <2>1 DEF StayConnected
<1>7. OneSession'
  BY <1>2, <1>4 DEF Connections, OneSession, SessionsOf
<1>8. OnlyReloadersReload' /\ Untouched'
  BY <1>2 DEF Connections, OnlyReloadersReload, Untouched
<1>9. NothingYet'
  BY <1>2, <1>4 DEF Connections, NothingYet, InLiveMode
<1>10. QED
  BY <1>5, <1>6, <1>7, <1>8, <1>9 DEF Connections

LEMMA ConnectionsServerNotices ==
    ASSUME TypeInv, Delivery, Connections, NEW s \in Sessions, ServerNotices(s)
    PROVE  Connections'
<1> USE DEF ServerNotices, OnDisconnected
<1>1. /\ WireTypeOK /\ ServerTypeOK /\ ClientTypeOK
      /\ UNCHANGED <<mWebsocketClient, link, mLayerRegistry, data, mAccumulatedDeltas,
                     mAccumulatedAcknowledges, mRequestedReloads, toClient>>
  BY DEF TypeInv, TypeOK, clientVars
<1>2. \A t \in Sessions, l \in Layers :
          toServer'[t][l] = toServer[t][l] \/ toServer'[t][l] = <<>>
  BY <1>1 DEF WireTypeOK, Silent
<1>3. FreshSessions'
  BY <1>1, <1>2 DEF Connections, FreshSessions
<1>4. StayConnected'
  <2>1. ASSUME NEW d \in Steady, InLiveMode(d)
        PROVE  mWebsocketClient[d] \in mConnections'
    <3>1. mWebsocketClient[d] \in mConnections
      BY <2>1 DEF Connections, StayConnected
    <3>2. CASE mWebsocketClient[d] \in SessionsOf(ClientOf[s])
      <4>1. ClientOf[mWebsocketClient[d]] \in Leavers
        BY <3>2 DEF SessionsOf
      <4>2. ClientOf[mWebsocketClient[d]] = d /\ d \notin Leavers
        BY <2>1 DEF Delivery, OwnSessions, Steady
      <4>3. QED
        BY <4>1, <4>2
    <3>3. QED
      BY <3>1, <3>2
  <2>2. QED
    BY <1>1, <2>1 DEF Connections, StayConnected, InLiveMode
<1>5. OneSession'
  BY <1>1, <1>2 DEF Connections, OneSession, SessionsOf
<1>6. OnlyReloadersReload'
  <2>1. \A t \in Sessions, l \in Layers : \A i \in DOMAIN toServer'[t][l] :
            i \in DOMAIN toServer[t][l] /\ toServer'[t][l] = toServer[t][l]
    BY <1>2
  <2>2. QED
    BY <2>1 DEF Connections, OnlyReloadersReload
<1>7. Untouched' /\ NothingYet'
  BY <1>1 DEF Connections, Untouched, NothingYet, InLiveMode
<1>8. QED
  BY <1>3, <1>4, <1>5, <1>6, <1>7 DEF Connections

LEMMA ConnectionsServerReceives ==
    ASSUME TypeInv, Connections, NEW s \in Sessions, NEW l \in Layers, ServerReceives(s, l)
    PROVE  Connections'
<1>1. /\ WireTypeOK /\ ServerTypeOK /\ ClientTypeOK
      /\ UNCHANGED <<mWebsocketClient, link, mLayerRegistry, data, mAccumulatedDeltas,
                     mAccumulatedAcknowledges, mRequestedReloads, serverUp, mConnections>>
  BY DEF TypeInv, TypeOK, clientVars, ServerReceives, OnDeltaEvent, OnReloadEvent
<1>2. /\ s \in serverUp
      /\ toServer[s][l] # <<>>
      /\ toServer' = [toServer EXCEPT ![s][l] = Tail(@)]
  BY DEF ServerReceives, OnDeltaEvent, OnReloadEvent, TakeFromClient
<1>3. ASSUME NEW t \in Sessions, t \notin mConnections, t # s
      PROVE  \A m \in Layers : toClient'[t][m] = toClient[t][m]
  <2>1. \/ UNCHANGED toClient
        \/ \E event, toSender : SendToOthers(s, l, event, toSender)
    BY DEF ServerReceives, OnDeltaEvent, OnReloadEvent
  <2>2. ASSUME NEW event, NEW toSender, SendToOthers(s, l, event, toSender)
        PROVE  \A m \in Layers : toClient'[t][m] = toClient[t][m]
    <3>1. toClient'[t] = [toClient[t] EXCEPT ![l] = @ \o <<>>]
      BY <1>3, <2>2 DEF SendToOthers, Recipients
    <3>2. toClient[t] \in [Layers -> Seq(ServerEvent)]
      BY <1>1 DEF WireTypeOK
    <3>3. QED
      BY <3>1, <3>2
  <2>3. QED
    BY <2>1, <2>2
<1>4. \A t \in Sessions, m \in Layers :
          /\ toServer[t][m] = <<>> => toServer'[t][m] = <<>>
          /\ \A i \in DOMAIN toServer'[t][m] :
                \E j \in DOMAIN toServer[t][m] : toServer'[t][m][i] = toServer[t][m][j]
  <2>1. ASSUME NEW t \in Sessions, NEW m \in Layers
        PROVE  /\ toServer[t][m] = <<>> => toServer'[t][m] = <<>>
               /\ \A i \in DOMAIN toServer'[t][m] :
                     \E j \in DOMAIN toServer[t][m] : toServer'[t][m][i] = toServer[t][m][j]
    <3>1. CASE t = s /\ m = l
      <4>1. toServer'[t][m] = Tail(toServer[s][l]) /\ toServer[s][l] \in Seq(ClientEvent)
        BY <1>1, <1>2, <3>1 DEF WireTypeOK
      <4>2. ASSUME NEW i \in DOMAIN Tail(toServer[s][l])
            PROVE  /\ i + 1 \in DOMAIN toServer[s][l]
                   /\ Tail(toServer[s][l])[i] = toServer[s][l][i + 1]
        BY <1>2, <4>1
      <4>3. QED
        BY <1>2, <3>1, <4>1, <4>2
    <3>2. CASE ~(t = s /\ m = l)
      BY <1>1, <1>2, <3>2 DEF WireTypeOK
    <3>3. QED
      BY <3>1, <3>2
  <2>2. QED
    BY <2>1
<1>5. FreshSessions'
  <2>1. ASSUME NEW t \in Sessions, link[t] = "new"
        PROVE  \A m \in Layers : toClient'[t][m] = <<>> /\ toServer'[t][m] = <<>>
    BY <1>2, <1>3, <1>4, <2>1 DEF Connections, FreshSessions
  <2>2. QED
    BY <1>1, <2>1 DEF Connections, FreshSessions
<1>6. StayConnected' /\ Untouched' /\ NothingYet'
  BY <1>1 DEF Connections, StayConnected, Untouched, NothingYet, InLiveMode
<1>7. OneSession'
  BY <1>1, <1>4 DEF Connections, OneSession, SessionsOf
<1>8. OnlyReloadersReload'
  BY <1>4 DEF Connections, OnlyReloadersReload
<1>9. QED
  BY <1>5, <1>6, <1>7, <1>8 DEF Connections

LEMMA ConnectionsClientReceives ==
    ASSUME TypeInv, Connections, NEW c \in Clients, NEW l \in Layers, ClientReceives(c, l)
    PROVE  Connections'
<1> DEFINE s == mWebsocketClient[c]
<1>1. /\ WireTypeOK /\ ServerTypeOK /\ ClientTypeOK
      /\ UNCHANGED <<mWebsocketClient, link, mLayerRegistry, data, toServer, serverUp,
                     mConnections>>
      /\ InLiveMode(c) /\ s \in Sessions /\ link[s] = "up"
      /\ toClient' = [toClient EXCEPT ![s][l] = Tail(@)]
  BY DEF TypeInv, TypeOK, serverVars, ClientReceives, OnMessage, IsConnected, InLiveMode,
         ClientTypeOK
<1>2. \A d \in Clients \ {c} :
          /\ mAccumulatedDeltas'[d] = mAccumulatedDeltas[d]
          /\ mAccumulatedAcknowledges'[d] = mAccumulatedAcknowledges[d]
          /\ mRequestedReloads'[d] = mRequestedReloads[d]
  BY <1>1 DEF ClientReceives, OnMessage, ClientTypeOK
<1> HIDE DEF s
<1>3. FreshSessions'
  <2>1. \A t \in Sessions : t # s => toClient'[t] = toClient[t]
    BY <1>1 DEF WireTypeOK
  <2>2. QED
    BY <1>1, <2>1 DEF Connections, FreshSessions
<1>4. StayConnected' /\ Untouched' /\ OneSession' /\ OnlyReloadersReload'
  BY <1>1 DEF Connections, StayConnected, Untouched, InLiveMode, OneSession,
              OnlyReloadersReload
<1>5. NothingYet'
  <2>1. \A d \in Steady : ~InLiveMode(d)' => ~InLiveMode(d) /\ d \in Clients \ {c}
    BY <1>1 DEF InLiveMode, Steady
  <2>2. QED
    BY <1>1, <1>2, <2>1 DEF Connections, NothingYet
<1>6. QED
  BY <1>3, <1>4, <1>5 DEF Connections

\* What the host's thread has to show: that it only sends on its own socket, reloads
\* only if it is said to, and leaves clients and layers alone that take no part.
LEMMA HostKeepsConnections ==
    ASSUME TypeInv, Delivery, Connections, NEW c \in Clients,
           UNCHANGED <<mWebsocketClient, link, toClient, serverUp, mConnections>>,
           \A d \in Clients : mLayerRegistry[d] \subseteq mLayerRegistry'[d],
           \A s \in Sessions, l \in Layers :
               /\ toServer'[s][l] # toServer[s][l] => IsConnected(c) /\ s = mWebsocketClient[c]
               /\ \A i \in DOMAIN toServer'[s][l] :
                     IsReload(toServer'[s][l][i]) => ClientOf[s] \in Reloaders,
           Untouched', NothingYet'
    PROVE  Connections'
<1>1. IsConnected(c) => ClientOf[mWebsocketClient[c]] = c /\ link[mWebsocketClient[c]] = "up"
  BY DEF IsConnected, Delivery, OwnSessions
<1>2. FreshSessions'
  BY <1>1 DEF Connections, FreshSessions
<1>3. StayConnected'
  BY DEF Connections, StayConnected, InLiveMode, Steady
<1>4. OneSession'
  <2>1. ASSUME NEW d \in Steady, NEW s \in SessionsOf(d),
               s \in serverUp \/ (\E l \in Layers : toServer'[s][l] # <<>>)
        PROVE  mWebsocketClient[d] = s
    <3>1. CASE s \in serverUp \/ (\E l \in Layers : toServer[s][l] # <<>>)
      BY <3>1 DEF Connections, OneSession
    <3>2. CASE \E l \in Layers : toServer'[s][l] # toServer[s][l]
      BY <1>1, <3>2 DEF SessionsOf
    <3>3. QED
      BY <2>1, <3>1, <3>2
  <2>2. QED
    BY <2>1 DEF OneSession, SessionsOf
<1>5. OnlyReloadersReload'
  BY DEF OnlyReloadersReload
<1>6. QED
  BY <1>2, <1>3, <1>4, <1>5 DEF Connections

\* What is sent arrives behind what is on the socket of the sender, if there is one.
LEMMA SentBehind ==
    ASSUME WireTypeOK, ClientTypeOK, NEW c \in Clients,
           NEW to \in [Layers -> Seq(ClientEvent)], Send(c, to),
           NEW s \in Sessions, NEW l \in Layers
    PROVE  toServer'[s][l] = IF IsConnected(c) /\ s = mWebsocketClient[c]
                             THEN toServer[s][l] \o to[l]
                             ELSE toServer[s][l]
BY DEF Send, WireTypeOK

LEMMA ReloadsOnlyIfSent ==
    ASSUME WireTypeOK, ClientTypeOK, OwnSessions, OnlyReloadersReload, NEW c \in Clients,
           NEW to \in [Layers -> Seq(ClientEvent)], Send(c, to),
           c \in Reloaders \/ \A l \in Layers : \A i \in DOMAIN to[l] : ~IsReload(to[l][i])
    PROVE  \A s \in Sessions, l \in Layers :
               /\ toServer'[s][l] # toServer[s][l] => IsConnected(c) /\ s = mWebsocketClient[c]
               /\ \A i \in DOMAIN toServer'[s][l] :
                     IsReload(toServer'[s][l][i]) => ClientOf[s] \in Reloaders
<1> SUFFICES ASSUME NEW s \in Sessions, NEW l \in Layers
             PROVE  /\ toServer'[s][l] # toServer[s][l]
                       => IsConnected(c) /\ s = mWebsocketClient[c]
                    /\ \A i \in DOMAIN toServer'[s][l] :
                          IsReload(toServer'[s][l][i]) => ClientOf[s] \in Reloaders
  OBVIOUS
<1>1. CASE IsConnected(c) /\ s = mWebsocketClient[c]
  <2>1. toServer'[s][l] = toServer[s][l] \o to[l]
    <3>1. toServer'[s][l] = IF IsConnected(c) /\ s = mWebsocketClient[c]
                            THEN toServer[s][l] \o to[l]
                            ELSE toServer[s][l]
      BY ONLY WireTypeOK, ClientTypeOK, c \in Clients, to \in [Layers -> Seq(ClientEvent)],
              Send(c, to), s \in Sessions, l \in Layers, SentBehind
    <3>2. QED
      BY <1>1, <3>1, Zenon
  <2>2. ClientOf[s] = c
    BY <1>1 DEF OwnSessions, IsConnected
  <2>3. toServer[s][l] \in Seq(ClientEvent) /\ to[l] \in Seq(ClientEvent)
    BY DEF WireTypeOK
  <2>4. ASSUME NEW i \in DOMAIN toServer'[s][l]
        PROVE  \/ i \in DOMAIN toServer[s][l] /\ toServer'[s][l][i] = toServer[s][l][i]
               \/ \E j \in DOMAIN to[l] : toServer'[s][l][i] = to[l][j]
    <3>1. CASE i <= Len(toServer[s][l])
      BY <2>1, <2>3, <2>4, <3>1
    <3>2. CASE i > Len(toServer[s][l])
      <4>1. /\ i - Len(toServer[s][l]) \in DOMAIN to[l]
            /\ toServer'[s][l][i] = to[l][i - Len(toServer[s][l])]
        BY <2>1, <2>3, <2>4, <3>2
      <4>2. QED
        BY <4>1
    <3>3. QED
      BY <2>1, <2>3, <2>4, <3>1, <3>2
  <2>5. QED
    BY <1>1, <2>2, <2>4 DEF OnlyReloadersReload
<1>2. CASE ~(IsConnected(c) /\ s = mWebsocketClient[c])
  BY <1>2, SentBehind DEF OnlyReloadersReload
<1>3. QED
  BY <1>1, <1>2

LEMMA SetKeepsStream ==
    ASSUME NEW d \in LayerState, NEW p, NEW k, NEW v
    PROVE  /\ Set(d, p, k, v).mRemoteDeltasQueue = d.mRemoteDeltasQueue
           /\ Set(d, p, k, v).applied = d.applied
           /\ Set(d, p, k, v).mLatestAppliedSequence = d.mLatestAppliedSequence
BY DEF Set, LayerState

LEMMA EditOf ==
    ASSUME TypeInv, NEW c \in Clients, NEW l \in Layers, HostEdits(c, l)
    PROVE  /\ UNCHANGED <<wireVars, serverVars, mWebsocketClient, link, mLayerRegistry,
                          mAccumulatedDeltas, mAccumulatedAcknowledges,
                          mRequestedReloads, processing>>
           /\ l \in mLayerRegistry[c]
           /\ \E p \in Paths : \E k \in FieldsOf[p] : \E v \in Value :
                 /\ HasSpec(data[c][l], p)
                 /\ data' = [data EXCEPT ![c][l] = Set(data[c][l], p, k, v)]
<1>1. PICK p \in Paths : \E k \in FieldsOf[p] :
          \E v \in Inputs(data[c][l].mData[p][k], k) : Edit(c, l, p, k, v)
  BY DEF HostEdits
<1>2. PICK k \in FieldsOf[p] :
          \E v \in Inputs(data[c][l].mData[p][k], k) : Edit(c, l, p, k, v)
  BY <1>1
<1>3. PICK v \in Inputs(data[c][l].mData[p][k], k) : Edit(c, l, p, k, v)
  BY <1>2
<1>4. k \in Keys /\ edits \in Nat
  BY LiveSessionAssumption DEF TypeInv, TypeOK
<1>5. data[c][l] \in LayerState /\ HasSpec(data[c][l], p)
  BY <1>3 DEF Edit, TypeInv, TypeOK, ClientTypeOK
<1>6. data[c][l].mData[p][k] \in Value
  BY <1>4, <1>5 DEF HasSpec, LayerState, Contents, SpecData
<1>7. v \in Value
  BY <1>4, <1>6, InputsType
<1>8. QED
  BY <1>3, <1>5, <1>7 DEF Edit, HostEdits

LEMMA EditKeepsStreams ==
    ASSUME TypeInv, NEW c \in Clients, NEW l \in Layers, HostEdits(c, l)
    PROVE  \A d \in Clients, m \in Layers :
               /\ data'[d][m].mRemoteDeltasQueue = data[d][m].mRemoteDeltasQueue
               /\ data'[d][m].applied = data[d][m].applied
               /\ data'[d][m].mLatestAppliedSequence = data[d][m].mLatestAppliedSequence
               /\ m \notin mLayerRegistry[d] => data'[d][m] = data[d][m]
<1>1. PICK p \in Paths : \E k \in FieldsOf[p] : \E v \in Value :
          data' = [data EXCEPT ![c][l] = Set(data[c][l], p, k, v)]
  BY EditOf
<1>2. PICK k \in FieldsOf[p] : \E v \in Value :
          data' = [data EXCEPT ![c][l] = Set(data[c][l], p, k, v)]
  BY <1>1
<1>3. PICK v \in Value : data' = [data EXCEPT ![c][l] = Set(data[c][l], p, k, v)]
  BY <1>2
<1>4. l \in mLayerRegistry[c]
  BY EditOf
<1>5. QED
  BY <1>3, <1>4, SetKeepsStream DEF TypeInv, TypeOK, ClientTypeOK

LEMMA ConnectionsHostEdits ==
    ASSUME TypeInv, Delivery, Connections, NEW c \in Clients, NEW l \in Layers,
           HostEdits(c, l)
    PROVE  Connections'
<1>1. UNCHANGED <<toServer, toClient, serverUp, mConnections, mWebsocketClient, link,
                  mLayerRegistry, mAccumulatedDeltas, mAccumulatedAcknowledges,
                  mRequestedReloads>>
  BY EditOf DEF wireVars, serverVars
<1>2. Untouched'
  BY <1>1, EditKeepsStreams DEF Connections, Untouched
<1>3. NothingYet'
  BY <1>1, EditKeepsStreams DEF Connections, NothingYet, InLiveMode, Steady
<1>4. QED
  BY <1>1, <1>2, <1>3, HostKeepsConnections DEF Connections, OnlyReloadersReload

LEMMA ConnectionsHostOpens ==
    ASSUME TypeInv, Delivery, Connections, NEW c \in Clients, NEW l \in Layers,
           HostOpens(c, l)
    PROVE  Connections'
<1>1. /\ UNCHANGED <<toServer, toClient, serverUp, mConnections, mWebsocketClient, link,
                     mAccumulatedDeltas, mAccumulatedAcknowledges, mRequestedReloads>>
      /\ mLayerRegistry' = [mLayerRegistry EXCEPT ![c] = @ \cup {l}]
      /\ data' = [data EXCEPT ![c][l] = OnLoaded(File[l])]
      /\ ClientTypeOK
  BY DEF HostOpens, OpenLayer, wireVars, serverVars, TypeInv, TypeOK
<1>2. \A d \in Clients : mLayerRegistry[d] \subseteq mLayerRegistry'[d]
  BY <1>1 DEF ClientTypeOK
<1>3. Untouched'
  BY <1>1, <1>2 DEF Connections, Untouched, ClientTypeOK
<1>4. NothingYet'
  <2>1. \A d \in Clients, m \in Layers :
            data'[d][m] = data[d][m] \/ data'[d][m] = OnLoaded(File[m])
    BY <1>1 DEF ClientTypeOK
  <2>2. QED
    BY <1>1, <2>1 DEF Connections, NothingYet, InLiveMode, Steady, OnLoaded
<1>5. QED
  BY <1>1, <1>2, <1>3, <1>4, HostKeepsConnections DEF Connections, OnlyReloadersReload

LEMMA ConnectionsHostReloads ==
    ASSUME TypeInv, Delivery, Connections, NEW c \in Clients, NEW l \in Layers,
           HostReloads(c, l)
    PROVE  Connections'
<1> DEFINE to == [m \in Layers |-> IF m = l THEN <<[type |-> "Reload"]>> ELSE <<>>]
<1>1. /\ UNCHANGED <<toClient, serverUp, mConnections, mWebsocketClient, link,
                     mLayerRegistry, mAccumulatedDeltas, mAccumulatedAcknowledges,
                     mRequestedReloads>>
      /\ c \in Reloaders /\ l \in mLayerRegistry[c]
      /\ data' = [data EXCEPT ![c][l] = OnLoaded(File[l])]
      /\ Send(c, to)
      /\ ClientTypeOK /\ WireTypeOK
  BY DEF HostReloads, ReloadLayer, serverVars, TypeInv, TypeOK
<1>2. to \in [Layers -> Seq(ClientEvent)]
  <2>1. [type |-> "Reload"] \in ClientEvent
    BY DEF ClientEvent
  <2>2. <<[type |-> "Reload"]>> \in Seq(ClientEvent)
    BY <2>1
  <2>3. QED
    BY <2>2
<1> HIDE DEF to
<1>3. \A s \in Sessions, m \in Layers :
          /\ toServer'[s][m] # toServer[s][m] => IsConnected(c) /\ s = mWebsocketClient[c]
          /\ \A i \in DOMAIN toServer'[s][m] :
                IsReload(toServer'[s][m][i]) => ClientOf[s] \in Reloaders
  BY <1>1, <1>2, ReloadsOnlyIfSent DEF Connections, Delivery
<1>4. Untouched'
  BY <1>1 DEF Connections, Untouched, ClientTypeOK
<1>5. NothingYet'
  BY <1>1 DEF Connections, NothingYet, InLiveMode, Steady, ClientTypeOK
<1>6. QED
  BY <1>1, <1>3, <1>4, <1>5, HostKeepsConnections

LEMMA ConnectionsHostTicks ==
    ASSUME TypeInv, Delivery, Connections, NEW c \in Clients, HostTicks(c)
    PROVE  Connections'
<1> DEFINE to == [l \in Layers |-> DeltaEvents(c, l)]
<1>1. /\ UNCHANGED <<toClient, serverUp, mConnections, mWebsocketClient, link,
                     mLayerRegistry>>
      /\ InLiveMode(c)
      /\ data' = [data EXCEPT ![c] = [l \in Layers |-> Accumulated(c, l)]]
      /\ Send(c, to)
      /\ ClientTypeOK /\ WireTypeOK
  BY DEF HostTicks, Tick, serverVars, TypeInv, TypeOK
<1>2. \A d \in Clients \ {c} :
          /\ mAccumulatedDeltas'[d] = mAccumulatedDeltas[d]
          /\ mAccumulatedAcknowledges'[d] = mAccumulatedAcknowledges[d]
          /\ mRequestedReloads'[d] = mRequestedReloads[d]
          /\ data'[d] = data[d]
  BY <1>1 DEF HostTicks, Tick, ClientTypeOK
<1>3. to \in [Layers -> Seq(ClientEvent)]
  BY <1>1, DeltaEventsType
<1>4. \A l \in Layers : \A i \in DOMAIN to[l] : ~IsReload(to[l][i])
  <2>1. ASSUME NEW l \in Layers, NEW i \in DOMAIN to[l]
        PROVE  ~IsReload(to[l][i])
    <3>1. \/ DeltaEvents(c, l) = <<>>
          \/ \E table : DeltaEvents(c, l) = <<[type |-> "Delta", updates |-> table]>>
      BY DEF DeltaEvents
    <3>2. QED
      BY <2>1, <3>1 DEF IsReload
  <2>2. QED
    BY <2>1
<1> HIDE DEF to
<1>5. \A s \in Sessions, m \in Layers :
          /\ toServer'[s][m] # toServer[s][m] => IsConnected(c) /\ s = mWebsocketClient[c]
          /\ \A i \in DOMAIN toServer'[s][m] :
                IsReload(toServer'[s][m][i]) => ClientOf[s] \in Reloaders
  BY <1>1, <1>3, <1>4, ReloadsOnlyIfSent DEF Connections, Delivery
<1>6. Untouched'
  BY <1>1, <1>2 DEF Connections, Untouched, Accumulated, ClientTypeOK
<1>7. NothingYet'
  <2>1. \A d \in Steady : ~InLiveMode(d)' => ~InLiveMode(d) /\ d \in Clients \ {c}
    BY <1>1 DEF InLiveMode, Steady
  <2>2. QED
    BY <1>2, <2>1 DEF Connections, NothingYet
<1>8. QED
  BY <1>1, <1>5, <1>6, <1>7, HostKeepsConnections

LEMMA ConnectionsHostApplies ==
    ASSUME TypeInv, Delivery, Connections, NEW c \in Clients, NEW l \in Layers,
           HostApplies(c, l)
    PROVE  Connections'
<1>1. /\ UNCHANGED <<toServer, toClient, serverUp, mConnections, mWebsocketClient, link,
                     mLayerRegistry, mAccumulatedDeltas, mAccumulatedAcknowledges,
                     mRequestedReloads>>
      /\ data' = [data EXCEPT ![c][l] = ApplyNextUpdate(data[c][l])]
      /\ ClientTypeOK
      /\ data[c][l].mRemoteDeltasQueue # {}
  BY DEF HostApplies, ApplyRemoteUpdate, wireVars, serverVars, TypeInv, TypeOK, LoopInv,
         HasNextUpdate
<1>2. l \in mLayerRegistry[c]
  <2>1. OnLoaded(File[l]).mRemoteDeltasQueue = {}
    BY DEF OnLoaded
  <2>2. QED
    BY <1>1, <2>1 DEF Connections, Untouched
<1>3. Untouched'
  BY <1>1, <1>2 DEF Connections, Untouched, ClientTypeOK
<1>4. NothingYet'
  BY <1>1 DEF Connections, NothingYet, InLiveMode, Steady, ClientTypeOK
<1>5. QED
  BY <1>1, <1>3, <1>4, HostKeepsConnections DEF Connections, OnlyReloadersReload

LEMMA ConnectionsStep == TypeInv /\ Delivery /\ Connections /\ [Next]_vars => Connections'
<1> SUFFICES ASSUME TypeInv, Delivery, Connections, [Next]_vars PROVE Connections'
  OBVIOUS
<1>1. ASSUME NEW c \in Clients, NEW s \in Sessions, Join(c, s) PROVE Connections'
  BY <1>1, ConnectionsJoin
<1>2. ASSUME NEW c \in Clients, Leave(c) PROVE Connections'
  BY <1>2, ConnectionsLeave
<1>3. ASSUME NEW c \in Clients, HostTicks(c) PROVE Connections'
  BY <1>3, ConnectionsHostTicks
<1>4. ASSUME NEW s \in Sessions, ServerNotices(s) PROVE Connections'
  BY <1>4, ConnectionsServerNotices
<1>5. ASSUME NEW s \in Sessions, NEW l \in Layers, ServerReceives(s, l) PROVE Connections'
  BY <1>5, ConnectionsServerReceives
<1>6. ASSUME NEW c \in Clients, NEW l \in Layers, ClientReceives(c, l) PROVE Connections'
  BY <1>6, ConnectionsClientReceives
<1>7. ASSUME NEW c \in Clients, NEW l \in Layers, HostEdits(c, l) PROVE Connections'
  BY <1>7, ConnectionsHostEdits
<1>8. ASSUME NEW c \in Clients, NEW l \in Layers, HostApplies(c, l) PROVE Connections'
  BY <1>8, ConnectionsHostApplies
<1>9. ASSUME NEW c \in Clients, NEW l \in Layers, HostOpens(c, l) PROVE Connections'
  BY <1>9, ConnectionsHostOpens
<1>10. ASSUME NEW c \in Clients, NEW l \in Layers, HostReloads(c, l) PROVE Connections'
  BY <1>10, ConnectionsHostReloads
<1>11. CASE UNCHANGED vars
  BY <1>11 DEF vars, wireVars, serverVars, clientVars, Connections, FreshSessions,
               StayConnected, OneSession, OnlyReloadersReload, Untouched, NothingYet,
               InLiveMode, SessionsOf
<1>12. QED
  BY <1>1, <1>2, <1>3, <1>4, <1>5, <1>6, <1>7, <1>8, <1>9, <1>10, <1>11 DEF Next

(***************************************************************************)
(* Streams, step by step.                                                  *)
(***************************************************************************)
LEMMA StreamsInit == Init => Streams
BY DEF Init, ClientInit, Streams, Steady, InLiveMode

\* A client that has just joined is sent the history from its beginning.
LEMMA StreamStarts ==
    ASSUME NEW wire \in Seq(ServerEvent), NEW d, NEW l, NEW asked,
           NEW numbering \in Nat,
           \A i \in 1..Len(wire) :
               ~IsReload(wire[i]) /\ wire[i].sequence = i /\ wire[i].epoch = numbering,
           d.mRemoteDeltasQueue = {}, d.mLatestAppliedSequence = 0, d.applied = <<>>,
           l \notin asked
    PROVE  Stream(wire, <<>>, <<>>, d, l, asked, Len(wire), numbering)
<1>1. Wire(wire, 0, numbering, Len(wire), numbering)
  BY SegmentStart
<1>2. Taken(<<>>, <<>>, d, l, asked, 0, numbering, numbering, numbering)
  BY DEF Taken, AllNumbered, LayerOf, NotIn
<1>3. \E m, e, f \in Nat :
          /\ Wire(wire, m, e, Len(wire), numbering)
          /\ Taken(<<>>, <<>>, d, l, asked, m, e, f, numbering)
  <2>1. WITNESS 0 \in Nat, numbering \in Nat, numbering \in Nat
  <2>2. QED
    BY <1>1, <1>2
<1>4. QED
  BY <1>3 DEF Stream

LEMMA TakenSameLayer ==
    ASSUME NEW deltas, NEW acks, NEW d, NEW d2, NEW l, NEW asked, NEW asked2,
           NEW m, NEW e, NEW f, NEW numbering,
           l \in asked2 <=> l \in asked,
           d2.mRemoteDeltasQueue = d.mRemoteDeltasQueue,
           d2.mLatestAppliedSequence = d.mLatestAppliedSequence,
           d2.applied = d.applied,
           Taken(deltas, acks, d, l, asked, m, e, f, numbering)
    PROVE  Taken(deltas, acks, d2, l, asked2, m, e, f, numbering)
BY DEF Taken, LayerOf, NotIn, InLayer

\* A step that touches neither the socket nor what is taken from it.
LEMMA StreamSame ==
    ASSUME NEW c \in Steady, NEW l \in Layers, StreamOf(c, l),
           mWebsocketClient'[c] = mWebsocketClient[c],
           toClient'[mWebsocketClient[c]][l] = toClient[mWebsocketClient[c]][l],
           mAccumulatedDeltas'[c][l] = mAccumulatedDeltas[c][l],
           mAccumulatedAcknowledges'[c][l] = mAccumulatedAcknowledges[c][l],
           data'[c][l].mRemoteDeltasQueue = data[c][l].mRemoteDeltasQueue,
           data'[c][l].mLatestAppliedSequence = data[c][l].mLatestAppliedSequence,
           data'[c][l].applied = data[c][l].applied,
           l \in mRequestedReloads'[c] <=> l \in mRequestedReloads[c],
           Len(mHistory'[l]) = Len(mHistory[l]),
           epoch'[l] = epoch[l]
    PROVE  StreamOf(c, l)'
<1>1. PICK m, e, f \in Nat :
          /\ Wire(toClient[mWebsocketClient[c]][l], m, e, Len(mHistory[l]), epoch[l])
          /\ Taken(mAccumulatedDeltas[c][l], mAccumulatedAcknowledges[c][l], data[c][l],
                   l, mRequestedReloads[c], m, e, f, epoch[l])
  BY DEF StreamOf, Stream
<1>2. Taken(mAccumulatedDeltas[c][l], mAccumulatedAcknowledges[c][l], data'[c][l],
            l, mRequestedReloads'[c], m, e, f, epoch[l])
  BY <1>1, TakenSameLayer
<1>3. QED
  BY <1>1, <1>2 DEF StreamOf, Stream

LEMMA SteadyLive ==
    ASSUME TypeInv, Delivery, Connections, NEW c \in Steady, InLiveMode(c)
    PROVE  /\ c \in Clients /\ c \notin Leavers /\ c \notin Reloaders
           /\ mWebsocketClient[c] \in Sessions
           /\ ClientOf[mWebsocketClient[c]] = c
           /\ mWebsocketClient[c] \in mConnections
           /\ IsConnected(c)
BY DEF TypeInv, TypeOK, ClientTypeOK, Delivery, OwnSessions, Connections, StayConnected,
       Steady, InLiveMode, IsConnected

LEMMA StreamTypes ==
    ASSUME TypeInv, NEW c \in Steady, NEW l \in Layers, mWebsocketClient[c] \in Sessions
    PROVE  /\ toClient[mWebsocketClient[c]][l] \in Seq(ServerEvent)
           /\ mAccumulatedDeltas[c][l] \in Seq(ServerDelta)
           /\ mAccumulatedAcknowledges[c][l] \in Seq(Acknowledge)
           /\ data[c][l] \in LayerState
           /\ Len(mHistory[l]) \in Nat
           /\ epoch[l] \in Nat
BY DEF TypeInv, TypeOK, WireTypeOK, ClientTypeOK, ServerTypeOK, Steady

LEMMA StreamsJoin ==
    ASSUME TypeInv, Delivery, Connections, Streams,
           NEW d \in Clients, NEW s \in Sessions, Join(d, s)
    PROVE  Streams'
<1>1. /\ WireTypeOK /\ ServerTypeOK /\ ClientTypeOK
      /\ ~IsConnected(d) /\ ClientOf[s] = d /\ link[s] = "new"
      /\ toClient' = [toClient EXCEPT ![s] = [l \in Layers |-> @[l] \o mHistory[l]]]
      /\ mWebsocketClient' = [mWebsocketClient EXCEPT ![d] = s]
      /\ UNCHANGED <<mHistory, epoch, data, mAccumulatedDeltas, mAccumulatedAcknowledges,
                     mRequestedReloads>>
  BY DEF Join, OnConnected, ClientOnConnected, TypeInv, TypeOK, SessionsOf
<1>2. SUFFICES ASSUME NEW c \in Steady, NEW l \in Layers, InLiveMode(c)'
               PROVE  StreamOf(c, l)'
  BY DEF Streams
<1>3. c \in Clients
  BY DEF Steady
<1>4. CASE c = d
  <2>1. ~InLiveMode(c)
    BY <1>1, <1>4 DEF Connections, StayConnected, IsConnected
  <2>2. /\ mRequestedReloads[c] = {}
        /\ mAccumulatedDeltas[c][l] = <<>>
        /\ mAccumulatedAcknowledges[c][l] = <<>>
        /\ data[c][l].mRemoteDeltasQueue = {}
        /\ data[c][l].mLatestAppliedSequence = 0
        /\ data[c][l].applied = <<>>
    BY <2>1 DEF Connections, NothingYet
  <2>3. mHistory[l] \in Seq(ServerDelta) /\ epoch[l] \in Nat
    BY <1>1 DEF ServerTypeOK
  <2>4. toClient'[s][l] = mHistory[l]
    <3>1. toClient[s][l] = <<>>
      BY <1>1 DEF Connections, FreshSessions
    <3>2. toClient'[s][l] = toClient[s][l] \o mHistory[l]
      BY <1>1 DEF WireTypeOK
    <3>3. QED
      BY <2>3, <3>1, <3>2
  <2>5. mHistory[l] \in Seq(ServerEvent)
    BY <2>3, SeqOfSubset DEF ServerEvent
  <2>6. \A i \in 1..Len(mHistory[l]) :
            /\ ~IsReload(mHistory[l][i])
            /\ mHistory[l][i].sequence = i
            /\ mHistory[l][i].epoch = epoch[l]
    <3>1. \A i \in 1..Len(mHistory[l]) : mHistory[l][i] \in ServerDelta
      BY <2>3
    <3>2. \A i \in 1..Len(mHistory[l]) : ~IsReload(mHistory[l][i])
      BY <3>1 DEF ServerDelta, IsReload
    <3>3. QED
      BY <2>3, <3>2 DEF Delivery, HistoryNumbered
  <2>7. mWebsocketClient'[c] = s
    BY <1>1, <1>3, <1>4 DEF ClientTypeOK
  <2>8. Stream(mHistory[l], <<>>, <<>>, data[c][l], l, mRequestedReloads[c], Len(mHistory[l]), epoch[l])
    BY <2>2, <2>3, <2>5, <2>6, StreamStarts
  <2>9. QED
    BY <1>1, <2>2, <2>4, <2>7, <2>8 DEF StreamOf
<1>5. CASE c # d
  <2>1. mWebsocketClient'[c] = mWebsocketClient[c]
    BY <1>1, <1>3, <1>5 DEF ClientTypeOK
  <2>2. InLiveMode(c)
    BY <1>2, <2>1 DEF InLiveMode
  <2>3. mWebsocketClient[c] \in Sessions /\ mWebsocketClient[c] # s
    BY <1>1, <1>5, <2>2, SteadyLive
  <2>4. toClient'[mWebsocketClient[c]] = toClient[mWebsocketClient[c]]
    BY <1>1, <2>3 DEF WireTypeOK
  <2>5. StreamOf(c, l)
    BY <2>2 DEF Streams
  <2>6. QED
    BY <1>1, <2>1, <2>4, <2>5, StreamSame
<1>6. QED
  BY <1>4, <1>5

\* What every other action has to show.
LEMMA StreamsKept ==
    ASSUME Streams,
           \A c \in Steady : mWebsocketClient'[c] = mWebsocketClient[c],
           \A c \in Steady, l \in Layers : InLiveMode(c) /\ StreamOf(c, l) => StreamOf(c, l)'
    PROVE  Streams'
BY DEF Streams, InLiveMode

LEMMA StreamsLeave ==
    ASSUME TypeInv, Delivery, Connections, Streams, NEW d \in Clients, Leave(d)
    PROVE  Streams'
<1> DEFINE s == mWebsocketClient[d]
<1>1. /\ WireTypeOK /\ ServerTypeOK /\ ClientTypeOK
      /\ d \in Leavers /\ s \in Sessions /\ ClientOf[s] = d
      /\ toClient' = [toClient EXCEPT ![s] = Silent]
      /\ \/ mWebsocketClient' = mWebsocketClient
         \/ mWebsocketClient' = [mWebsocketClient EXCEPT ![d] = NoSession]
      /\ UNCHANGED <<mHistory, epoch, data, mAccumulatedDeltas, mAccumulatedAcknowledges,
                     mRequestedReloads>>
  BY DEF TypeInv, TypeOK, Leave, ClientOnDisconnected, Disconnect, IsConnected, Delivery,
         OwnSessions, InLiveMode, ClientTypeOK, serverVars
<1> HIDE DEF s
<1>2. \A c \in Steady : c \in Clients /\ c # d
  BY <1>1 DEF Steady
<1>3. \A c \in Steady : mWebsocketClient'[c] = mWebsocketClient[c]
  BY <1>1, <1>2 DEF ClientTypeOK
<1>4. ASSUME NEW c \in Steady, NEW l \in Layers, InLiveMode(c), StreamOf(c, l)
      PROVE  StreamOf(c, l)'
  <2>1. mWebsocketClient[c] \in Sessions /\ mWebsocketClient[c] # s
    BY <1>1, <1>2, <1>4, SteadyLive
  <2>2. toClient'[mWebsocketClient[c]] = toClient[mWebsocketClient[c]]
    BY <1>1, <2>1 DEF WireTypeOK
  <2>3. QED
    BY <1>1, <1>3, <1>4, <2>2, StreamSame
<1>5. QED
  BY <1>3, <1>4, StreamsKept

LEMMA StreamsServerNotices ==
    ASSUME TypeInv, Delivery, Connections, Streams, NEW s \in Sessions, ServerNotices(s)
    PROVE  Streams'
<1>1. /\ ClientOf[s] \in Leavers
      /\ UNCHANGED <<mWebsocketClient, toClient, data, mAccumulatedDeltas,
                     mAccumulatedAcknowledges, mRequestedReloads>>
      /\ \/ mConnections \ SessionsOf(ClientOf[s]) = {}
         \/ UNCHANGED <<mHistory, epoch>>
  BY DEF ServerNotices, OnDisconnected, clientVars
<1>2. ASSUME NEW c \in Steady, NEW l \in Layers, InLiveMode(c), StreamOf(c, l)
      PROVE  StreamOf(c, l)'
  <2>1. mWebsocketClient[c] \in mConnections \ SessionsOf(ClientOf[s])
    BY <1>1, <1>2, SteadyLive DEF SessionsOf
  <2>2. UNCHANGED <<mHistory, epoch>>
    BY <1>1, <2>1
  <2>3. QED
    BY <1>1, <1>2, <2>2, StreamSame
<1>3. QED
  BY <1>1, <1>2, StreamsKept

\* A session of a client that stays is sent each update once, and each reload that is
\* not its own.
LEMMA SentToSteady ==
    ASSUME TypeInv, Delivery, Connections, NEW c \in Steady, InLiveMode(c),
           NEW s \in serverUp, s \in Sessions, NEW l \in Layers, NEW event, NEW toSender,
           SendToOthers(s, l, event, toSender)
    PROVE  LET t == mWebsocketClient[c]
           IN  /\ \A m \in Layers \ {l} : toClient'[t][m] = toClient[t][m]
               /\ ClientOf[s] # c => toClient'[t][l] = Append(toClient[t][l], event)
               /\ ClientOf[s] = c => toClient'[t][l] = toClient[t][l] \o toSender
<1> DEFINE t == mWebsocketClient[c]
<1>1. t \in Sessions /\ t \in mConnections /\ ClientOf[t] = c
  BY SteadyLive
<1>2. toClient[t] \in [Layers -> Seq(ServerEvent)]
  BY <1>1 DEF TypeInv, TypeOK, WireTypeOK
<1>3. t \in Recipients(s) <=> ClientOf[s] # c
  BY <1>1 DEF Recipients, SessionsOf
<1>4. ClientOf[s] = c => t = s
  BY DEF Connections, OneSession, SessionsOf
<1> HIDE DEF t
<1>5. toClient'[t] = [toClient[t] EXCEPT ![l] =
                         @ \o (IF t \in Recipients(s) THEN <<event>>
                               ELSE IF t = s THEN toSender ELSE <<>>)]
  BY <1>1 DEF SendToOthers
<1>6. ASSUME ClientOf[s] # c
      PROVE  toClient'[t][l] = Append(toClient[t][l], event)
  <2>1. toClient'[t][l] = toClient[t][l] \o <<event>>
    BY <1>2, <1>3, <1>5, <1>6
  <2>2. toClient[t][l] \in Seq(ServerEvent)
    BY <1>2
  <2>3. QED
    BY <2>1, <2>2
<1>7. ASSUME ClientOf[s] = c
      PROVE  toClient'[t][l] = toClient[t][l] \o toSender
  BY <1>2, <1>3, <1>4, <1>5, <1>7
<1>8. QED
  BY <1>2, <1>5, <1>6, <1>7 DEF t

LEMMA StreamGoesOn ==
    ASSUME NEW wire \in Seq(ServerEvent), NEW deltas, NEW acks, NEW d, NEW l, NEW asked, NEW last \in Nat, NEW numbering \in Nat,
           NEW x, ~IsReload(x), x.sequence = last + 1, x.epoch = numbering,
           Stream(wire, deltas, acks, d, l, asked, last, numbering)
    PROVE  Stream(Append(wire, x), deltas, acks, d, l, asked, last + 1, numbering)
<1>1. PICK m, e, f \in Nat :
          /\ Wire(wire, m, e, last, numbering)
          /\ Taken(deltas, acks, d, l, asked, m, e, f, numbering)
  BY DEF Stream
<1>2. Wire(Append(wire, x), m, e, last + 1, numbering)
  BY <1>1, WireGoesOn
<1>3. QED
  BY <1>1, <1>2 DEF Stream

LEMMA StreamIsCut ==
    ASSUME NEW wire \in Seq(ServerEvent), NEW deltas, NEW acks, NEW d, NEW l, NEW asked, NEW last \in Nat, NEW numbering \in Nat, NEW x, IsReload(x),
           \A i \in DOMAIN wire : ~IsReload(wire[i]) => wire[i].epoch \in 0..numbering,
           Stream(wire, deltas, acks, d, l, asked, last, numbering)
    PROVE  Stream(Append(wire, x), deltas, acks, d, l, asked, 0, numbering + 1)
<1>1. PICK m, e, f \in Nat :
          /\ Wire(wire, m, e, last, numbering)
          /\ Taken(deltas, acks, d, l, asked, m, e, f, numbering)
  BY DEF Stream
<1>2. Wire(Append(wire, x), m, e, 0, numbering + 1)
  BY <1>1, WireIsCut
<1>3. Taken(deltas, acks, d, l, asked, m, e, f, numbering + 1)
  BY <1>1 DEF Taken
<1>4. QED
  BY <1>1, <1>2, <1>3 DEF Stream

LEMMA StreamsDelta ==
    ASSUME TypeInv, Delivery, Connections, Streams, NEW s \in Sessions, NEW l \in Layers,
           OnDeltaEvent(s, l), UNCHANGED clientVars
    PROVE  Streams'
<1> DEFINE updates == Head(toServer[s][l]).updates
           number == GetSequenceNumber(l)
           delta == [type |-> "Delta", user |-> ClientOf[s], updates |-> updates,
                     sequence |-> number, epoch |-> epoch[l]]
           ack == [type |-> "Acknowledge", updates |-> PathsOnly(updates),
                   sequence |-> number, epoch |-> epoch[l]]
<1>1. /\ s \in serverUp /\ epoch' = epoch
      /\ UNCHANGED <<mWebsocketClient, data, mAccumulatedDeltas, mAccumulatedAcknowledges,
                     mRequestedReloads>>
  BY DEF OnDeltaEvent, TakeFromClient, clientVars
<1>2. ASSUME NEW c \in Steady, NEW m \in Layers, InLiveMode(c), StreamOf(c, m)
      PROVE  StreamOf(c, m)'
  <2> DEFINE t == mWebsocketClient[c]
  <2>1. t \in Sessions /\ t \in mConnections /\ c \in Clients
    BY <1>2, SteadyLive
  <2>2. ChannelExists
    BY <2>1 DEF ChannelExists
  <2>3. /\ mHistory' = [mHistory EXCEPT ![l] = Append(@, delta)]
        /\ SendToOthers(s, l, delta, <<ack>>)
    BY <2>2 DEF OnDeltaEvent
  <2>4. /\ ~IsReload(delta) /\ delta.sequence = number /\ delta.epoch = epoch[l]
        /\ ~IsReload(ack) /\ ack.sequence = number /\ ack.epoch = epoch[l]
    BY DEF IsReload
  <2> HIDE DEF delta, ack, t
  <2>5. /\ mHistory \in [Layers -> Seq(ServerDelta)] /\ epoch[l] \in Nat
        /\ toClient[t][l] \in Seq(ServerEvent)
    BY <2>1 DEF TypeInv, TypeOK, ServerTypeOK, WireTypeOK
  <2>6. /\ number = Len(mHistory[l]) + 1 /\ Len(mHistory[l]) \in Nat
        /\ Len(mHistory'[l]) = Len(mHistory[l]) + 1
        /\ \A k \in Layers \ {l} : mHistory'[k] = mHistory[k]
    BY <2>3, <2>5 DEF GetSequenceNumber
  <2>7. /\ \A k \in Layers \ {l} : toClient'[t][k] = toClient[t][k]
        /\ ClientOf[s] # c => toClient'[t][l] = Append(toClient[t][l], delta)
        /\ ClientOf[s] = c => toClient'[t][l] = toClient[t][l] \o <<ack>>
    <3> DEFINE toSender == <<ack>>
    <3> HIDE DEF toSender
    <3>1. SendToOthers(s, l, delta, toSender)
      BY <2>3 DEF toSender
    <3>2. /\ \A k \in Layers \ {l} : toClient'[t][k] = toClient[t][k]
          /\ ClientOf[s] # c => toClient'[t][l] = Append(toClient[t][l], delta)
          /\ ClientOf[s] = c => toClient'[t][l] = toClient[t][l] \o toSender
      BY <1>1, <1>2, <3>1, SentToSteady DEF t
    <3>3. QED
      BY <3>2 DEF toSender
  <2>8. CASE m = l
    <3>1. \E x : /\ ~IsReload(x) /\ x.sequence = number /\ x.epoch = epoch[l]
                 /\ toClient'[t][l] = Append(toClient[t][l], x)
      <4>1. CASE ClientOf[s] # c
        BY <2>4, <2>7, <4>1
      <4>2. CASE ClientOf[s] = c
        <5>1. toClient'[t][l] = Append(toClient[t][l], ack)
          BY <2>5, <2>7, <4>2
        <5>2. QED
          BY <2>4, <5>1
      <4>3. QED
        BY <4>1, <4>2
    <3>2. PICK x : /\ ~IsReload(x) /\ x.sequence = number /\ x.epoch = epoch[l]
                   /\ toClient'[t][l] = Append(toClient[t][l], x)
      BY <3>1
    <3>3. Stream(toClient[t][l], mAccumulatedDeltas[c][l], mAccumulatedAcknowledges[c][l],
                 data[c][l], l, mRequestedReloads[c],
                 Len(mHistory[l]), epoch[l])
      BY <1>2, <2>8 DEF StreamOf, t
    <3>4. Stream(toClient'[t][l], mAccumulatedDeltas[c][l], mAccumulatedAcknowledges[c][l],
                 data[c][l], l, mRequestedReloads[c],
                 Len(mHistory[l]) + 1, epoch[l])
      BY <2>5, <2>6, <3>2, <3>3, StreamGoesOn
    <3>5. QED
      BY <1>1, <2>6, <2>8, <3>4 DEF StreamOf, t
  <2>9. CASE m # l
    BY <1>1, <1>2, <2>6, <2>7, <2>9, StreamSame DEF t
  <2>10. QED
    BY <2>8, <2>9
<1>3. QED
  BY <1>1, <1>2, StreamsKept

LEMMA StreamsReload ==
    ASSUME TypeInv, Delivery, Connections, Streams, NEW s \in Sessions, NEW l \in Layers,
           OnReloadEvent(s, l), UNCHANGED clientVars
    PROVE  Streams'
<1> DEFINE reload == [type |-> "Reload", sequence |-> GetSequenceNumber(l)]
<1>1. /\ s \in serverUp
      /\ UNCHANGED <<mWebsocketClient, data, mAccumulatedDeltas, mAccumulatedAcknowledges,
                     mRequestedReloads>>
  BY DEF OnReloadEvent, TakeFromClient, clientVars
<1>2. ClientOf[s] \in Reloaders
  <2>1. toServer[s][l] \in Seq(ClientEvent) /\ toServer[s][l] # <<>>
    BY DEF OnReloadEvent, TakeFromClient, TypeInv, TypeOK, WireTypeOK
  <2>2. 1 \in DOMAIN toServer[s][l] /\ IsReload(toServer[s][l][1])
    BY <2>1 DEF OnReloadEvent, IsReload
  <2>3. QED
    BY <2>2 DEF Connections, OnlyReloadersReload
<1>3. ASSUME NEW c \in Steady, NEW m \in Layers, InLiveMode(c), StreamOf(c, m)
      PROVE  StreamOf(c, m)'
  <2> DEFINE t == mWebsocketClient[c]
  <2>1. t \in Sessions /\ t \in mConnections /\ ClientOf[s] # c /\ ClientOf[t] = c
    BY <1>2, <1>3, SteadyLive
  <2>2. ChannelExists
    BY <2>1 DEF ChannelExists
  <2>3. /\ mHistory' = [mHistory EXCEPT ![l] = <<>>]
        /\ epoch' = [epoch EXCEPT ![l] = @ + 1]
        /\ SendToOthers(s, l, reload, <<>>)
    BY <2>2 DEF OnReloadEvent
  <2>4. IsReload(reload)
    BY DEF IsReload
  <2> HIDE DEF reload, t
  <2>5. /\ mHistory \in [Layers -> Seq(ServerDelta)] /\ epoch \in [Layers -> Nat]
        /\ toClient[t][l] \in Seq(ServerEvent)
    BY <2>1 DEF TypeInv, TypeOK, ServerTypeOK, WireTypeOK
  <2>6. /\ Len(mHistory[l]) \in Nat /\ Len(mHistory'[l]) = 0 /\ epoch'[l] = epoch[l] + 1
        /\ \A k \in Layers \ {l} : mHistory'[k] = mHistory[k] /\ epoch'[k] = epoch[k]
    BY <2>3, <2>5
  <2>7. /\ \A k \in Layers \ {l} : toClient'[t][k] = toClient[t][k]
        /\ toClient'[t][l] = Append(toClient[t][l], reload)
    BY <1>1, <1>3, <2>1, <2>3, SentToSteady DEF t
  <2>8. CASE m = l
    <3>1. \A i \in DOMAIN toClient[t][l] :
              ~IsReload(toClient[t][l][i]) => toClient[t][l][i].epoch \in 0..epoch[l]
      BY <2>1 DEF Delivery, WireGenuine, Genuine, IsReload
    <3>2. Stream(toClient[t][l], mAccumulatedDeltas[c][l], mAccumulatedAcknowledges[c][l],
                 data[c][l], l, mRequestedReloads[c],
                 Len(mHistory[l]), epoch[l])
      BY <1>3, <2>8 DEF StreamOf, t
    <3>3. Stream(toClient'[t][l], mAccumulatedDeltas[c][l], mAccumulatedAcknowledges[c][l],
                 data[c][l], l, mRequestedReloads[c],
                 0, epoch[l] + 1)
      BY <2>4, <2>5, <2>6, <2>7, <3>1, <3>2, StreamIsCut
    <3>4. QED
      BY <1>1, <2>6, <2>8, <3>3 DEF StreamOf, t
  <2>9. CASE m # l
    <3>1. toClient'[t][m] = toClient[t][m] /\ mHistory'[m] = mHistory[m] /\ epoch'[m] = epoch[m]
      BY <2>6, <2>7, <2>9
    <3>2. QED
      BY ONLY <1>1, <3>1, c \in Steady, m \in Layers, StreamOf(c, m), StreamSame DEF t
  <2>10. QED
    BY <2>8, <2>9
<1>4. QED
  BY <1>1, <1>3, StreamsKept

LEMMA StreamTaken ==
    ASSUME NEW wire \in Seq(ServerEvent), wire # <<>>,
           NEW deltas \in Seq(ServerDelta), NEW acks \in Seq(Acknowledge),
           NEW d \in LayerState, NEW l, NEW asked,
           NEW last \in Nat, NEW numbering \in Nat,
           Stream(wire, deltas, acks, d, l, asked, last, numbering)
    PROVE  LET event == Head(wire)
           IN  /\ IsReload(event) =>
                     Stream(Tail(wire), <<>>, <<>>, d, l, asked \cup {l}, last, numbering)
               /\ ~IsReload(event) =>
                     /\ Stream(Tail(wire), Append(deltas, event), acks, d, l, asked,
                               last, numbering)
                     /\ Stream(Tail(wire), deltas, Append(acks, event), d, l, asked,
                               last, numbering)
<1>1. PICK m, e, f \in Nat :
          /\ Wire(wire, m, e, last, numbering)
          /\ Taken(deltas, acks, d, l, asked, m, e, f, numbering)
  BY DEF Stream
<1>2. CASE IsReload(Head(wire))
  <2>1. e < numbering /\ \E later \in Nat : Wire(Tail(wire), 0, later, last, numbering)
    BY <1>1, <1>2, WireReloadTaken
  <2>2. PICK later \in Nat : Wire(Tail(wire), 0, later, last, numbering)
    BY <2>1
  <2>3. Taken(<<>>, <<>>, d, l, asked \cup {l}, 0, later, f, numbering)
    BY <1>1, <2>1, TakenReload
  <2>4. Stream(Tail(wire), <<>>, <<>>, d, l, asked \cup {l}, last, numbering)
    BY <2>2, <2>3 DEF Stream
  <2>5. QED
    BY <1>2, <2>4
<1>3. CASE ~IsReload(Head(wire))
  <2>1. /\ Head(wire).sequence = m + 1
        /\ Head(wire).epoch = e
        /\ Wire(Tail(wire), m + 1, e, last, numbering)
    BY <1>1, <1>3, WireTaken
  <2>2. Taken(Append(deltas, Head(wire)), acks, d, l, asked, m + 1, e, f, numbering)
    BY <1>1, <2>1, TakenDelta, Zenon
  <2>3. Taken(deltas, Append(acks, Head(wire)), d, l, asked, m + 1, e, f, numbering)
    BY <1>1, <2>1, TakenAcknowledge, Zenon
  <2>4. m + 1 \in Nat
    OBVIOUS
  <2>5. QED
    BY <1>3, <2>1, <2>2, <2>3, <2>4 DEF Stream
<1>4. QED
  BY <1>2, <1>3

LEMMA StreamsClientReceives ==
    ASSUME TypeInv, Delivery, Connections, Streams, NEW d \in Clients, NEW l \in Layers,
           ClientReceives(d, l)
    PROVE  Streams'
<1> DEFINE s == mWebsocketClient[d]
           event == Head(toClient[s][l])
<1>1. /\ UNCHANGED <<mHistory, epoch, mWebsocketClient, data>>
      /\ InLiveMode(d)
      /\ toClient[s][l] # <<>>
      /\ toClient' = [toClient EXCEPT ![s][l] = Tail(@)]
      /\ mAccumulatedDeltas' = [mAccumulatedDeltas EXCEPT ![d][l] =
             CASE event.type = "Delta" -> Append(@, event)
               [] event.type = "Reload" -> LeftByReload(@)
               [] OTHER -> @]
      /\ mAccumulatedAcknowledges' = [mAccumulatedAcknowledges EXCEPT ![d][l] =
             CASE event.type = "Acknowledge" -> Append(@, event)
               [] event.type = "Reload" -> LeftByReload(@)
               [] OTHER -> @]
      /\ mRequestedReloads' = [mRequestedReloads EXCEPT ![d] =
             IF event.type = "Reload" THEN @ \cup {l} ELSE @]
  BY DEF ClientReceives, OnMessage, serverVars, IsConnected
<1>2. /\ s \in Sessions /\ ClientOf[s] = d /\ WireTypeOK /\ ClientTypeOK
      /\ toClient[s][l] \in Seq(ServerEvent)
  BY <1>1 DEF TypeInv, TypeOK, WireTypeOK, ClientTypeOK, InLiveMode, Delivery, OwnSessions
<1>3. event \in ServerEvent
  BY <1>1, <1>2
<1>4. event.type \in {"Delta", "Acknowledge", "Reload"}
  BY <1>3 DEF ServerEvent, ServerDelta, Acknowledge, ServerReload
<1> HIDE DEF s, event
<1>5. ASSUME NEW c \in Steady, NEW m \in Layers, InLiveMode(c), StreamOf(c, m)
      PROVE  StreamOf(c, m)'
  <2>1. c \in Clients /\ mWebsocketClient[c] \in Sessions /\ ClientOf[mWebsocketClient[c]] = c
    BY <1>5, SteadyLive
  <2>2. CASE c = d /\ m = l
    <3> DEFINE wire == toClient[s][l]
               deltas == mAccumulatedDeltas[c][l]
               acks == mAccumulatedAcknowledges[c][l]
               asked == mRequestedReloads[c]
               last == Len(mHistory[l])
    <3>1. /\ wire \in Seq(ServerEvent) /\ wire # <<>>
          /\ deltas \in Seq(ServerDelta) /\ acks \in Seq(Acknowledge)
          /\ data[c][l] \in LayerState /\ last \in Nat /\ epoch[l] \in Nat
      BY <1>1, <1>2, <2>1, StreamTypes
    <3>2. Stream(wire, deltas, acks, data[c][l], l, asked, last, epoch[l])
      BY <1>5, <2>2 DEF StreamOf, s
    <3>3. /\ mWebsocketClient'[c] = s /\ toClient'[s][l] = Tail(wire)
          /\ Len(mHistory'[l]) = last /\ epoch'[l] = epoch[l] /\ data'[c][l] = data[c][l]
      BY <1>1, <1>2, <2>2 DEF WireTypeOK, s
    <3>4. SUFFICES Stream(Tail(wire), mAccumulatedDeltas'[c][l],
                          mAccumulatedAcknowledges'[c][l], data[c][l], l,
                          mRequestedReloads'[c], last, epoch[l])
      BY <2>2, <3>3 DEF StreamOf
    <3>5. /\ IsReload(Head(wire)) =>
                Stream(Tail(wire), <<>>, <<>>, data[c][l], l, asked \cup {l}, last, epoch[l])
          /\ ~IsReload(Head(wire)) =>
                /\ Stream(Tail(wire), Append(deltas, Head(wire)), acks, data[c][l], l,
                          asked, last, epoch[l])
                /\ Stream(Tail(wire), deltas, Append(acks, Head(wire)), data[c][l], l,
                          asked, last, epoch[l])
      <4> HIDE DEF wire, deltas, acks, asked, last
      <4> QED BY <3>1, <3>2, StreamTaken
    <3>6. CASE event.type = "Reload"
      <4>1. /\ mAccumulatedDeltas'[c][l] = <<>> /\ mAccumulatedAcknowledges'[c][l] = <<>>
            /\ mRequestedReloads'[c] = asked \cup {l}
        BY <1>1, <1>2, <2>2, <3>6 DEF ClientTypeOK, LeftByReload
      <4>2. IsReload(Head(wire))
        BY <3>6 DEF IsReload, event
      <4>3. QED
        BY <3>5, <4>1, <4>2
    <3>7. CASE event.type = "Delta"
      <4>1. /\ mAccumulatedDeltas'[c][l] = Append(deltas, Head(wire))
            /\ mAccumulatedAcknowledges'[c][l] = acks
            /\ mRequestedReloads'[c] = asked
        BY <1>1, <1>2, <2>2, <3>7 DEF ClientTypeOK, event
      <4>2. ~IsReload(Head(wire))
        BY <3>7 DEF IsReload, event
      <4>3. QED
        BY <3>5, <4>1, <4>2
    <3>8. CASE event.type = "Acknowledge"
      <4>1. /\ mAccumulatedDeltas'[c][l] = deltas
            /\ mAccumulatedAcknowledges'[c][l] = Append(acks, Head(wire))
            /\ mRequestedReloads'[c] = asked
        BY <1>1, <1>2, <2>2, <3>8 DEF ClientTypeOK, event
      <4>2. ~IsReload(Head(wire))
        BY <3>8 DEF IsReload, event
      <4>3. QED
        BY <3>5, <4>1, <4>2
    <3>9. QED
      BY <1>4, <3>6, <3>7, <3>8
  <2>3. CASE ~(c = d /\ m = l)
    <3>1. toClient'[mWebsocketClient[c]][m] = toClient[mWebsocketClient[c]][m]
      BY <1>1, <1>2, <2>1, <2>3 DEF WireTypeOK
    <3>2. /\ mAccumulatedDeltas'[c][m] = mAccumulatedDeltas[c][m]
          /\ mAccumulatedAcknowledges'[c][m] = mAccumulatedAcknowledges[c][m]
          /\ (m \in mRequestedReloads'[c]) = (m \in mRequestedReloads[c])
      BY <1>1, <1>2, <2>1, <2>3 DEF ClientTypeOK
    <3>3. StreamOf(c, m)
      BY <1>5
    <3>4. QED
      BY <1>1, <2>1, <3>1, <3>2, <3>3, StreamSame
  <2>4. QED
    BY <2>2, <2>3
<1>6. QED
  BY <1>1, <1>5, StreamsKept

\* What the host's thread leaves alone.
LEMMA HostLeavesStreams ==
    ASSUME Streams,
           UNCHANGED <<toClient, mHistory, epoch, mWebsocketClient>>,
           \A c \in Steady, l \in Layers : InLiveMode(c) /\ StreamOf(c, l) =>
               \/ StreamOf(c, l)'
               \/ /\ mAccumulatedDeltas'[c][l] = mAccumulatedDeltas[c][l]
                  /\ mAccumulatedAcknowledges'[c][l] = mAccumulatedAcknowledges[c][l]
                  /\ mRequestedReloads'[c] = mRequestedReloads[c]
                  /\ data'[c][l].mRemoteDeltasQueue = data[c][l].mRemoteDeltasQueue
                  /\ data'[c][l].mLatestAppliedSequence = data[c][l].mLatestAppliedSequence
                  /\ data'[c][l].applied = data[c][l].applied
    PROVE  Streams'
<1>1. ASSUME NEW c \in Steady, NEW l \in Layers, InLiveMode(c), StreamOf(c, l)
      PROVE  StreamOf(c, l)'
  BY <1>1, StreamSame
<1>2. QED
  BY <1>1, StreamsKept

LEMMA StreamsHostEdits ==
    ASSUME TypeInv, Streams, NEW d \in Clients, NEW m \in Layers, HostEdits(d, m)
    PROVE  Streams'
<1>1. UNCHANGED <<toClient, mHistory, epoch, mWebsocketClient, mAccumulatedDeltas,
                  mAccumulatedAcknowledges, mRequestedReloads>>
  BY EditOf DEF wireVars, serverVars
<1>2. QED
  BY <1>1, EditKeepsStreams, HostLeavesStreams DEF Steady

LEMMA StreamsHostOpens ==
    ASSUME TypeInv, Connections, Streams, NEW d \in Clients, NEW m \in Layers,
           HostOpens(d, m)
    PROVE  Streams'
<1>1. /\ UNCHANGED <<toClient, mHistory, epoch, mWebsocketClient, mAccumulatedDeltas,
                     mAccumulatedAcknowledges, mRequestedReloads>>
      /\ data' = [data EXCEPT ![d][m] = OnLoaded(File[m])]
      /\ data[d][m] = OnLoaded(File[m])
  BY DEF HostOpens, OpenLayer, wireVars, serverVars, Connections, Untouched
<1>2. \A c \in Clients, l \in Layers : data'[c][l] = data[c][l]
  BY <1>1 DEF TypeInv, TypeOK, ClientTypeOK
<1>3. QED
  BY <1>1, <1>2, HostLeavesStreams DEF Steady

LEMMA StreamsHostReloads ==
    ASSUME TypeInv, Streams, NEW d \in Clients, NEW m \in Layers, HostReloads(d, m)
    PROVE  Streams'
<1>1. /\ UNCHANGED <<toClient, mHistory, epoch, mWebsocketClient, mAccumulatedDeltas,
                     mAccumulatedAcknowledges, mRequestedReloads>>
      /\ d \in Reloaders
      /\ data' = [data EXCEPT ![d][m] = OnLoaded(File[m])]
  BY DEF HostReloads, ReloadLayer, serverVars
<1>2. \A c \in Steady, l \in Layers : data'[c][l] = data[c][l]
  BY <1>1 DEF TypeInv, TypeOK, ClientTypeOK, Steady
<1>3. QED
  BY <1>1, <1>2, HostLeavesStreams

LEMMA StreamsHostApplies ==
    ASSUME TypeInv, Delivery, Connections, Streams, NEW d \in Clients, NEW m \in Layers,
           HostApplies(d, m)
    PROVE  Streams'
<1>1. /\ UNCHANGED <<toClient, mHistory, epoch, mWebsocketClient, mAccumulatedDeltas,
                     mAccumulatedAcknowledges, mRequestedReloads>>
      /\ data' = [data EXCEPT ![d][m] = ApplyNextUpdate(data[d][m])]
      /\ HasNextUpdate(data[d][m])
      /\ ClientTypeOK
  BY DEF HostApplies, ApplyRemoteUpdate, wireVars, serverVars, TypeInv, TypeOK, LoopInv
<1>2. ASSUME NEW c \in Steady, NEW l \in Layers, InLiveMode(c), StreamOf(c, l)
      PROVE  StreamOf(c, l)' \/ data'[c][l] = data[c][l]
  <2>1. CASE c = d /\ l = m
    <3> DEFINE d2 == ApplyNextUpdate(data[c][l])
    <3>1. data[c][l] \in LayerState /\ Len(mHistory[l]) \in Nat /\ epoch[l] \in Nat
      BY <1>2, SteadyLive, StreamTypes
    <3>2. PICK k, e, f \in Nat :
              /\ Wire(toClient[mWebsocketClient[c]][l], k, e, Len(mHistory[l]), epoch[l])
              /\ Taken(mAccumulatedDeltas[c][l], mAccumulatedAcknowledges[c][l], data[c][l],
                       l, mRequestedReloads[c], k, e, f, epoch[l])
      BY <1>2 DEF StreamOf, Stream
    <3>3. Taken(mAccumulatedDeltas[c][l], mAccumulatedAcknowledges[c][l], d2,
                l, mRequestedReloads[c], k, e, f, epoch[l])
      BY <1>1, <2>1, <3>1, <3>2, TakenApply
    <3>4. data'[c][l] = d2
      BY <1>1, <2>1 DEF ClientTypeOK
    <3>5. QED
      BY <1>1, <3>2, <3>3, <3>4 DEF StreamOf, Stream
  <2>2. CASE ~(c = d /\ l = m)
    BY <1>1, <2>2 DEF ClientTypeOK, Steady
  <2>3. QED
    BY <2>1, <2>2
<1>3. QED
  BY <1>1, <1>2, HostLeavesStreams

LEMMA StreamsHostTicks ==
    ASSUME TypeInv, Delivery, Connections, Streams, NEW d \in Clients, HostTicks(d)
    PROVE  Streams'
<1>1. /\ UNCHANGED <<toClient, mHistory, epoch, mWebsocketClient>>
      /\ mAccumulatedDeltas' = [mAccumulatedDeltas EXCEPT ![d] = Silent]
      /\ mAccumulatedAcknowledges' = [mAccumulatedAcknowledges EXCEPT ![d] = Silent]
      /\ mRequestedReloads' = [mRequestedReloads EXCEPT ![d] = {}]
      /\ data' = [data EXCEPT ![d] = [l \in Layers |-> Accumulated(d, l)]]
      /\ ClientTypeOK
  BY DEF HostTicks, Tick, serverVars, TypeInv, TypeOK
<1>2. ASSUME NEW c \in Steady, NEW l \in Layers, InLiveMode(c), StreamOf(c, l), c = d
      PROVE  StreamOf(c, l)'
  <2> DEFINE deltas == mAccumulatedDeltas[c][l]
             acks == mAccumulatedAcknowledges[c][l]
             asked == mRequestedReloads[c]
             after == Accumulated(c, l)
  <2>1. /\ deltas \in Seq(ServerDelta) /\ acks \in Seq(Acknowledge)
        /\ data[c][l] \in LayerState /\ Len(mHistory[l]) \in Nat /\ epoch[l] \in Nat
    BY <1>2, SteadyLive, StreamTypes
  <2>2. /\ mAccumulatedDeltas'[c][l] = <<>> /\ mAccumulatedAcknowledges'[c][l] = <<>>
        /\ mRequestedReloads'[c] = {} /\ data'[c][l] = after
    BY <1>1, <1>2 DEF ClientTypeOK, Silent
  <2>3. PICK k, e, f \in Nat :
            /\ Wire(toClient[mWebsocketClient[c]][l], k, e, Len(mHistory[l]), epoch[l])
            /\ Taken(deltas, acks, data[c][l], l, asked, k, e, f, epoch[l])
    BY <1>2 DEF StreamOf, Stream
  <2>4. Taken(<<>>, <<>>, after, l, {}, k, e, e, epoch[l])
    <3>1. CASE l \in mLayerRegistry[c]
      <4>1. after = Queued(IF l \in asked THEN OnLoaded(File[l]) ELSE data[c][l],
                           deltas, acks)
        BY <3>1 DEF Accumulated, Reloaded, Queued
      <4>2. File[l] \in Contents
        BY LiveClientAssumption
      <4> HIDE DEF deltas, acks, asked, after
      <4>3. Taken(<<>>, <<>>,
                  Queued(IF l \in asked THEN OnLoaded(File[l]) ELSE data[c][l], deltas, acks),
                  l, {}, k, e, e, epoch[l])
        BY <2>1, <2>3, <4>2, TakenTick
      <4>4. QED
        BY <4>1, <4>3
    <3>2. CASE l \notin mLayerRegistry[c]
      <4>1. l \notin OpenedFirst
        BY <1>2, <3>2 DEF Connections, StayConnected
      <4>2. after = OnLoaded(File[l])
        BY <3>2 DEF Accumulated, Connections, Untouched, Steady
      <4> HIDE DEF after
      <4>3. /\ after.mRemoteDeltasQueue = {} /\ after.mLatestAppliedSequence = 0
            /\ after.applied = <<>>
        BY <4>2 DEF OnLoaded
      <4>4. QED
        BY <2>1, <4>1, <4>3, TakenNothing
    <3>3. QED
      BY <3>1, <3>2
  <2>5. QED
    BY <1>1, <2>2, <2>3, <2>4 DEF StreamOf, Stream
<1>3. ASSUME NEW c \in Steady, c # d
      PROVE  /\ mAccumulatedDeltas'[c] = mAccumulatedDeltas[c]
             /\ mAccumulatedAcknowledges'[c] = mAccumulatedAcknowledges[c]
             /\ mRequestedReloads'[c] = mRequestedReloads[c]
             /\ data'[c] = data[c]
  BY <1>1, <1>3 DEF ClientTypeOK, Steady
<1>4. QED
  BY <1>1, <1>2, <1>3, HostLeavesStreams

LEMMA StreamsStep == TypeInv /\ Delivery /\ Connections /\ Streams /\ [Next]_vars => Streams'
<1> SUFFICES ASSUME TypeInv, Delivery, Connections, Streams, [Next]_vars PROVE Streams'
  OBVIOUS
<1>1. ASSUME NEW c \in Clients, NEW s \in Sessions, Join(c, s) PROVE Streams'
  BY <1>1, StreamsJoin
<1>2. ASSUME NEW c \in Clients, Leave(c) PROVE Streams'
  BY <1>2, StreamsLeave
<1>3. ASSUME NEW c \in Clients, HostTicks(c) PROVE Streams'
  BY <1>3, StreamsHostTicks
<1>4. ASSUME NEW s \in Sessions, ServerNotices(s) PROVE Streams'
  BY <1>4, StreamsServerNotices
<1>5. ASSUME NEW s \in Sessions, NEW l \in Layers, ServerReceives(s, l) PROVE Streams'
  BY <1>5, StreamsDelta, StreamsReload DEF ServerReceives
<1>6. ASSUME NEW c \in Clients, NEW l \in Layers, ClientReceives(c, l) PROVE Streams'
  BY <1>6, StreamsClientReceives
<1>7. ASSUME NEW c \in Clients, NEW l \in Layers, HostEdits(c, l) PROVE Streams'
  BY <1>7, StreamsHostEdits
<1>8. ASSUME NEW c \in Clients, NEW l \in Layers, HostApplies(c, l) PROVE Streams'
  BY <1>8, StreamsHostApplies
<1>9. ASSUME NEW c \in Clients, NEW l \in Layers, HostOpens(c, l) PROVE Streams'
  BY <1>9, StreamsHostOpens
<1>10. ASSUME NEW c \in Clients, NEW l \in Layers, HostReloads(c, l) PROVE Streams'
  BY <1>10, StreamsHostReloads
<1>11. CASE UNCHANGED vars
  BY <1>11 DEF vars, wireVars, serverVars, clientVars, Streams, StreamOf, InLiveMode
<1>12. QED
  BY <1>1, <1>2, <1>3, <1>4, <1>5, <1>6, <1>7, <1>8, <1>9, <1>10, <1>11 DEF Next

\* The way of every update to a client that stays: see the head of this module.
THEOREM StreamsCorrect == Spec => [](Connections /\ Streams)
<1>1. Spec => []TypeInv
  BY TypeInit, TypeStep, PTL DEF Spec
<1>2. Init => Connections /\ Streams
  BY ConnectionsInit, StreamsInit
<1>3. TypeInv /\ Delivery /\ Connections /\ Streams /\ [Next]_vars
      => (Connections /\ Streams)'
  BY ConnectionsStep, StreamsStep
<1>4. QED
  BY <1>1, <1>2, <1>3, DeliveryCorrect, PTL DEF Spec

(***************************************************************************)
(* Where update n of numbering e is: HeldOnce.                             *)
(***************************************************************************)
Positions(events, n, e) ==
    {i \in DOMAIN events :
        ~IsReload(events[i]) /\ events[i].sequence = n /\ events[i].epoch = e}

Waiting(d, n, e) ==
    {u \in d.mRemoteDeltasQueue : u.sequence = n /\ u.epoch = e}

Applied(d, n, e) ==
    {i \in DOMAIN d.applied : d.applied[i].sequence = n /\ d.applied[i].epoch = e}

Single(places) == \E x : places = {x}

LEMMA PositionsJoined ==
    ASSUME NEW S, NEW a \in Seq(S), NEW b \in Seq(S), NEW n, NEW e
    PROVE  Positions(a \o b, n, e)
               = Positions(a, n, e) \cup {Len(a) + i : i \in Positions(b, n, e)}
<1> DEFINE ab == a \o b
<1>1. /\ Len(a) \in Nat /\ Len(b) \in Nat
      /\ DOMAIN a = 1..Len(a) /\ DOMAIN b = 1..Len(b)
      /\ DOMAIN ab = 1..(Len(a) + Len(b))
      /\ \A i \in 1..Len(a) : ab[i] = a[i]
      /\ \A i \in 1..Len(b) : ab[Len(a) + i] = b[i]
  OBVIOUS
<1> HIDE DEF ab
<1>2. ASSUME NEW x \in Positions(ab, n, e)
      PROVE  x \in Positions(a, n, e) \cup {Len(a) + i : i \in Positions(b, n, e)}
  <2>1. CASE x <= Len(a)
    BY <1>1, <1>2, <2>1 DEF Positions
  <2>2. CASE x > Len(a)
    <3>1. x - Len(a) \in 1..Len(b) /\ x = Len(a) + (x - Len(a))
      BY <1>1, <2>2 DEF Positions
    <3>2. x - Len(a) \in Positions(b, n, e)
      BY <1>1, <1>2, <3>1 DEF Positions
    <3>3. QED
      BY <3>1, <3>2
  <2>3. QED
    BY <1>1, <2>1, <2>2 DEF Positions
<1>3. Positions(a, n, e) \subseteq Positions(ab, n, e)
  BY <1>1 DEF Positions
<1>4. ASSUME NEW i \in Positions(b, n, e)
      PROVE  Len(a) + i \in Positions(ab, n, e)
  BY <1>1 DEF Positions
<1>5. QED
  BY <1>2, <1>3, <1>4 DEF ab

\* A number the server has given is in one place of the stream and in no other.
LEMMA PlacedOnce ==
    ASSUME NEW wire \in Seq(ServerEvent), NEW deltas \in Seq(ServerDelta),
           NEW acks \in Seq(Acknowledge), NEW d \in LayerState, NEW l \in OpenedFirst,
           NEW asked, NEW last \in Nat, NEW numbering \in Nat, NEW n \in 1..last,
           \A i \in DOMAIN d.applied : d.applied[i].sequence = i,
           d.mLatestAppliedSequence = Len(d.applied),
           Stream(wire, deltas, acks, d, l, asked, last, numbering)
    PROVE  LET D == Positions(deltas, n, numbering)
               A == Positions(acks, n, numbering)
               W == Positions(wire, n, numbering)
               Q == Waiting(d, n, numbering)
               P == Applied(d, n, numbering)
           IN  \/ Single(D) /\ A = {} /\ W = {} /\ Q = {} /\ P = {}
               \/ D = {} /\ Single(A) /\ W = {} /\ Q = {} /\ P = {}
               \/ D = {} /\ A = {} /\ Single(W) /\ Q = {} /\ P = {}
               \/ D = {} /\ A = {} /\ W = {} /\ Single(Q) /\ P = {}
               \/ D = {} /\ A = {} /\ W = {} /\ Q = {} /\ Single(P)
<1> DEFINE D == Positions(deltas, n, numbering)
           A == Positions(acks, n, numbering)
           W == Positions(wire, n, numbering)
           Q == Waiting(d, n, numbering)
           P == Applied(d, n, numbering)
<1>1. PICK m, e, f \in Nat :
          /\ Wire(wire, m, e, last, numbering)
          /\ Taken(deltas, acks, d, l, asked, m, e, f, numbering)
  BY DEF Stream
<1>2. Len(wire) \in Nat /\ DOMAIN wire = 1..Len(wire)
  OBVIOUS
<1>3. /\ d.applied \in Seq(Update) /\ DOMAIN d.applied = 1..Len(d.applied)
      /\ \A u \in d.mRemoteDeltasQueue : u.sequence \in Nat
  BY DEF LayerState, Update
<1>4. f # numbering => Q = {} /\ P = {}
  BY <1>1 DEF Taken, LayerOf, Waiting, Applied
<1>5. e # numbering => D = {} /\ A = {}
  BY <1>1 DEF Taken, AllNumbered, Positions
<1>6. CASE \E r \in 1..Len(wire) : IsReload(wire[r])
  <2>1. PICK r \in 1..Len(wire) : LastReload(wire, r)
    BY <1>1, <1>6 DEF Wire
  <2>2. PICK later \in Nat : Segment(wire, r, 0, later, last, numbering)
    BY <1>1, <2>1 DEF Wire, LastReload
  <2>3. later = numbering /\ Len(wire) - r = last
    <3>1. \A k \in (r + 1)..Len(wire) : ~IsReload(wire[k])
      BY <2>1 DEF LastReload
    <3>2. later = numbering /\ 0 + (Len(wire) - r) = last
      BY <2>2, <3>1 DEF Segment
    <3>3. r \in Nat /\ 0 + (Len(wire) - r) = Len(wire) - r
      BY <1>2, <2>1
    <3>4. QED
      BY <3>2, <3>3
  <2>4. \A i \in (r + 1)..Len(wire) :
            ~IsReload(wire[i]) /\ wire[i].sequence = i - r /\ wire[i].epoch = numbering
    BY <1>2, <2>1, <2>2, <2>3 DEF Segment, LastReload
  <2>5. \A i \in 1..(r - 1) : ~IsReload(wire[i]) => wire[i].epoch < numbering
    BY <1>1, <2>1 DEF Wire, LastReload
  <2>6. W = {r + n}
    <3>1. r + n \in W
      BY <1>2, <2>3, <2>4 DEF Positions
    <3>2. ASSUME NEW i \in W
          PROVE  i = r + n
      <4>1. i \in 1..Len(wire) /\ i # r /\ ~IsReload(wire[i]) /\ wire[i].epoch = numbering
        BY <1>2, <2>1 DEF Positions, LastReload
      <4>2. i \notin 1..(r - 1)
        BY <2>5, <4>1
      <4>3. i \in (r + 1)..Len(wire)
        BY <4>1, <4>2
      <4>4. wire[i].sequence = i - r /\ wire[i].sequence = n
        BY <2>4, <4>3 DEF Positions
      <4>5. QED
        BY <4>3, <4>4
    <3>3. QED
      BY <3>1, <3>2
  <2>7. e < numbering /\ f < numbering
    <3>1. \E k \in (0 + 1)..Len(wire) : IsReload(wire[k])
      BY <1>6
    <3>2. e < numbering
      BY <1>1, <3>1 DEF Wire, Segment
    <3>3. QED
      BY <1>1, <3>2 DEF Taken
  <2> HIDE DEF D, A, W, Q, P
  <2>8. D = {} /\ A = {} /\ Q = {} /\ P = {}
    BY <1>4, <1>5, <2>7
  <2>9. Single(W)
    BY <2>6 DEF Single
  <2>10. QED
    BY <2>8, <2>9, Zenon DEF D, A, W, Q, P
<1>7. CASE ~\E r \in 1..Len(wire) : IsReload(wire[r])
  <2> DEFINE start == 0
  <2> HIDE DEF start
  <2>0. /\ start = 0 /\ Segment(wire, start, m, e, last, numbering)
        /\ \A k \in (start + 1)..Len(wire) : ~IsReload(wire[k])
    BY <1>1, <1>7 DEF Wire, start
  <2>1. e = numbering /\ m + Len(wire) = last
    BY <1>2, <2>0 DEF Segment
  <2>2. \A i \in 1..Len(wire) :
            ~IsReload(wire[i]) /\ wire[i].sequence = m + i /\ wire[i].epoch = numbering
    BY <1>2, <1>7, <2>0, <2>1 DEF Segment
  <2>3. l \in asked => f # numbering
    BY <1>1 DEF Taken
  <2>4. l \notin asked =>
            /\ f = numbering
            /\ d.mLatestAppliedSequence <= m
            /\ \A u \in d.mRemoteDeltasQueue : u.sequence <= m
            /\ NotIn(d, deltas)
            /\ NotIn(d, acks)
    BY <1>1, <2>1 DEF Taken
  <2>5. \A i \in DOMAIN deltas : deltas[i].sequence \in 1..m /\ ~Among(acks, deltas[i].sequence)
    BY <1>1 DEF Taken, AllNumbered
  <2>6. \A i \in DOMAIN acks : acks[i].sequence \in 1..m
    BY <1>1 DEF Taken, AllNumbered
  <2>7. CASE n > m
    <3>1. W = {n - m}
      BY <1>2, <2>1, <2>2, <2>7 DEF Positions
    <3>2. D = {} /\ A = {}
      BY <2>5, <2>6, <2>7 DEF Positions
    <3>3. l \notin asked => Q = {} /\ P = {}
      BY <1>3, <2>4, <2>7 DEF Waiting, Applied
    <3>4. QED
      BY <1>4, <2>3, <3>1, <3>2, <3>3 DEF Single
  <2>8. CASE n <= m
    <3>1. W = {}
      BY <1>2, <2>2, <2>8 DEF Positions
    <3>2. ASSUME NEW events, AllNumbered(events, m, e), NEW i \in DOMAIN events,
                 events[i].sequence = n, ~IsReload(events[i])
          PROVE  Positions(events, n, numbering) = {i}
      BY <2>1, <3>2 DEF AllNumbered, Positions
    <3>3. ASSUME NEW events, ~Among(events, n)
          PROVE  Positions(events, n, numbering) = {}
      BY <3>3 DEF Among, Positions
    <3>4. ASSUME NEW events, Among(events, n), l \notin asked => NotIn(d, events)
          PROVE  Q = {} /\ P = {}
      <4>1. CASE l \in asked
        BY <1>4, <2>3, <4>1
      <4>2. CASE l \notin asked
        BY <1>3, <3>4, <4>2 DEF Among, NotIn, Waiting, Applied
      <4>3. QED
        BY <4>1, <4>2
    <3>5. /\ \A i \in DOMAIN deltas : ~IsReload(deltas[i])
          /\ \A i \in DOMAIN acks : ~IsReload(acks[i])
      <4>1. \A i \in DOMAIN deltas : deltas[i] \in ServerDelta
        OBVIOUS
      <4>2. \A i \in DOMAIN acks : acks[i] \in Acknowledge
        OBVIOUS
      <4>3. QED
        BY <4>1, <4>2 DEF ServerDelta, Acknowledge, IsReload
    <3>6. CASE Among(deltas, n)
      <4>1. PICK i \in DOMAIN deltas : deltas[i].sequence = n
        BY <3>6 DEF Among
      <4>2. D = {i}
        BY <1>1, <3>2, <3>5, <4>1 DEF Taken
      <4>3. A = {}
        BY <2>5, <3>3, <4>1
      <4>4. QED
        BY <2>4, <3>1, <3>4, <3>6, <4>2, <4>3 DEF Single
    <3>7. CASE ~Among(deltas, n) /\ Among(acks, n)
      <4>1. PICK i \in DOMAIN acks : acks[i].sequence = n
        BY <3>7 DEF Among
      <4>2. A = {i}
        BY <1>1, <3>2, <3>5, <4>1 DEF Taken
      <4>3. D = {}
        BY <3>3, <3>7
      <4>4. QED
        BY <2>4, <3>1, <3>4, <3>7, <4>2, <4>3 DEF Single
    <3>8. CASE ~Among(deltas, n) /\ ~Among(acks, n)
      <4>1. D = {} /\ A = {}
        BY <3>3, <3>8
      <4>2. l \notin asked /\ InLayer(d, n)
        BY <1>1, <2>8, <3>8 DEF Taken
      <4>3. CASE n <= d.mLatestAppliedSequence
        <5>1. P = {n}
          BY <1>1, <1>3, <2>4, <4>2, <4>3 DEF Taken, LayerOf, Applied
        <5>2. Q = {}
          BY <1>1, <1>3, <4>3 DEF Taken, LayerOf, Waiting
        <5>3. QED
          BY <3>1, <4>1, <5>1, <5>2 DEF Single
      <4>4. CASE n > d.mLatestAppliedSequence
        <5>1. PICK u \in d.mRemoteDeltasQueue : u.sequence = n
          BY <1>3, <4>2, <4>4 DEF InLayer
        <5>2. Q = {u}
          BY <1>1, <2>4, <4>2, <5>1 DEF Taken, LayerOf, Waiting
        <5>3. P = {}
          BY <1>3, <4>4 DEF Applied
        <5>4. QED
          BY <3>1, <4>1, <5>2, <5>3 DEF Single
      <4>5. QED
        BY <1>3, <4>3, <4>4
    <3>9. QED
      BY <3>6, <3>7, <3>8
  <2>9. QED
    BY <2>7, <2>8
<1>8. QED
  BY <1>6, <1>7

LEMMA ShiftedSingle ==
    ASSUME NEW S, NEW k, Single(S)
    PROVE  Single({k + i : i \in S})
<1>1. PICK x : S = {x}
  BY DEF Single
<1>2. {k + i : i \in S} = {k + x}
  BY <1>1
<1>3. QED
  BY <1>2 DEF Single

\* How many there are of sets of which one is a singleton and the others are empty.
LEMMA OneOfThem ==
    ASSUME NEW A, NEW Q, NEW P,
           \/ Single(A) /\ Q = {} /\ P = {}
           \/ A = {} /\ Single(Q) /\ P = {}
           \/ A = {} /\ Q = {} /\ Single(P)
    PROVE  Cardinality(A) + Cardinality(Q) + Cardinality(P) = 1
<1>1. Cardinality({}) = 0
  BY FS_EmptySet
<1>2. \A S : Single(S) => Cardinality(S) = 1
  BY FS_Singleton DEF Single
<1>3. QED
  BY <1>1, <1>2

\* Every update the server has numbered is in exactly one place between the server and
\* the data of every client that stays connected: OnConnected's replay and Send's
\* broadcasts overlap nowhere, a tick that moves out what OnMessage has accumulated loses
\* nothing, and a reload drops exactly what the server has forgotten.
THEOREM HeldOnceCorrect == Spec => []HeldOnce
<1>1. TypeInv /\ Delivery /\ Connections /\ Streams => HeldOnce
  <2> SUFFICES ASSUME TypeInv, Delivery, Connections, Streams,
                      NEW c \in Steady, NEW l \in OpenedFirst, IsConnected(c),
                      NEW n \in DOMAIN mHistory[l]
               PROVE  Held(c, l, n) = 1
    BY DEF HeldOnce
  <2> DEFINE deltas == mAccumulatedDeltas[c][l]
             acks == mAccumulatedAcknowledges[c][l]
             wire == toClient[mWebsocketClient[c]][l]
             d == data[c][l]
             e == epoch[l]
             last == Len(mHistory[l])
  <2>1. l \in Layers /\ InLiveMode(c) /\ c \in Clients /\ mWebsocketClient[c] \in Sessions
    BY LiveSessionAssumption, SteadyLive DEF IsConnected
  <2>2. /\ wire \in Seq(ServerEvent)
        /\ deltas \in Seq(ServerDelta) /\ acks \in Seq(Acknowledge)
        /\ d \in LayerState /\ last \in Nat /\ e \in Nat
    BY <2>1, StreamTypes
  <2>3. n \in 1..last
    BY <2>1 DEF TypeInv, TypeOK, ServerTypeOK
  <2>4. /\ \A i \in DOMAIN d.applied : d.applied[i].sequence = i
        /\ d.mLatestAppliedSequence = Len(d.applied)
    BY <2>1 DEF Delivery, DataGenuine, LayerGenuine
  <2>5. Stream(wire, deltas, acks, d, l, mRequestedReloads[c], last, e)
    BY <2>1 DEF Streams, StreamOf
  <2>6. Arriving(c, l) = deltas \o acks \o wire
    BY <2>1 DEF Arriving
  <2>7. Held(c, l, n) = Cardinality(Positions(deltas \o acks \o wire, n, e))
                            + Cardinality(Waiting(d, n, e)) + Cardinality(Applied(d, n, e))
    BY <2>6 DEF Held, Positions, IsReload, Waiting, Applied
  <2> HIDE DEF deltas, acks, wire, d, e, last
  <2> DEFINE D == Positions(deltas, n, e)
             A == Positions(acks, n, e)
             W == Positions(wire, n, e)
             Q == Waiting(d, n, e)
             P == Applied(d, n, e)
             Arrived == Positions(deltas \o acks \o wire, n, e)
             both == deltas \o acks
  <2>8. Arrived = D \cup {Len(deltas) + i : i \in A}
                    \cup {Len(deltas \o acks) + i : i \in W}
    <3>1. /\ deltas \in Seq(ServerEvent) /\ acks \in Seq(ServerEvent)
          /\ deltas \o acks \in Seq(ServerEvent)
      <4>1. deltas \in Seq(ServerEvent) /\ acks \in Seq(ServerEvent)
        BY <2>2, SeqOfSubset DEF ServerEvent
      <4>2. QED
        BY <4>1
    <3>2. Positions(deltas \o acks, n, e) = D \cup {Len(deltas) + i : i \in A}
      BY <3>1, PositionsJoined
    <3>3. Arrived = Positions(both, n, e) \cup {Len(both) + i : i \in W}
      <4>1. both \in Seq(ServerEvent)
        BY <3>1
      <4> HIDE DEF both
      <4>2. Positions(both \o wire, n, e)
                = Positions(both, n, e) \cup {Len(both) + i : i \in W}
        BY <2>2, <4>1, PositionsJoined
      <4>3. QED
        BY <4>2 DEF both
    <3>4. QED
      BY <3>2, <3>3
  <2>9. \/ Single(D) /\ A = {} /\ W = {} /\ Q = {} /\ P = {}
        \/ D = {} /\ Single(A) /\ W = {} /\ Q = {} /\ P = {}
        \/ D = {} /\ A = {} /\ Single(W) /\ Q = {} /\ P = {}
        \/ D = {} /\ A = {} /\ W = {} /\ Single(Q) /\ P = {}
        \/ D = {} /\ A = {} /\ W = {} /\ Q = {} /\ Single(P)
    BY <2>2, <2>3, <2>4, <2>5, PlacedOnce
  <2> HIDE DEF D, A, W, Q, P, Arrived
  <2>10. \/ Single(Arrived) /\ Q = {} /\ P = {}
         \/ Arrived = {} /\ Single(Q) /\ P = {}
         \/ Arrived = {} /\ Q = {} /\ Single(P)
    <3> DEFINE A2 == {Len(deltas) + i : i \in A}
               W2 == {Len(deltas \o acks) + i : i \in W}
    <3>1. A = {} => A2 = {}
      OBVIOUS
    <3>2. W = {} => W2 = {}
      OBVIOUS
    <3>3. Single(A) => Single(A2)
      BY ShiftedSingle
    <3>4. Single(W) => Single(W2)
      BY ShiftedSingle
    <3>5. Arrived = D \cup A2 \cup W2
      BY <2>8
    <3> HIDE DEF A2, W2
    <3>6. Single(D) /\ A2 = {} /\ W2 = {} => Single(Arrived)
      BY <3>5 DEF Single
    <3>7. D = {} /\ Single(A2) /\ W2 = {} => Single(Arrived)
      BY <3>5 DEF Single
    <3>8. D = {} /\ A2 = {} /\ Single(W2) => Single(Arrived)
      BY <3>5 DEF Single
    <3>9. D = {} /\ A2 = {} /\ W2 = {} => Arrived = {}
      BY <3>5
    <3>10. QED
      BY <2>9, <3>1, <3>2, <3>3, <3>4, <3>6, <3>7, <3>8, <3>9, Zenon
  <2>11. Cardinality(Arrived) + Cardinality(Q) + Cardinality(P) = 1
    BY <2>10, OneOfThem
  <2>12. QED
    BY <2>7, <2>11 DEF Arrived, Q, P
<1>2. Spec => []TypeInv
  BY TypeInit, TypeStep, PTL DEF Spec
<1>3. QED
  BY <1>1, <1>2, DeliveryCorrect, StreamsCorrect, PTL

\* A client that stays never applies to one load of a layer updates numbered on both sides
\* of a reload: ProcessReloadEvent forgets what was accumulated before it, and the tick
\* loads the layer afresh before it queues what came after.
THEOREM FollowersCorrect == Spec => []FollowersStartAfresh
<1>1. TypeInv /\ Connections /\ Streams => FollowersStartAfresh
  <2> SUFFICES ASSUME TypeInv, Connections, Streams, NEW c \in Steady, NEW l \in Layers
               PROVE  SameEpoch(c, l)
    BY DEF FollowersStartAfresh
  <2>1. CASE InLiveMode(c)
    <3>1. PICK f : LayerOf(data[c][l], f)
      BY <2>1 DEF Streams, StreamOf, Stream, Taken
    <3>2. QED
      BY <3>1 DEF LayerOf, SameEpoch
  <2>2. CASE ~InLiveMode(c)
    BY <2>2 DEF Connections, NothingYet, SameEpoch
  <2>3. QED
    BY <2>1, <2>2
<1>2. Spec => []TypeInv
  BY TypeInit, TypeStep, PTL DEF Spec
<1>3. QED
  BY <1>1, <1>2, StreamsCorrect, PTL

-----------------------------------------------------------------------------
(***************************************************************************)
(* What a user finds who has lost the connection and come back: while the  *)
(* channel has lived on, nothing the server has numbered is missing.       *)
(*                                                                         *)
(* The replay puts all of the history on the new socket, and from then on  *)
(* a number only moves: from the socket to what is accumulated, from there *)
(* into the queue of the layer, and into its data.  A number may be in     *)
(* several places, since what the client had before is replayed too.       *)
(***************************************************************************)

\* A user has one session at most, and it is in the channel.
OneUp ==
    /\ \A s, t \in serverUp : ClientOf[s] = ClientOf[t] => s = t
    /\ serverUp \subseteq mConnections

\* Nobody is told to reload before the numbering has restarted.
ReloadsComeLate ==
    /\ \A s \in Sessions, l \in Layers : \A i \in DOMAIN toClient[s][l] :
           IsReload(toClient[s][l][i]) => epoch[l] > 0
    /\ \A c \in Clients : \A l \in mRequestedReloads[c] : epoch[l] > 0

LoadedInLive ==
    \A c \in Clients : InLiveMode(c) => OpenedFirst \subseteq mLayerRegistry[c]

\* mRemoteDeltasQueue is a map from numbers to updates.
QueuesAreMaps ==
    \A c \in Clients, l \in Layers :
        \A u, v \in data[c][l].mRemoteDeltasQueue : u.sequence = v.sequence => u = v

Somewhere(deltas, acks, wire, d, n) ==
    Among(deltas, n) \/ Among(acks, n) \/ Among(wire, n) \/ InLayer(d, n)

Reached(c, l, n) ==
    Somewhere(mAccumulatedDeltas[c][l], mAccumulatedAcknowledges[c][l],
              toClient[mWebsocketClient[c]][l], data[c][l], n)

\* The connections that NothingMissing speaks of.
Served(c, l) == IsConnected(c) /\ mWebsocketClient[c] \in serverUp /\ epoch[l] = 0

EverythingReached ==
    \A c \in Clients \ Reloaders, l \in OpenedFirst :
        Served(c, l) => \A n \in DOMAIN mHistory[l] : Reached(c, l, n)

Returns ==
    /\ OneUp
    /\ ReloadsComeLate
    /\ LoadedInLive
    /\ QueuesAreMaps
    /\ EverythingReached

(***************************************************************************)
(* The methods of RenderStudioData keep numbers, and one update under each.*)
(***************************************************************************)
MapQueue(d) ==
    \A u, v \in d.mRemoteDeltasQueue : u.sequence = v.sequence => u = v

\* Of several positions of a sequence there is a last one.
LEMMA LastOfSome ==
    ASSUME NEW len \in Nat, NEW T, T \subseteq 1..len, T # {}
    PROVE  \E i \in T : \A j \in T : j <= i
<1> DEFINE all == 1..len
           Behind(i) == (i + 1)..len
           Tails == {Behind(i) : i \in T}
<1>1. IsFiniteSet(all)
  BY FS_Interval
<1>2. Tails \subseteq SUBSET all /\ Tails # {}
  <2>1. \A i \in T : i \in Nat /\ Behind(i) \subseteq all
    OBVIOUS
  <2>2. \A i \in T : Behind(i) \in Tails
    OBVIOUS
  <2>3. \A y \in Tails : \E i \in T : y = Behind(i)
    OBVIOUS
  <2> HIDE DEF Behind, Tails, all
  <2>4. QED
    BY <2>1, <2>2, <2>3
<1>3. IsWellFoundedOn(StrictSubsetOrdering(all), SUBSET all)
  BY <1>1, FS_StrictSubsetOrderingWellFounded, FS_FiniteSubsetsOfFinite
<1> HIDE DEF all, Tails
<1>4. PICK x \in Tails : \A y \in Tails : ~(<<y, x>> \in StrictSubsetOrdering(all))
  BY <1>2, <1>3, WFMin
<1>5. \A y \in Tails : ~(y \subseteq x /\ y # x)
  BY <1>2, <1>4 DEF StrictSubsetOrdering
<1>6. PICK i \in T : x = Behind(i)
  BY DEF Tails
<1>7. ASSUME NEW j \in T, j > i
      PROVE  FALSE
  <2>1. Behind(j) \in Tails
    BY DEF Tails
  <2>2. Behind(j) \subseteq Behind(i) /\ j \in Behind(i) /\ j \notin Behind(j)
    BY <1>7
  <2>3. QED
    BY <1>5, <1>6, <2>1, <2>2
<1>8. QED
  BY <1>7

\* Whatever was queued or is given is queued afterwards, and under each number one update.
LEMMA AccumulateKeeps ==
    ASSUME NEW d \in LayerState, NEW S, NEW updates \in Seq(S), MapQueue(d)
    PROVE  LET after == AccumulateRemoteUpdates(d, updates)
           IN  /\ MapQueue(after)
               /\ \A n : InLayer(d, n) \/ Among(updates, n) => InLayer(after, n)
<1> DEFINE after == AccumulateRemoteUpdates(d, updates)
           stored == {i \in DOMAIN updates : \A j \in DOMAIN updates :
                          updates[j].sequence = updates[i].sequence => j <= i}
           numbers == {updates[i].sequence : i \in stored}
           queued == {Queueable(updates[i]) : i \in stored}
<1>1. /\ after.mLatestAppliedSequence = d.mLatestAppliedSequence
      /\ after.mRemoteDeltasQueue
            = {u \in d.mRemoteDeltasQueue : u.sequence \notin numbers} \cup queued
  BY DEF AccumulateRemoteUpdates, LayerState, Queueable
<1>2. DOMAIN updates = 1..Len(updates) /\ Len(updates) \in Nat
  OBVIOUS
<1>3. ASSUME NEW n, Among(updates, n)
      PROVE  \E i \in stored : updates[i].sequence = n
  <2> DEFINE T == {i \in DOMAIN updates : updates[i].sequence = n}
  <2>1. T \subseteq 1..Len(updates) /\ T # {}
    BY <1>2, <1>3 DEF Among
  <2>2. PICK i \in T : \A j \in T : j <= i
    BY <1>2, <2>1, LastOfSome
  <2>3. QED
    BY <2>2
<1>4. \A i, j \in stored : updates[i].sequence = updates[j].sequence => i = j
  BY <1>2
<1>5. ASSUME NEW u \in queued
      PROVE  \E i \in stored : u = Queueable(updates[i]) /\ u.sequence = updates[i].sequence
  BY DEF Queueable
<1>6. ASSUME NEW i \in stored
      PROVE  Queueable(updates[i]) \in queued
             /\ Queueable(updates[i]).sequence = updates[i].sequence
  BY DEF Queueable
<1>7. \A u \in queued : u.sequence \in numbers
  BY <1>5
<1>8. \A n \in numbers : \E u \in queued : u.sequence = n
  BY <1>6
<1>9. \A n : Among(updates, n) => n \in numbers
  BY <1>3
<1>10. \A u, v \in queued : u.sequence = v.sequence => u = v
  BY <1>4, <1>5
<1> HIDE DEF after, queued, stored, numbers
<1>11. MapQueue(after)
  BY <1>1, <1>7, <1>10 DEF MapQueue
<1>12. ASSUME NEW n, InLayer(d, n) \/ Among(updates, n)
       PROVE  InLayer(after, n)
  <2>1. CASE n \in numbers
    BY <1>1, <1>8, <2>1 DEF InLayer
  <2>2. CASE n \notin numbers
    BY <1>1, <1>9, <1>12, <2>2 DEF InLayer
  <2>3. QED
    BY <2>1, <2>2
<1>13. QED
  BY <1>11, <1>12 DEF after

\* What is applied was queued, and the rest of the queue stays.
LEMMA ApplyKeeps ==
    ASSUME NEW d \in LayerState, MapQueue(d), HasNextUpdate(d)
    PROVE  LET after == ApplyNextUpdate(d)
           IN  /\ MapQueue(after)
               /\ \A n \in Nat : InLayer(d, n) => InLayer(after, n)
<1> DEFINE update == CHOOSE u \in d.mRemoteDeltasQueue : IsNextUpdate(d, u)
           after == ApplyNextUpdate(d)
<1>1. update \in d.mRemoteDeltasQueue /\ update.sequence = d.mLatestAppliedSequence + 1
  BY DEF HasNextUpdate, IsNextUpdate
<1>2. /\ after.mLatestAppliedSequence = update.sequence
      /\ after.mRemoteDeltasQueue = d.mRemoteDeltasQueue \ {update}
  BY DEF ApplyNextUpdate, LayerState
<1>3. d.mLatestAppliedSequence \in Nat
  BY DEF LayerState
<1> HIDE DEF update, after
<1>4. MapQueue(after)
  BY <1>2 DEF MapQueue
<1>5. ASSUME NEW n \in Nat, InLayer(d, n)
      PROVE  InLayer(after, n)
  BY <1>1, <1>2, <1>3, <1>5 DEF InLayer
<1>6. QED
  BY <1>4, <1>5 DEF after

(***************************************************************************)
(* Returns, step by step.                                                  *)
(***************************************************************************)
LEMMA ReturnsInit == Init => Returns
<1> SUFFICES ASSUME Init PROVE Returns
  OBVIOUS
<1>1. \A c \in Clients : ~InLiveMode(c)
  BY DEF Init, ClientInit, InLiveMode
<1>2. OneUp
  BY DEF Init, ServerInit, OneUp
<1>3. ReloadsComeLate
  BY DEF Init, WireInit, ClientInit, ReloadsComeLate
<1>4. LoadedInLive /\ EverythingReached
  BY <1>1 DEF LoadedInLive, EverythingReached, Served, IsConnected
<1>5. QueuesAreMaps
  BY DEF Init, ClientInit, QueuesAreMaps, OnLoaded
<1>6. QED
  BY <1>2, <1>3, <1>4, <1>5 DEF Returns

\* What the host of c does changes its own layers only.
LEMMA HostKeepsReturns ==
    ASSUME TypeInv, Returns, NEW c \in Clients,
           UNCHANGED <<serverVars, toClient, mWebsocketClient, link>>,
           \A x \in Clients : mLayerRegistry[x] \subseteq mLayerRegistry'[x],
           \A x \in Clients : mRequestedReloads'[x] \subseteq mRequestedReloads[x],
           \A x \in Clients \ {c} :
               /\ data'[x] = data[x]
               /\ mAccumulatedDeltas'[x] = mAccumulatedDeltas[x]
               /\ mAccumulatedAcknowledges'[x] = mAccumulatedAcknowledges[x],
           \A l \in Layers : MapQueue(data'[c][l]),
           \A l \in OpenedFirst, n \in Nat :
               c \notin Reloaders /\ Served(c, l) /\ Reached(c, l, n) => Reached(c, l, n)'
    PROVE  Returns'
<1>1. OneUp'
  BY DEF Returns, OneUp, serverVars
<1>2. ReloadsComeLate'
  BY DEF Returns, ReloadsComeLate, serverVars
<1>3. LoadedInLive'
  BY DEF Returns, LoadedInLive, InLiveMode
<1>4. QueuesAreMaps'
  <2>1. ASSUME NEW x \in Clients, NEW l \in Layers PROVE MapQueue(data'[x][l])
    BY DEF Returns, QueuesAreMaps, MapQueue
  <2>2. QED
    BY <2>1 DEF QueuesAreMaps, MapQueue
<1>5. EverythingReached'
  <2> SUFFICES ASSUME NEW x \in Clients \ Reloaders, NEW l \in OpenedFirst, Served(x, l)',
                      NEW n \in DOMAIN mHistory'[l]
               PROVE  Reached(x, l, n)'
    BY DEF EverythingReached
  <2>1. mHistory' = mHistory /\ l \in Layers /\ n \in DOMAIN mHistory[l] /\ n \in Nat
    BY LiveSessionAssumption DEF serverVars, TypeInv, TypeOK, ServerTypeOK
  <2>2. Served(x, l)
    BY DEF Served, IsConnected, InLiveMode, serverVars
  <2>3. Reached(x, l, n)
    BY <2>1, <2>2 DEF Returns, EverythingReached
  <2>4. CASE x = c
    BY <2>1, <2>2, <2>3, <2>4
  <2>5. CASE x # c
    BY <2>3, <2>5 DEF Reached
  <2>6. QED
    BY <2>4, <2>5
<1>6. QED
  BY <1>1, <1>2, <1>3, <1>4, <1>5 DEF Returns

LEMMA ReturnsHostEdits ==
    ASSUME TypeInv, Returns, NEW c \in Clients, NEW l \in Layers, HostEdits(c, l)
    PROVE  Returns'
<1>1. /\ UNCHANGED <<serverVars, toClient, mWebsocketClient, link, mLayerRegistry,
                     mRequestedReloads, mAccumulatedDeltas, mAccumulatedAcknowledges>>
      /\ \E p, k, v : data' = [data EXCEPT ![c][l] = Set(data[c][l], p, k, v)]
  BY EditOf DEF wireVars
<1>2. PICK p, k, v : data' = [data EXCEPT ![c][l] = Set(data[c][l], p, k, v)]
  BY <1>1
<1>3. /\ data \in [Clients -> [Layers -> LayerState]]
      /\ data[c][l] \in LayerState
  BY DEF TypeInv, TypeOK, ClientTypeOK
<1>4. /\ Set(data[c][l], p, k, v).mRemoteDeltasQueue = data[c][l].mRemoteDeltasQueue
      /\ Set(data[c][l], p, k, v).mLatestAppliedSequence = data[c][l].mLatestAppliedSequence
  BY <1>3 DEF Set, LayerState
<1>5. \A m \in Layers :
          /\ data'[c][m].mRemoteDeltasQueue = data[c][m].mRemoteDeltasQueue
          /\ data'[c][m].mLatestAppliedSequence = data[c][m].mLatestAppliedSequence
  BY <1>2, <1>3, <1>4
<1>6. \A x \in Clients \ {c} : data'[x] = data[x]
  BY <1>2, <1>3
<1>7. \A m \in Layers : MapQueue(data'[c][m])
  BY <1>5 DEF Returns, QueuesAreMaps, MapQueue
<1>8. \A m \in OpenedFirst, n \in Nat : Reached(c, m, n) => Reached(c, m, n)'
  BY <1>1, <1>5, LiveSessionAssumption DEF Reached, Somewhere, InLayer
<1>9. QED
  BY <1>1, <1>6, <1>7, <1>8, HostKeepsReturns

\* A host in live mode has opened these layers before.
LEMMA ReturnsHostOpens ==
    ASSUME TypeInv, Returns, NEW c \in Clients, NEW l \in Layers, HostOpens(c, l)
    PROVE  Returns'
<1>1. /\ UNCHANGED <<serverVars, toClient, mWebsocketClient, link,
                     mRequestedReloads, mAccumulatedDeltas, mAccumulatedAcknowledges>>
      /\ data' = [data EXCEPT ![c][l] = OnLoaded(File[l])]
      /\ mLayerRegistry' = [mLayerRegistry EXCEPT ![c] = @ \cup {l}]
      /\ l \notin mLayerRegistry[c]
      /\ ClientTypeOK
  BY DEF HostOpens, OpenLayer, wireVars, TypeInv, TypeOK
<1>2. \A x \in Clients : mLayerRegistry[x] \subseteq mLayerRegistry'[x]
  BY <1>1 DEF ClientTypeOK
<1>3. /\ \A x \in Clients \ {c} : data'[x] = data[x]
      /\ \A m \in Layers : m # l => data'[c][m] = data[c][m]
      /\ data'[c][l] = OnLoaded(File[l])
  BY <1>1 DEF ClientTypeOK
<1>4. \A m \in Layers : MapQueue(data'[c][m])
  BY <1>3 DEF Returns, QueuesAreMaps, MapQueue, OnLoaded
<1>5. \A m \in OpenedFirst : Served(c, m) => m # l
  BY <1>1 DEF Served, IsConnected, Returns, LoadedInLive
<1>6. \A m \in OpenedFirst, n \in Nat :
          Served(c, m) /\ Reached(c, m, n) => Reached(c, m, n)'
  BY <1>1, <1>3, <1>5, LiveSessionAssumption DEF Reached
<1>7. QED
  BY <1>1, <1>2, <1>3, <1>4, <1>6, HostKeepsReturns

LEMMA ReturnsHostReloads ==
    ASSUME TypeInv, Returns, NEW c \in Clients, NEW l \in Layers, HostReloads(c, l)
    PROVE  Returns'
<1>1. /\ UNCHANGED <<serverVars, toClient, mWebsocketClient, link, mLayerRegistry,
                     mRequestedReloads, mAccumulatedDeltas, mAccumulatedAcknowledges>>
      /\ data' = [data EXCEPT ![c][l] = OnLoaded(File[l])]
      /\ c \in Reloaders
      /\ ClientTypeOK
  BY DEF HostReloads, ReloadLayer, TypeInv, TypeOK
<1>2. /\ \A x \in Clients \ {c} : data'[x] = data[x]
      /\ \A m \in Layers : m # l => data'[c][m] = data[c][m]
      /\ data'[c][l] = OnLoaded(File[l])
  BY <1>1 DEF ClientTypeOK
<1>3. \A m \in Layers : MapQueue(data'[c][m])
  BY <1>2 DEF Returns, QueuesAreMaps, MapQueue, OnLoaded
<1>4. QED
  BY <1>1, <1>2, <1>3, HostKeepsReturns

LEMMA ReturnsHostApplies ==
    ASSUME TypeInv, Returns, NEW c \in Clients, NEW l \in Layers, HostApplies(c, l)
    PROVE  Returns'
<1>1. /\ UNCHANGED <<serverVars, toClient, mWebsocketClient, link, mLayerRegistry,
                     mRequestedReloads, mAccumulatedDeltas, mAccumulatedAcknowledges>>
      /\ data' = [data EXCEPT ![c][l] = ApplyNextUpdate(data[c][l])]
      /\ HasNextUpdate(data[c][l])
      /\ ClientTypeOK
  BY DEF HostApplies, ApplyRemoteUpdate, wireVars, TypeInv, TypeOK, LoopInv
<1>2. /\ \A x \in Clients \ {c} : data'[x] = data[x]
      /\ \A m \in Layers : m # l => data'[c][m] = data[c][m]
      /\ data'[c][l] = ApplyNextUpdate(data[c][l])
      /\ data[c][l] \in LayerState
  BY <1>1 DEF ClientTypeOK
<1>3. /\ MapQueue(data'[c][l])
      /\ \A n \in Nat : InLayer(data[c][l], n) => InLayer(data'[c][l], n)
  <2>1. MapQueue(data[c][l])
    BY DEF Returns, QueuesAreMaps, MapQueue
  <2>2. QED
    BY <1>1, <1>2, <2>1, ApplyKeeps
<1>4. \A m \in Layers : MapQueue(data'[c][m])
  BY <1>2, <1>3 DEF Returns, QueuesAreMaps, MapQueue
<1>5. \A m \in OpenedFirst, n \in Nat : Reached(c, m, n) => Reached(c, m, n)'
  <2> SUFFICES ASSUME NEW m \in OpenedFirst, NEW n \in Nat, Reached(c, m, n)
               PROVE  Reached(c, m, n)'
    OBVIOUS
  <2>1. InLayer(data[c][m], n) => InLayer(data'[c][m], n)
    BY <1>2, <1>3, LiveSessionAssumption
  <2>2. QED
    BY <1>1, <2>1 DEF Reached, Somewhere
<1>6. QED
  BY <1>1, <1>2, <1>4, <1>5, HostKeepsReturns

\* A tick queues all that was accumulated; it reloads no layer whose numbering has gone on.
LEMMA TickKeeps ==
    ASSUME TypeInv, Returns, NEW c \in Clients, NEW l \in Layers
    PROVE  /\ MapQueue(Accumulated(c, l))
           /\ l \in mLayerRegistry[c] /\ l \notin mRequestedReloads[c] =>
                 \A n : \/ InLayer(data[c][l], n)
                        \/ Among(mAccumulatedDeltas[c][l], n)
                        \/ Among(mAccumulatedAcknowledges[c][l], n)
                        => InLayer(Accumulated(c, l), n)
<1> DEFINE deltas == mAccumulatedDeltas[c][l]
           acks == mAccumulatedAcknowledges[c][l]
           fetched == FetchLocalDeltas(Reloaded(c, l))
           acked == AccumulateRemoteUpdates(fetched, acks)
<1>1. /\ ClientTypeOK
      /\ deltas \in Seq(ServerDelta) /\ acks \in Seq(Acknowledge)
      /\ acks \in Seq(ServerDelta \cup Acknowledge)
  BY SeqOfSubset DEF TypeInv, TypeOK, ClientTypeOK
<1>2. Reloaded(c, l) \in LayerState /\ fetched \in LayerState
  BY <1>1, ReloadedType, FetchLocalDeltasType
<1>3. MapQueue(data[c][l])
  BY DEF Returns, QueuesAreMaps, MapQueue
<1>4. /\ fetched.mRemoteDeltasQueue = Reloaded(c, l).mRemoteDeltasQueue
      /\ fetched.mLatestAppliedSequence = Reloaded(c, l).mLatestAppliedSequence
  BY <1>2 DEF FetchLocalDeltas, LayerState
<1>5. MapQueue(fetched)
  BY <1>3, <1>4 DEF MapQueue, Reloaded, OnLoaded
<1>6. acked \in LayerState
  BY <1>1, <1>2, AccumulateRemoteUpdatesType
<1> HIDE DEF fetched
<1>7. MapQueue(acked) /\ \A n : InLayer(fetched, n) \/ Among(acks, n) => InLayer(acked, n)
  BY <1>1, <1>2, <1>5, AccumulateKeeps
<1> HIDE DEF acked, deltas, acks
<1>8. /\ MapQueue(AccumulateRemoteUpdates(acked, deltas))
      /\ \A n : InLayer(acked, n) \/ Among(deltas, n)
                => InLayer(AccumulateRemoteUpdates(acked, deltas), n)
  BY <1>1, <1>6, <1>7, AccumulateKeeps
<1>9. CASE l \in mLayerRegistry[c]
  <2>1. Accumulated(c, l) = AccumulateRemoteUpdates(acked, deltas)
    BY <1>9 DEF Accumulated, acked, fetched, deltas, acks
  <2>2. l \notin mRequestedReloads[c] => \A n : InLayer(data[c][l], n) => InLayer(fetched, n)
    BY <1>4 DEF Reloaded, InLayer
  <2>3. QED
    BY <1>7, <1>8, <2>1, <2>2 DEF deltas, acks
<1>10. CASE l \notin mLayerRegistry[c]
  BY <1>3, <1>10 DEF Accumulated
<1>11. QED
  BY <1>9, <1>10

LEMMA ReturnsHostTicks ==
    ASSUME TypeInv, Returns, NEW c \in Clients, HostTicks(c)
    PROVE  Returns'
<1>1. /\ UNCHANGED <<serverVars, toClient, mWebsocketClient, link, mLayerRegistry>>
      /\ mAccumulatedDeltas' = [mAccumulatedDeltas EXCEPT ![c] = Silent]
      /\ mAccumulatedAcknowledges' = [mAccumulatedAcknowledges EXCEPT ![c] = Silent]
      /\ mRequestedReloads' = [mRequestedReloads EXCEPT ![c] = {}]
      /\ data' = [data EXCEPT ![c] = [l \in Layers |-> Accumulated(c, l)]]
      /\ ClientTypeOK
  BY DEF HostTicks, Tick, TypeInv, TypeOK
<1>2. /\ \A x \in Clients : mRequestedReloads'[x] \subseteq mRequestedReloads[x]
      /\ \A x \in Clients \ {c} :
             /\ data'[x] = data[x]
             /\ mAccumulatedDeltas'[x] = mAccumulatedDeltas[x]
             /\ mAccumulatedAcknowledges'[x] = mAccumulatedAcknowledges[x]
      /\ \A l \in Layers : data'[c][l] = Accumulated(c, l)
  BY <1>1 DEF ClientTypeOK
<1>3. \A l \in Layers : MapQueue(data'[c][l])
  BY <1>2, TickKeeps
<1>4. ASSUME NEW l \in OpenedFirst, NEW n \in Nat, Served(c, l), Reached(c, l, n)
      PROVE  Reached(c, l, n)'
  <2>1. l \in Layers /\ l \in mLayerRegistry[c]
    BY <1>4, LiveSessionAssumption DEF Returns, LoadedInLive, Served, IsConnected
  <2>2. l \notin mRequestedReloads[c]
    BY <1>4 DEF Returns, ReloadsComeLate, Served
  <2>3. \/ InLayer(data[c][l], n)
        \/ Among(mAccumulatedDeltas[c][l], n)
        \/ Among(mAccumulatedAcknowledges[c][l], n)
        => InLayer(data'[c][l], n)
    BY <1>2, <2>1, <2>2, TickKeeps
  <2>4. toClient'[mWebsocketClient'[c]][l] = toClient[mWebsocketClient[c]][l]
    BY <1>1
  <2>5. QED
    BY <1>4, <2>3, <2>4 DEF Reached, Somewhere
<1>5. QED
  BY <1>1, <1>2, <1>3, <1>4, HostKeepsReturns

\* What the server or the sockets do leaves what the clients have.
LEMMA SocketsKeepReturns ==
    ASSUME Returns,
           UNCHANGED <<data, mAccumulatedDeltas, mAccumulatedAcknowledges, mRequestedReloads,
                       mLayerRegistry>>,
           OneUp', LoadedInLive',
           \A l \in Layers : epoch[l] > 0 => epoch'[l] > 0,
           \A s \in Sessions, l \in Layers : \A i \in DOMAIN toClient'[s][l] :
               IsReload(toClient'[s][l][i]) => epoch'[l] > 0,
           \A c \in Clients \ Reloaders, l \in OpenedFirst :
               Served(c, l)' => \A n \in DOMAIN mHistory'[l] : Reached(c, l, n)',
           TypeInv
    PROVE  Returns'
<1>1. ReloadsComeLate'
  BY DEF Returns, ReloadsComeLate, TypeInv, TypeOK, ClientTypeOK
<1>2. QueuesAreMaps'
  BY DEF Returns, QueuesAreMaps
<1>3. EverythingReached'
  BY DEF EverythingReached
<1>4. QED
  BY <1>1, <1>2, <1>3 DEF Returns

\* A number that is on a socket stays there when more is put behind it.
LEMMA AmongJoined ==
    ASSUME NEW S, NEW a \in Seq(S), NEW b \in Seq(S), NEW n
    PROVE  Among(a \o b, n) <=> Among(a, n) \/ Among(b, n)
<1> DEFINE ab == a \o b
<1>1. /\ Len(a) \in Nat /\ Len(b) \in Nat
      /\ DOMAIN a = 1..Len(a) /\ DOMAIN b = 1..Len(b)
      /\ DOMAIN ab = 1..(Len(a) + Len(b))
      /\ \A i \in 1..Len(a) : ab[i] = a[i]
      /\ \A i \in 1..Len(b) : ab[Len(a) + i] = b[i]
  OBVIOUS
<1> HIDE DEF ab
<1>2. ASSUME Among(a, n) PROVE Among(ab, n)
  BY <1>1, <1>2 DEF Among
<1>3. ASSUME Among(b, n) PROVE Among(ab, n)
  <2>1. PICK i \in 1..Len(b) : b[i].sequence = n
    BY <1>1, <1>3 DEF Among
  <2>2. Len(a) + i \in DOMAIN ab
    BY <1>1
  <2>3. QED
    BY <1>1, <2>1, <2>2 DEF Among
<1>4. ASSUME Among(ab, n) PROVE Among(a, n) \/ Among(b, n)
  <2>1. PICK i \in 1..(Len(a) + Len(b)) : ab[i].sequence = n
    BY <1>1, <1>4 DEF Among
  <2>2. CASE i <= Len(a)
    BY <1>1, <2>1, <2>2 DEF Among
  <2>3. CASE i > Len(a)
    <3>1. i - Len(a) \in 1..Len(b) /\ Len(a) + (i - Len(a)) = i
      BY <1>1, <2>3
    <3>2. b[i - Len(a)].sequence = n
      BY <1>1, <2>1, <3>1
    <3>3. QED
      BY <1>1, <3>1, <3>2 DEF Among
  <2>4. QED
    BY <1>1, <2>2, <2>3
<1>5. QED
  BY <1>2, <1>3, <1>4 DEF ab

LEMMA AppendJoins ==
    ASSUME NEW S, NEW a \in Seq(S), NEW x \in S
    PROVE  Append(a, x) = a \o <<x>>
OBVIOUS

LEMMA DeltasNoReloads ==
    ASSUME NEW events \in Seq(ServerDelta)
    PROVE  \A i \in DOMAIN events : ~IsReload(events[i])
<1>1. ASSUME NEW i \in DOMAIN events
      PROVE  ~IsReload(events[i])
  <2>1. events[i] \in ServerDelta
    OBVIOUS
  <2>2. QED
    BY <2>1 DEF ServerDelta, IsReload
<1>2. QED
  BY <1>1

LEMMA AcknowledgesNoReloads ==
    ASSUME NEW events \in Seq(Acknowledge)
    PROVE  \A i \in DOMAIN events : ~IsReload(events[i])
<1>1. ASSUME NEW i \in DOMAIN events
      PROVE  ~IsReload(events[i])
  <2>1. events[i] \in Acknowledge
    OBVIOUS
  <2>2. QED
    BY <2>1 DEF Acknowledge, IsReload
<1>2. QED
  BY <1>1

LEMMA JoinedFrom ==
    ASSUME NEW S, NEW a \in Seq(S), NEW b \in Seq(S), NEW i \in DOMAIN (a \o b)
    PROVE  \/ i \in DOMAIN a /\ (a \o b)[i] = a[i]
           \/ \E k \in DOMAIN b : (a \o b)[i] = b[k]
<1>1. /\ Len(a) \in Nat /\ Len(b) \in Nat /\ i \in 1..(Len(a) + Len(b))
      /\ DOMAIN a = 1..Len(a) /\ DOMAIN b = 1..Len(b)
  OBVIOUS
<1>2. CASE i <= Len(a)
  BY <1>1, <1>2
<1>3. CASE i > Len(a)
  <2>1. i - Len(a) \in 1..Len(b) /\ (a \o b)[i] = b[i - Len(a)]
    BY <1>1, <1>3
  <2>2. QED
    BY <1>1, <2>1
<1>4. QED
  BY <1>1, <1>2, <1>3

\* Two clients have no session in common.
LEMMA OwnSession ==
    ASSUME TypeInv, Delivery, NEW c \in Clients, IsConnected(c)
    PROVE  mWebsocketClient[c] \in Sessions /\ ClientOf[mWebsocketClient[c]] = c
BY DEF IsConnected, InLiveMode, TypeInv, TypeOK, ClientTypeOK, Delivery, OwnSessions

\* Logic::OnConnected sends the history from its beginning.
LEMMA ReturnsJoin ==
    ASSUME NoticedFirst, TypeInv, Delivery, Returns,
           NEW c \in Clients, NEW s \in Sessions, Join(c, s)
    PROVE  Returns'
<1>1. /\ WireTypeOK /\ ServerTypeOK /\ ClientTypeOK /\ ClientOf[s] = c
      /\ SessionsOf(c) \cap serverUp = {}
      /\ UNCHANGED <<data, mAccumulatedDeltas, mAccumulatedAcknowledges, mRequestedReloads,
                     mLayerRegistry, mHistory, epoch>>
  BY DEF Join, OnConnected, ClientOnConnected, TypeInv, TypeOK, SessionsOf
<1>2. /\ serverUp' = serverUp \cup {s} /\ mConnections' = mConnections \cup {s}
      /\ toClient' = [toClient EXCEPT ![s] = [l \in Layers |-> @[l] \o mHistory[l]]]
      /\ mWebsocketClient' = [mWebsocketClient EXCEPT ![c] = s]
      /\ link' = [link EXCEPT ![s] = "up"]
      /\ OpenedFirst \subseteq mLayerRegistry[c]
  BY DEF Join, OnConnected, ClientOnConnected
<1>3. \A l \in Layers : mHistory[l] \in Seq(ServerDelta) /\ mHistory[l] \in Seq(ServerEvent)
  BY <1>1, SeqOfSubset DEF ServerTypeOK, ServerEvent
<1>4. OneUp'
  <2>1. \A t \in serverUp : ClientOf[t] # c
    BY <1>1 DEF SessionsOf, ServerTypeOK
  <2>2. ASSUME NEW t \in serverUp', NEW u \in serverUp', ClientOf[t] = ClientOf[u]
        PROVE  t = u
    BY <1>1, <1>2, <2>1, <2>2 DEF Returns, OneUp
  <2>3. serverUp' \subseteq mConnections'
    BY <1>2 DEF Returns, OneUp
  <2>4. QED
    BY <2>2, <2>3 DEF OneUp
<1>5. LoadedInLive'
  <2>1. \A x \in Clients : x # c => (InLiveMode(x)' <=> InLiveMode(x))
    BY <1>1, <1>2 DEF InLiveMode, ClientTypeOK
  <2>2. QED
    BY <1>1, <1>2, <2>1 DEF Returns, LoadedInLive
<1>6. \A t \in Sessions : t # s => toClient'[t] = toClient[t]
  BY <1>1, <1>2 DEF WireTypeOK
<1>7. \A l \in Layers : toClient'[s][l] = toClient[s][l] \o mHistory[l]
  <2>1. toClient'[s] = [l \in Layers |-> toClient[s][l] \o mHistory[l]]
    BY <1>1, <1>2 DEF WireTypeOK
  <2>2. QED
    BY <2>1
<1>8. ASSUME NEW t \in Sessions, NEW l \in Layers, NEW i \in DOMAIN toClient'[t][l],
             IsReload(toClient'[t][l][i])
      PROVE  epoch'[l] > 0
  <2>1. CASE t = s
    <3> DEFINE old == toClient[s][l]
               joined == old \o mHistory[l]
    <3>1. old \in Seq(ServerEvent) /\ mHistory[l] \in Seq(ServerEvent)
      BY <1>1, <1>3 DEF WireTypeOK
    <3>2. toClient'[t][l] = joined
      BY <1>7, <2>1
    <3>3. i \in DOMAIN joined /\ IsReload(joined[i])
      BY <1>8, <3>2
    <3>4. \A k \in DOMAIN mHistory[l] : ~IsReload(mHistory[l][k])
      BY <1>3, DeltasNoReloads
    <3> HIDE DEF old
    <3>5. \/ i \in DOMAIN old /\ joined[i] = old[i]
          \/ \E k \in DOMAIN mHistory[l] : joined[i] = mHistory[l][k]
      BY <3>1, <3>3, JoinedFrom
    <3> HIDE DEF joined
    <3>6. i \in DOMAIN old /\ IsReload(old[i])
      BY <3>3, <3>4, <3>5
    <3>7. QED
      BY <1>1, <3>6 DEF Returns, ReloadsComeLate, old
  <2>2. CASE t # s
    BY <1>1, <1>6, <1>8, <2>2 DEF Returns, ReloadsComeLate
  <2>3. QED
    BY <2>1, <2>2
<1>9. ASSUME NEW x \in Clients \ Reloaders, NEW l \in OpenedFirst, Served(x, l)',
             NEW n \in DOMAIN mHistory'[l]
      PROVE  Reached(x, l, n)'
  <2>1. l \in Layers
    BY LiveSessionAssumption
  <2>2. CASE x = c
    <3>1. mWebsocketClient'[x] = s
      BY <1>1, <1>2, <2>2 DEF ClientTypeOK
    <3>2. mHistory[l][n].sequence = n
      BY <1>1, <1>9, <2>1 DEF Delivery, HistoryNumbered
    <3>3. Among(mHistory[l], n)
      BY <1>1, <1>9, <3>2 DEF Among
    <3>4. toClient[s][l] \in Seq(ServerEvent)
      BY <1>1, <2>1 DEF WireTypeOK
    <3>5. Among(toClient[s][l] \o mHistory[l], n)
      BY <1>3, <2>1, <3>3, <3>4, AmongJoined
    <3>6. QED
      BY <1>7, <2>1, <3>1, <3>5 DEF Reached, Somewhere
  <2>3. CASE x # c
    <3>1. mWebsocketClient'[x] = mWebsocketClient[x]
      BY <1>1, <1>2, <2>3 DEF ClientTypeOK
    <3>2. mWebsocketClient[x] \in Sessions /\ ClientOf[mWebsocketClient[x]] = x
      BY <1>1, <1>9, <3>1 DEF Served, IsConnected, InLiveMode, ClientTypeOK, Delivery, OwnSessions
    <3>3. mWebsocketClient[x] # s
      BY <1>1, <2>3, <3>2
    <3>4. Served(x, l)
      BY <1>1, <1>2, <1>9, <3>1, <3>2, <3>3 DEF Served, IsConnected, InLiveMode, ClientTypeOK
    <3>5. Reached(x, l, n)
      BY <1>1, <1>9, <3>4 DEF Returns, EverythingReached
    <3>6. QED
      BY <1>1, <1>6, <3>1, <3>2, <3>3, <3>5 DEF Reached
  <2>4. QED
    BY <2>2, <2>3
<1>10. QED
  BY <1>1, <1>4, <1>5, <1>8, <1>9, SocketsKeepReturns

LEMMA ReturnsLeave ==
    ASSUME TypeInv, Delivery, Returns, NEW c \in Clients, Leave(c)
    PROVE  Returns'
<1> DEFINE s == mWebsocketClient[c]
<1>1. /\ WireTypeOK /\ ServerTypeOK /\ ClientTypeOK /\ InLiveMode(c)
  BY DEF TypeInv, TypeOK, Leave, ClientOnDisconnected, Disconnect, IsConnected
<1>2. /\ s \in Sessions /\ ClientOf[s] = c
      /\ link' = [link EXCEPT ![s] = "down"]
      /\ toClient' = [toClient EXCEPT ![s] = Silent]
      /\ \/ mWebsocketClient' = mWebsocketClient
         \/ mWebsocketClient' = [mWebsocketClient EXCEPT ![c] = NoSession]
      /\ UNCHANGED <<data, mAccumulatedDeltas, mAccumulatedAcknowledges, mRequestedReloads,
                     mLayerRegistry, serverUp, mConnections, mHistory, epoch>>
  BY <1>1 DEF Delivery, OwnSessions, InLiveMode, ClientTypeOK, Leave, ClientOnDisconnected,
              Disconnect, serverVars
<1> HIDE DEF s
<1>3. OneUp'
  BY <1>2 DEF Returns, OneUp
<1>4. \A x \in Clients : \/ mWebsocketClient'[x] = mWebsocketClient[x]
                         \/ mWebsocketClient'[x] = NoSession
  BY <1>1, <1>2 DEF ClientTypeOK
<1>5. LoadedInLive'
  BY <1>2, <1>4 DEF Returns, LoadedInLive, InLiveMode
<1>6. /\ \A t \in Sessions : t # s => toClient'[t] = toClient[t] /\ link'[t] = link[t]
      /\ toClient'[s] = Silent /\ link'[s] = "down"
  BY <1>1, <1>2 DEF WireTypeOK, ClientTypeOK
<1>7. ASSUME NEW t \in Sessions, NEW l \in Layers, NEW i \in DOMAIN toClient'[t][l],
             IsReload(toClient'[t][l][i])
      PROVE  epoch'[l] > 0
  <2>1. t # s
    BY <1>6, <1>7 DEF Silent
  <2>2. QED
    BY <1>2, <1>6, <1>7, <2>1 DEF Returns, ReloadsComeLate
<1>8. ASSUME NEW x \in Clients \ Reloaders, NEW l \in OpenedFirst, Served(x, l)',
             NEW n \in DOMAIN mHistory'[l]
      PROVE  Reached(x, l, n)'
  <2>1. mWebsocketClient'[x] = mWebsocketClient[x] /\ InLiveMode(x)
    BY <1>4, <1>8 DEF Served, IsConnected, InLiveMode
  <2>2. mWebsocketClient[x] \in Sessions /\ mWebsocketClient[x] # s
    BY <1>1, <1>6, <1>8, <2>1 DEF Served, IsConnected, InLiveMode, ClientTypeOK
  <2>3. Served(x, l)
    BY <1>2, <1>6, <1>8, <2>1, <2>2 DEF Served, IsConnected, InLiveMode
  <2>4. Reached(x, l, n)
    BY <1>2, <1>8, <2>3 DEF Returns, EverythingReached
  <2>5. QED
    BY <1>2, <1>6, <2>1, <2>2, <2>4 DEF Reached
<1>9. QED
  BY <1>2, <1>3, <1>5, <1>7, <1>8, SocketsKeepReturns

\* The session that ends is the user's only one: none that is up leaves the channel with it.
LEMMA ReturnsServerNotices ==
    ASSUME TypeInv, Delivery, Returns, NEW s \in Sessions, ServerNotices(s)
    PROVE  Returns'
<1>1. /\ ServerTypeOK
      /\ s \in serverUp /\ serverUp' = serverUp \ {s}
      /\ mConnections' = mConnections \ SessionsOf(ClientOf[s])
      /\ UNCHANGED <<clientVars, toClient>>
      /\ \/ UNCHANGED <<mHistory, epoch>>
         \/ epoch' = [l \in Layers |-> epoch[l] + 1]
  BY DEF ServerNotices, OnDisconnected, TypeInv, TypeOK
<1>2. UNCHANGED <<mWebsocketClient, link, data, mAccumulatedDeltas,
                  mAccumulatedAcknowledges, mRequestedReloads, mLayerRegistry>>
  BY <1>1 DEF clientVars
<1>3. OneUp'
  <2>1. ASSUME NEW t \in serverUp'
        PROVE  t \in mConnections'
    <3>1. ClientOf[t] # ClientOf[s]
      BY <1>1, <2>1 DEF Returns, OneUp
    <3>2. QED
      BY <1>1, <2>1, <3>1 DEF Returns, OneUp, SessionsOf
  <2>2. QED
    BY <1>1, <2>1 DEF Returns, OneUp
<1>4. LoadedInLive'
  BY <1>2 DEF Returns, LoadedInLive, InLiveMode
<1>5. \A l \in Layers : epoch[l] \in Nat /\ (epoch[l] > 0 => epoch'[l] > 0)
  BY <1>1 DEF ServerTypeOK
<1>6. \A t \in Sessions, l \in Layers : \A i \in DOMAIN toClient'[t][l] :
          IsReload(toClient'[t][l][i]) => epoch'[l] > 0
  BY <1>1, <1>5 DEF Returns, ReloadsComeLate
<1>7. ASSUME NEW x \in Clients \ Reloaders, NEW l \in OpenedFirst, Served(x, l)',
             NEW n \in DOMAIN mHistory'[l]
      PROVE  Reached(x, l, n)'
  <2>1. l \in Layers /\ epoch'[l] = 0
    BY <1>7, LiveSessionAssumption DEF Served
  <2>2. UNCHANGED <<mHistory, epoch>>
    BY <1>1, <1>5, <2>1
  <2>3. Served(x, l)
    BY <1>1, <1>2, <1>7, <2>2 DEF Served, IsConnected, InLiveMode
  <2>4. Reached(x, l, n)
    BY <1>7, <2>2, <2>3 DEF Returns, EverythingReached
  <2>5. QED
    BY <1>1, <1>2, <2>4 DEF Reached
<1>8. QED
  BY <1>2, <1>3, <1>4, <1>5, <1>6, <1>7, SocketsKeepReturns

\* What reaches the session t of a user when session s has sent something about a layer.
LEMMA SentToServed ==
    ASSUME TypeInv, Returns, NEW s \in serverUp, NEW t \in serverUp, NEW l \in Layers,
           NEW event, NEW toSender, SendToOthers(s, l, event, toSender)
    PROVE  /\ \A m \in Layers \ {l} : toClient'[t][m] = toClient[t][m]
           /\ \/ toClient'[t][l] = toClient[t][l] \o <<event>>
              \/ toClient'[t][l] = toClient[t][l] \o toSender
<1>1. t \in Sessions /\ t \in mConnections /\ (ClientOf[t] = ClientOf[s] => t = s)
  BY DEF TypeInv, TypeOK, ServerTypeOK, Returns, OneUp
<1>2. toClient[t] \in [Layers -> Seq(ServerEvent)]
  BY <1>1 DEF TypeInv, TypeOK, WireTypeOK
<1>3. t \in Recipients(s) \/ t = s
  BY <1>1 DEF Recipients, SessionsOf
<1>4. toClient'[t] = [toClient[t] EXCEPT ![l] =
                         @ \o (IF t \in Recipients(s) THEN <<event>>
                               ELSE IF t = s THEN toSender ELSE <<>>)]
  BY <1>1 DEF SendToOthers
<1>5. QED
  BY <1>2, <1>3, <1>4

\* No reload comes to a socket but the one that is sent.
LEMMA SentToSockets ==
    ASSUME TypeInv, NEW s, NEW l \in Layers, NEW event \in ServerEvent,
           NEW toSender \in Seq(ServerEvent), SendToOthers(s, l, event, toSender),
           \A k \in DOMAIN toSender : ~IsReload(toSender[k])
    PROVE  \A t \in Sessions, m \in Layers : \A i \in DOMAIN toClient'[t][m] :
               IsReload(toClient'[t][m][i])
               => \/ i \in DOMAIN toClient[t][m] /\ IsReload(toClient[t][m][i])
                  \/ m = l /\ IsReload(event)
<1> SUFFICES ASSUME NEW t \in Sessions, NEW m \in Layers, NEW i \in DOMAIN toClient'[t][m],
                    IsReload(toClient'[t][m][i])
             PROVE  \/ i \in DOMAIN toClient[t][m] /\ IsReload(toClient[t][m][i])
                    \/ m = l /\ IsReload(event)
  OBVIOUS
<1> DEFINE sent == IF t \in Recipients(s) THEN <<event>>
                   ELSE IF t = s THEN toSender ELSE <<>>
<1>1. toClient[t] \in [Layers -> Seq(ServerEvent)]
  BY DEF TypeInv, TypeOK, WireTypeOK
<1>2. toClient'[t] = [toClient[t] EXCEPT ![l] = @ \o sent]
  BY DEF SendToOthers
<1>3. CASE m # l
  BY <1>1, <1>2, <1>3
<1>4. CASE m = l
  <2>1. sent \in Seq(ServerEvent)
    <3>1. <<event>> \in Seq(ServerEvent) /\ <<>> \in Seq(ServerEvent)
      OBVIOUS
    <3>2. QED
      BY <3>1
  <2>2. \A k \in DOMAIN sent : IsReload(sent[k]) => IsReload(event)
    <3>1. \A k \in DOMAIN <<event>> : <<event>>[k] = event
      OBVIOUS
    <3>2. DOMAIN <<>> = {}
      OBVIOUS
    <3>3. QED
      BY <3>1, <3>2
  <2> HIDE DEF sent
  <2> DEFINE old == toClient[t][l]
             joined == old \o sent
  <2>3. old \in Seq(ServerEvent) /\ toClient'[t][m] = joined
    BY <1>1, <1>2, <1>4
  <2>4. i \in DOMAIN joined /\ IsReload(joined[i])
    BY <2>3
  <2> HIDE DEF old
  <2>5. \/ i \in DOMAIN old /\ joined[i] = old[i]
        \/ \E k \in DOMAIN sent : joined[i] = sent[k]
    BY <2>1, <2>3, <2>4, JoinedFrom
  <2> HIDE DEF joined
  <2>6. QED
    BY <1>4, <2>2, <2>4, <2>5 DEF old
<1>5. QED
  BY <1>3, <1>4

LEMMA ReturnsDelta ==
    ASSUME TypeInv, Delivery, Returns, NEW s \in Sessions, NEW l \in Layers,
           OnDeltaEvent(s, l), UNCHANGED clientVars
    PROVE  Returns'
<1> DEFINE updates == Head(toServer[s][l]).updates
           number == GetSequenceNumber(l)
           delta == [type |-> "Delta", user |-> ClientOf[s], updates |-> updates,
                     sequence |-> number, epoch |-> epoch[l]]
           ack == [type |-> "Acknowledge", updates |-> PathsOnly(updates),
                   sequence |-> number, epoch |-> epoch[l]]
           toSender == <<ack>>
<1>1. /\ s \in serverUp /\ ChannelExists
      /\ UNCHANGED <<mWebsocketClient, link, data, mAccumulatedDeltas,
                     mAccumulatedAcknowledges, mRequestedReloads, mLayerRegistry,
                     mConnections, serverUp, epoch>>
  BY DEF OnDeltaEvent, TakeFromClient, clientVars, Returns, OneUp, ChannelExists
<1>2. /\ mHistory' = [mHistory EXCEPT ![l] = Append(@, delta)]
      /\ SendToOthers(s, l, delta, toSender)
  BY <1>1 DEF OnDeltaEvent
<1>3. /\ delta \in ServerEvent /\ ack \in ServerEvent
      /\ delta.sequence = number /\ ack.sequence = number
      /\ ~IsReload(delta) /\ ~IsReload(ack)
  <2>1. updates \in Table
    <3>1. toServer[s][l] \in Seq(ClientEvent) /\ toServer[s][l] # <<>>
      BY DEF TypeInv, TypeOK, WireTypeOK, OnDeltaEvent, TakeFromClient
    <3>2. Head(toServer[s][l]) \in ClientEvent /\ Head(toServer[s][l]).type = "Delta"
      BY <3>1 DEF OnDeltaEvent
    <3>3. QED
      BY <3>2 DEF ClientEvent
  <2>2. number \in Nat \ {0} /\ epoch[l] \in Nat /\ ClientOf[s] \in Clients
    BY LiveWireAssumption DEF TypeInv, TypeOK, ServerTypeOK, GetSequenceNumber
  <2>3. delta \in ServerDelta /\ ack \in Acknowledge
    BY <2>1, <2>2, PathsOnlyType DEF ServerDelta, Acknowledge
  <2>4. QED
    BY <2>3 DEF ServerEvent, IsReload
<1> HIDE DEF delta, ack
<1>4. mHistory \in [Layers -> Seq(ServerDelta)] /\ number = Len(mHistory[l]) + 1
  BY DEF TypeInv, TypeOK, ServerTypeOK, GetSequenceNumber
<1>5. OneUp' /\ LoadedInLive'
  BY <1>1 DEF Returns, OneUp, LoadedInLive, InLiveMode
<1>6. toSender \in Seq(ServerEvent) /\ \A k \in DOMAIN toSender : ~IsReload(toSender[k])
  BY <1>3
<1> HIDE DEF toSender
<1>7. \A t \in Sessions, m \in Layers : \A i \in DOMAIN toClient'[t][m] :
          IsReload(toClient'[t][m][i]) => epoch'[m] > 0
  BY <1>1, <1>2, <1>3, <1>6, SentToSockets DEF Returns, ReloadsComeLate
<1>8. ASSUME NEW c \in Clients \ Reloaders, NEW m \in OpenedFirst, Served(c, m)',
             NEW n \in DOMAIN mHistory'[m]
      PROVE  Reached(c, m, n)'
  <2> DEFINE t == mWebsocketClient[c]
  <2>1. m \in Layers /\ t \in serverUp /\ Served(c, m)
    BY <1>1, <1>8, LiveSessionAssumption DEF Served, IsConnected, InLiveMode
  <2>2. t \in Sessions /\ toClient[t][m] \in Seq(ServerEvent)
    BY <2>1 DEF TypeInv, TypeOK, ServerTypeOK, WireTypeOK
  <2> HIDE DEF t
  <2>3. \A k \in DOMAIN mHistory[m] : Reached(c, m, k)
    BY <1>8, <2>1 DEF Returns, EverythingReached
  <2>4. CASE m # l
    <3>1. toClient'[t][m] = toClient[t][m]
      BY <1>1, <1>2, <2>1, <2>4, SentToServed
    <3>2. Reached(c, m, n)
      BY <1>2, <1>4, <1>8, <2>1, <2>3, <2>4
    <3>3. QED
      BY <1>1, <3>1, <3>2 DEF Reached, t
  <2>5. CASE m = l
    <3>1. PICK sent \in {<<delta>>, toSender} : toClient'[t][m] = toClient[t][m] \o sent
      BY <1>1, <1>2, <2>1, <2>5, SentToServed
    <3>2. sent \in Seq(ServerEvent) /\ Among(sent, number)
      <4>1. sent = <<delta>> \/ sent = <<ack>>
        BY <3>1 DEF toSender
      <4>2. PICK event \in {delta, ack} : sent = <<event>>
        BY <4>1
      <4>3. sent \in Seq(ServerEvent) /\ 1 \in DOMAIN sent /\ sent[1].sequence = number
        BY <1>3, <4>2
      <4>4. QED
        BY <4>3 DEF Among
    <3>3. \A k : Among(toClient'[t][m], k) <=> Among(toClient[t][m], k) \/ Among(sent, k)
      BY <2>2, <3>1, <3>2, AmongJoined
    <3>4. n \in DOMAIN mHistory[m] \/ n = number
      BY <1>2, <1>4, <1>8, <2>5
    <3>5. CASE n = number
      BY <1>1, <3>2, <3>3, <3>5 DEF Reached, Somewhere, t
    <3>6. CASE n \in DOMAIN mHistory[m]
      <4>1. Reached(c, m, n)
        BY <2>3, <3>6
      <4>2. QED
        BY <1>1, <3>3, <4>1 DEF Reached, Somewhere, t
    <3>7. QED
      BY <3>4, <3>5, <3>6
  <2>6. QED
    BY <2>4, <2>5
<1>9. QED
  BY <1>1, <1>5, <1>7, <1>8, SocketsKeepReturns

\* A reload restarts the numbering of its layer and leaves the others.
LEMMA ReturnsReload ==
    ASSUME TypeInv, Delivery, Returns, NEW s \in Sessions, NEW l \in Layers,
           OnReloadEvent(s, l), UNCHANGED clientVars
    PROVE  Returns'
<1> DEFINE reload == [type |-> "Reload", sequence |-> GetSequenceNumber(l)]
<1>1. /\ s \in serverUp /\ ChannelExists
      /\ UNCHANGED <<mWebsocketClient, link, data, mAccumulatedDeltas,
                     mAccumulatedAcknowledges, mRequestedReloads, mLayerRegistry,
                     mConnections, serverUp>>
  BY DEF OnReloadEvent, TakeFromClient, clientVars, Returns, OneUp, ChannelExists
<1>2. /\ mHistory' = [mHistory EXCEPT ![l] = <<>>]
      /\ epoch' = [epoch EXCEPT ![l] = @ + 1]
      /\ SendToOthers(s, l, reload, <<>>)
      /\ ServerTypeOK
  BY <1>1 DEF OnReloadEvent, TypeInv, TypeOK
<1>3. reload \in ServerEvent
  BY <1>2 DEF ServerEvent, ServerReload, ServerTypeOK, GetSequenceNumber
<1> HIDE DEF reload
<1>4. /\ \A m \in Layers : epoch[m] \in Nat /\ (epoch[m] > 0 => epoch'[m] > 0)
      /\ \A m \in Layers \ {l} : epoch'[m] = epoch[m] /\ mHistory'[m] = mHistory[m]
      /\ epoch'[l] > 0
  BY <1>2 DEF ServerTypeOK
<1>5. OneUp' /\ LoadedInLive'
  BY <1>1 DEF Returns, OneUp, LoadedInLive, InLiveMode
<1>6. ASSUME NEW t \in Sessions, NEW m \in Layers, NEW i \in DOMAIN toClient'[t][m],
             IsReload(toClient'[t][m][i])
      PROVE  epoch'[m] > 0
  <2> DEFINE none == <<>>
  <2>1. /\ none \in Seq(ServerEvent) /\ SendToOthers(s, l, reload, none)
        /\ \A k \in DOMAIN none : ~IsReload(none[k])
    <3>1. none \in Seq(ServerEvent) /\ DOMAIN none = {}
      OBVIOUS
    <3>2. SendToOthers(s, l, reload, none)
      BY <1>2
    <3> HIDE DEF none
    <3>3. QED
      BY <3>1, <3>2
  <2> HIDE DEF none
  <2>2. \A u \in Sessions, k \in Layers : \A j \in DOMAIN toClient'[u][k] :
            IsReload(toClient'[u][k][j])
            => \/ j \in DOMAIN toClient[u][k] /\ IsReload(toClient[u][k][j])
               \/ k = l /\ IsReload(reload)
    BY <1>3, <2>1, SentToSockets
  <2>3. (i \in DOMAIN toClient[t][m] /\ IsReload(toClient[t][m][i])) \/ m = l
    BY <1>6, <2>2
  <2>4. QED
    BY <1>4, <2>3 DEF Returns, ReloadsComeLate
<1>7. ASSUME NEW c \in Clients \ Reloaders, NEW m \in OpenedFirst, Served(c, m)',
             NEW n \in DOMAIN mHistory'[m]
      PROVE  Reached(c, m, n)'
  <2>1. m \in Layers \ {l}
    BY <1>4, <1>7, LiveSessionAssumption DEF Served
  <2>2. Served(c, m) /\ n \in DOMAIN mHistory[m] /\ mWebsocketClient[c] \in serverUp
    BY <1>1, <1>4, <1>7, <2>1 DEF Served, IsConnected, InLiveMode
  <2>3. toClient'[mWebsocketClient[c]][m] = toClient[mWebsocketClient[c]][m]
    BY <1>1, <1>2, <2>1, <2>2, SentToServed
  <2>4. Reached(c, m, n)
    BY <1>7, <2>2 DEF Returns, EverythingReached
  <2>5. QED
    BY <1>1, <2>3, <2>4 DEF Reached
<1>8. QED
  BY <1>1, <1>4, <1>5, <1>6, <1>7, SocketsKeepReturns

\* OnMessage moves the event from the socket to what is accumulated, or it is a reload,
\* and the numbering has restarted.
LEMMA ReturnsClientReceives ==
    ASSUME TypeInv, Delivery, Returns, NEW c \in Clients, NEW l \in Layers,
           ClientReceives(c, l)
    PROVE  Returns'
<1> DEFINE s == mWebsocketClient[c]
           wire == toClient[s][l]
           event == Head(wire)
<1>1. /\ UNCHANGED <<serverUp, mConnections, mHistory, epoch, mWebsocketClient, link,
                     mLayerRegistry, data>>
      /\ WireTypeOK /\ ServerTypeOK /\ ClientTypeOK
      /\ IsConnected(c) /\ wire # <<>>
      /\ toClient' = [toClient EXCEPT ![s][l] = Tail(@)]
      /\ mAccumulatedDeltas' = [mAccumulatedDeltas EXCEPT ![c][l] =
             CASE event.type = "Delta" -> Append(@, event)
               [] event.type = "Reload" -> LeftByReload(@)
               [] OTHER -> @]
      /\ mAccumulatedAcknowledges' = [mAccumulatedAcknowledges EXCEPT ![c][l] =
             CASE event.type = "Acknowledge" -> Append(@, event)
               [] event.type = "Reload" -> LeftByReload(@)
               [] OTHER -> @]
      /\ mRequestedReloads' = [mRequestedReloads EXCEPT ![c] =
             IF event.type = "Reload" THEN @ \cup {l} ELSE @]
  BY DEF ClientReceives, OnMessage, serverVars, TypeInv, TypeOK
<1>2. s \in Sessions /\ ClientOf[s] = c
  BY <1>1, OwnSession
<1>3. wire \in Seq(ServerEvent) /\ wire # <<>>
  BY <1>1, <1>2 DEF WireTypeOK
<1>4. event \in ServerEvent /\ 1 \in DOMAIN wire /\ event = wire[1]
  BY <1>3
<1>5. /\ toClient'[s][l] = Tail(wire)
      /\ \A t \in Sessions, m \in Layers :
             (t # s \/ m # l) => toClient'[t][m] = toClient[t][m]
  BY <1>1, <1>2 DEF WireTypeOK
<1>6. \A i \in DOMAIN Tail(wire) : i + 1 \in DOMAIN wire /\ Tail(wire)[i] = wire[i + 1]
  BY <1>3
<1>7. \A n : Among(wire, n) => event.sequence = n \/ Among(Tail(wire), n)
  <2>1. ASSUME NEW n, NEW i \in DOMAIN wire, wire[i].sequence = n, i # 1
        PROVE  Among(Tail(wire), n)
    <3> HIDE DEF wire
    <3>1. i - 1 \in DOMAIN Tail(wire) /\ Tail(wire)[i - 1] = wire[i]
      BY <1>3, <2>1
    <3>2. QED
      BY <2>1, <3>1 DEF Among
  <2>2. QED
    BY <1>4, <2>1 DEF Among
<1>8. IsReload(event) => epoch[l] > 0
  BY <1>2, <1>4 DEF Returns, ReloadsComeLate
<1>9. \/ event.type = "Delta" \/ event.type = "Acknowledge" \/ event.type = "Reload"
  BY <1>4 DEF ServerEvent, ServerDelta, Acknowledge, ServerReload
<1> HIDE DEF event, wire, s
<1>10. OneUp' /\ LoadedInLive' /\ QueuesAreMaps'
  BY <1>1 DEF Returns, OneUp, LoadedInLive, QueuesAreMaps, InLiveMode
<1>11. ReloadsComeLate'
  <2>1. ASSUME NEW t \in Sessions, NEW m \in Layers, NEW i \in DOMAIN toClient'[t][m],
               IsReload(toClient'[t][m][i])
        PROVE  epoch'[m] > 0
    <3>1. CASE t = s /\ m = l
      <4>1. i + 1 \in DOMAIN wire /\ IsReload(wire[i + 1])
        BY <1>5, <1>6, <2>1, <3>1
      <4>2. QED
        BY <1>1, <3>1, <4>1 DEF Returns, ReloadsComeLate, wire
    <3>2. CASE t # s \/ m # l
      BY <1>1, <1>5, <2>1, <3>2 DEF Returns, ReloadsComeLate
    <3>3. QED
      BY <3>1, <3>2
  <2>2. ASSUME NEW x \in Clients, NEW m \in mRequestedReloads'[x]
        PROVE  epoch'[m] > 0
    <3>1. \/ m \in mRequestedReloads[x]
          \/ m = l /\ event.type = "Reload"
      BY <1>1, <2>2 DEF ClientTypeOK
    <3>2. QED
      BY <1>1, <1>8, <3>1 DEF Returns, ReloadsComeLate, IsReload
  <2>3. QED
    BY <2>1, <2>2 DEF ReloadsComeLate
<1>12. ASSUME NEW x \in Clients \ Reloaders, NEW m \in OpenedFirst, Served(x, m)',
              NEW n \in DOMAIN mHistory'[m]
       PROVE  Reached(x, m, n)'
  <2>1. Served(x, m) /\ m \in Layers /\ Reached(x, m, n) /\ epoch[m] = 0
    BY <1>1, <1>12, LiveSessionAssumption
    DEF Served, IsConnected, InLiveMode, Returns, EverythingReached
  <2>2. mWebsocketClient[x] \in Sessions /\ ClientOf[mWebsocketClient[x]] = x
    BY <2>1, OwnSession DEF Served
  <2>3. CASE x = c /\ m = l
    <3>1. event.type = "Delta" \/ event.type = "Acknowledge"
      BY <1>8, <1>9, <2>1, <2>3 DEF IsReload
    <3>2. /\ mAccumulatedDeltas[c][l] \in Seq(ServerDelta)
          /\ mAccumulatedAcknowledges[c][l] \in Seq(Acknowledge)
      BY <1>1 DEF ClientTypeOK
    <3>3. /\ event.type = "Delta" =>
                /\ event \in ServerDelta
                /\ mAccumulatedDeltas'[c][l] = mAccumulatedDeltas[c][l] \o <<event>>
                /\ mAccumulatedAcknowledges'[c][l] = mAccumulatedAcknowledges[c][l]
          /\ event.type = "Acknowledge" =>
                /\ event \in Acknowledge
                /\ mAccumulatedDeltas'[c][l] = mAccumulatedDeltas[c][l]
                /\ mAccumulatedAcknowledges'[c][l]
                       = mAccumulatedAcknowledges[c][l] \o <<event>>
      <4>1. /\ event.type = "Delta" => event \in ServerDelta
            /\ event.type = "Acknowledge" => event \in Acknowledge
        BY <1>4 DEF ServerEvent, ServerDelta, Acknowledge, ServerReload
      <4>2. event.type = "Delta" =>
                /\ mAccumulatedDeltas'[c][l] = Append(mAccumulatedDeltas[c][l], event)
                /\ mAccumulatedAcknowledges'[c][l] = mAccumulatedAcknowledges[c][l]
        BY <1>1 DEF ClientTypeOK
      <4>3. event.type = "Acknowledge" =>
                /\ mAccumulatedDeltas'[c][l] = mAccumulatedDeltas[c][l]
                /\ mAccumulatedAcknowledges'[c][l]
                       = Append(mAccumulatedAcknowledges[c][l], event)
        BY <1>1 DEF ClientTypeOK
      <4>4. QED
        BY <3>2, <4>1, <4>2, <4>3, AppendJoins
    <3>4. Among(<<event>>, event.sequence)
      <4>1. 1 \in DOMAIN <<event>> /\ <<event>>[1] = event
        OBVIOUS
      <4>2. QED
        BY <4>1 DEF Among
    <3>5. \A k : \/ Among(mAccumulatedDeltas[c][l], k)
                \/ Among(mAccumulatedAcknowledges[c][l], k)
                \/ k = event.sequence
                => \/ Among(mAccumulatedDeltas'[c][l], k)
                   \/ Among(mAccumulatedAcknowledges'[c][l], k)
      <4> DEFINE more == <<event>>
      <4>1. CASE event.type = "Delta"
        <5>1. more \in Seq(ServerDelta) /\ Among(more, event.sequence)
          BY <3>3, <3>4, <4>1
        <5>2. mAccumulatedDeltas'[c][l] = mAccumulatedDeltas[c][l] \o more
          BY <3>3, <4>1
        <5> HIDE DEF more
        <5>3. \A k : Among(mAccumulatedDeltas[c][l], k) \/ k = event.sequence
                      => Among(mAccumulatedDeltas'[c][l], k)
          BY <3>2, <5>1, <5>2, AmongJoined
        <5>4. QED
          BY <3>3, <4>1, <5>3
      <4>2. CASE event.type = "Acknowledge"
        <5>1. more \in Seq(Acknowledge) /\ Among(more, event.sequence)
          BY <3>3, <3>4, <4>2
        <5>2. mAccumulatedAcknowledges'[c][l] = mAccumulatedAcknowledges[c][l] \o more
          BY <3>3, <4>2
        <5> HIDE DEF more
        <5>3. \A k : Among(mAccumulatedAcknowledges[c][l], k) \/ k = event.sequence
                      => Among(mAccumulatedAcknowledges'[c][l], k)
          BY <3>2, <5>1, <5>2, AmongJoined
        <5>4. QED
          BY <3>3, <4>2, <5>3
      <4>3. QED
        BY <3>1, <4>1, <4>2
    <3>6. Among(wire, n) => event.sequence = n \/ Among(toClient'[s][l], n)
      BY <1>5, <1>7
    <3>7. \/ Among(mAccumulatedDeltas[c][l], n) \/ Among(mAccumulatedAcknowledges[c][l], n)
          \/ Among(wire, n) \/ InLayer(data[c][l], n)
      BY <2>1, <2>3 DEF Reached, Somewhere, wire, s
    <3>8. \/ Among(mAccumulatedDeltas'[c][l], n) \/ Among(mAccumulatedAcknowledges'[c][l], n)
          \/ Among(toClient'[s][l], n) \/ InLayer(data[c][l], n)
      BY <3>5, <3>6, <3>7
    <3>9. QED
      BY <1>1, <2>3, <3>8 DEF Reached, Somewhere, s
  <2>4. CASE ~(x = c /\ m = l)
    <3>1. toClient'[mWebsocketClient[x]][m] = toClient[mWebsocketClient[x]][m]
      BY <1>2, <1>5, <2>1, <2>2, <2>4
    <3>2. /\ mAccumulatedDeltas'[x][m] = mAccumulatedDeltas[x][m]
          /\ mAccumulatedAcknowledges'[x][m] = mAccumulatedAcknowledges[x][m]
      BY <1>1, <2>1, <2>4 DEF ClientTypeOK
    <3>3. QED
      BY <1>1, <2>1, <3>1, <3>2 DEF Reached
  <2>5. QED
    BY <2>3, <2>4
<1>13. QED
  BY <1>10, <1>11, <1>12 DEF Returns, EverythingReached

LEMMA ReturnsStep ==
    ASSUME NoticedFirst
    PROVE  TypeInv /\ Delivery /\ Returns /\ [Next]_vars => Returns'
<1> SUFFICES ASSUME TypeInv, Delivery, Returns, [Next]_vars
             PROVE  Returns'
  OBVIOUS
<1>1. ASSUME NEW c \in Clients, NEW s \in Sessions, Join(c, s) PROVE Returns'
  BY <1>1, ReturnsJoin
<1>2. ASSUME NEW c \in Clients, Leave(c) PROVE Returns'
  BY <1>2, ReturnsLeave
<1>3. ASSUME NEW c \in Clients, HostTicks(c) PROVE Returns'
  BY <1>3, ReturnsHostTicks
<1>4. ASSUME NEW s \in Sessions, ServerNotices(s) PROVE Returns'
  BY <1>4, ReturnsServerNotices
<1>5. ASSUME NEW s \in Sessions, NEW l \in Layers, ServerReceives(s, l) PROVE Returns'
  BY <1>5, ReturnsDelta, ReturnsReload DEF ServerReceives
<1>6. ASSUME NEW c \in Clients, NEW l \in Layers, ClientReceives(c, l) PROVE Returns'
  BY <1>6, ReturnsClientReceives
<1>7. ASSUME NEW c \in Clients, NEW l \in Layers, HostEdits(c, l) PROVE Returns'
  BY <1>7, ReturnsHostEdits
<1>8. ASSUME NEW c \in Clients, NEW l \in Layers, HostApplies(c, l) PROVE Returns'
  BY <1>8, ReturnsHostApplies
<1>9. ASSUME NEW c \in Clients, NEW l \in Layers, HostOpens(c, l) PROVE Returns'
  BY <1>9, ReturnsHostOpens
<1>10. ASSUME NEW c \in Clients, NEW l \in Layers, HostReloads(c, l) PROVE Returns'
  BY <1>10, ReturnsHostReloads
<1>11. CASE UNCHANGED vars
  <2>1. UNCHANGED <<toClient, mConnections, mHistory, serverUp, epoch, mWebsocketClient, link,
                    mLayerRegistry, data, mAccumulatedDeltas, mAccumulatedAcknowledges,
                    mRequestedReloads>>
    BY <1>11 DEF vars, wireVars, serverVars, clientVars
  <2>2. (OneUp /\ ReloadsComeLate /\ LoadedInLive /\ QueuesAreMaps)'
    BY <2>1 DEF Returns, OneUp, ReloadsComeLate, LoadedInLive, QueuesAreMaps, InLiveMode
  <2>3. EverythingReached'
    BY <2>1 DEF Returns, EverythingReached, Served, IsConnected, InLiveMode, Reached
  <2>4. QED
    BY <2>2, <2>3 DEF Returns
<1>12. QED
  BY <1>1, <1>2, <1>3, <1>4, <1>5, <1>6, <1>7, <1>8, <1>9, <1>10, <1>11 DEF Next

LEMMA Counted ==
    ASSUME NEW A, NEW Q, NEW P, IsFiniteSet(A), IsFiniteSet(Q), IsFiniteSet(P),
           A # {} \/ Q # {} \/ P # {}
    PROVE  Cardinality(A) + Cardinality(Q) + Cardinality(P) >= 1
<1>1. /\ Cardinality(A) \in Nat /\ Cardinality(Q) \in Nat /\ Cardinality(P) \in Nat
  BY FS_CardinalityType
<1>2. /\ A # {} => Cardinality(A) # 0
      /\ Q # {} => Cardinality(Q) # 0
      /\ P # {} => Cardinality(P) # 0
  BY FS_EmptySet
<1>3. \A x, y, z \in Nat : x # 0 \/ y # 0 \/ z # 0 => x + y + z >= 1
  OBVIOUS
<1>4. QED
  BY <1>1, <1>2, <1>3

\* A user who has lost the connection and come back misses nothing: while the channel has
\* lived on and the layer was not reloaded, every number the server has given is on its
\* way to each connected client or applied by it, whatever was lost with old sockets.
\* The server must have noticed the end of a user's websocket before it accepts the next
\* one: otherwise it keeps the edits that arrive on the old one from the new one, which
\* has the same name, and with the end of the old one the new one leaves the channel
\* (Channel.cpp:35).
THEOREM NothingMissingCorrect ==
    ASSUME NoticedFirst
    PROVE  Spec => []NothingMissing
<1>1. TypeInv /\ Delivery /\ Returns => NothingMissing
  <2> SUFFICES ASSUME TypeInv, Delivery, Returns,
                      NEW c \in Clients \ Reloaders, NEW l \in OpenedFirst,
                      IsConnected(c), mWebsocketClient[c] \in serverUp, epoch[l] = 0,
                      NEW n \in DOMAIN mHistory[l]
               PROVE  Held(c, l, n) >= 1
    BY DEF NothingMissing
  <2> DEFINE deltas == mAccumulatedDeltas[c][l]
             acks == mAccumulatedAcknowledges[c][l]
             wire == toClient[mWebsocketClient[c]][l]
             d == data[c][l]
             Arrived == Positions(deltas \o acks \o wire, n, 0)
             Q == Waiting(d, n, 0)
             P == Applied(d, n, 0)
  <2>1. l \in Layers /\ mWebsocketClient[c] \in Sessions /\ ClientOf[mWebsocketClient[c]] = c
    BY LiveSessionAssumption, OwnSession
  <2>2. /\ deltas \in Seq(ServerDelta) /\ acks \in Seq(Acknowledge)
        /\ wire \in Seq(ServerEvent) /\ d \in LayerState
    BY <2>1 DEF TypeInv, TypeOK, ClientTypeOK, WireTypeOK
  <2>3. n \in Nat \ {0}
    BY <2>1 DEF TypeInv, TypeOK, ServerTypeOK
  <2>4. Somewhere(deltas, acks, wire, d, n)
    BY DEF Returns, EverythingReached, Served, Reached
  <2>5. /\ \A i \in DOMAIN deltas : ~IsReload(deltas[i]) /\ deltas[i].epoch = 0
        /\ \A i \in DOMAIN acks : ~IsReload(acks[i]) /\ acks[i].epoch = 0
        /\ \A i \in DOMAIN wire : ~IsReload(wire[i]) /\ wire[i].epoch = 0
    <3>1. \A i \in DOMAIN deltas : ~IsReload(deltas[i])
      BY <2>2, DeltasNoReloads
    <3>2. \A i \in DOMAIN acks : ~IsReload(acks[i])
      BY <2>2, AcknowledgesNoReloads
    <3>3. \A i \in DOMAIN wire : ~IsReload(wire[i])
      BY <2>1 DEF Returns, ReloadsComeLate
    <3>4. /\ \A i \in DOMAIN deltas : deltas[i].epoch \in 0..0
          /\ \A i \in DOMAIN acks : acks[i].epoch \in 0..0
      BY <2>1 DEF Delivery, AccumulatedGenuine, Genuine
    <3>5. \A i \in DOMAIN wire : wire[i].epoch \in 0..0
      BY <2>1, <3>3 DEF Delivery, WireGenuine, Genuine, IsReload
    <3>6. QED
      BY <3>1, <3>2, <3>3, <3>4, <3>5
  <2>6. /\ \A u \in d.mRemoteDeltasQueue : u.epoch = 0
        /\ \A k \in DOMAIN d.applied : d.applied[k].epoch = 0 /\ d.applied[k].sequence = k
        /\ d.mLatestAppliedSequence = Len(d.applied)
    <3>1. LayerGenuine(mHistory[l], epoch[l], c, d)
      BY <2>1 DEF Delivery, DataGenuine
    <3>2. /\ \A u \in d.mRemoteDeltasQueue : u.epoch \in 0..0
          /\ \A k \in DOMAIN d.applied : d.applied[k].epoch \in 0..0
      BY <3>1 DEF LayerGenuine, Genuine
    <3>3. /\ \A k \in DOMAIN d.applied : d.applied[k].sequence = k
          /\ d.mLatestAppliedSequence = Len(d.applied)
      BY <3>1 DEF LayerGenuine
    <3>4. QED
      BY <3>2, <3>3
  <2>7. \A u, v \in d.mRemoteDeltasQueue : u.sequence = v.sequence => u = v
    BY <2>1 DEF Returns, QueuesAreMaps
  <2>8. Arriving(c, l) = deltas \o acks \o wire
    BY DEF Arriving, IsConnected
  <2>9. Held(c, l, n) = Cardinality(Arrived) + Cardinality(Q) + Cardinality(P)
    BY <2>8 DEF Held, Positions, IsReload, Waiting, Applied
  <2> HIDE DEF deltas, acks, wire, d
  <2>10. Arrived # {} \/ Q # {} \/ P # {}
    <3>1. CASE InLayer(d, n)
      <4>1. CASE n <= d.mLatestAppliedSequence
        <5>1. d.applied \in Seq(Update) /\ n \in DOMAIN d.applied
          BY <2>2, <2>3, <2>6, <4>1 DEF LayerState
        <5>2. n \in P
          BY <2>6, <5>1 DEF Applied
        <5>3. QED
          BY <5>2
      <4>2. CASE \E u \in d.mRemoteDeltasQueue : u.sequence = n
        BY <2>6, <4>2 DEF Waiting
      <4>3. QED
        BY <3>1, <4>1, <4>2 DEF InLayer
    <3>2. CASE Among(deltas, n) \/ Among(acks, n) \/ Among(wire, n)
      <4> DEFINE all == deltas \o acks \o wire
                 both == deltas \o acks
      <4>1. /\ deltas \in Seq(ServerEvent) /\ acks \in Seq(ServerEvent)
            /\ both \in Seq(ServerEvent)
        <5>1. deltas \in Seq(ServerEvent) /\ acks \in Seq(ServerEvent)
          BY <2>2, SeqOfSubset DEF ServerEvent
        <5>2. QED
          BY <5>1
      <4>2. \/ \E i \in Positions(deltas, n, 0) : TRUE
            \/ \E i \in Positions(acks, n, 0) : TRUE
            \/ \E i \in Positions(wire, n, 0) : TRUE
        BY <2>5, <3>2 DEF Among, Positions
      <4>3. Positions(both, n, 0) = Positions(deltas, n, 0)
                                        \cup {Len(deltas) + i : i \in Positions(acks, n, 0)}
        BY <4>1, PositionsJoined
      <4>4. Positions(both \o wire, n, 0) = Positions(both, n, 0)
                                        \cup {Len(both) + i : i \in Positions(wire, n, 0)}
        <5> HIDE DEF both
        <5>1. QED
          BY <2>2, <4>1, PositionsJoined
      <4>5. Arrived # {}
        BY <4>2, <4>3, <4>4
      <4>6. QED
        BY <4>5
    <3>3. QED
      BY <2>4, <3>1, <3>2 DEF Somewhere
  <2>11. IsFiniteSet(Arrived) /\ IsFiniteSet(Q) /\ IsFiniteSet(P)
    <3>1. ASSUME NEW S, NEW s \in Seq(S)
          PROVE  IsFiniteSet(DOMAIN s)
      <4>1. DOMAIN s = 1..Len(s) /\ Len(s) \in Int /\ 1 \in Int
        OBVIOUS
      <4>2. IsFiniteSet(1..Len(s))
        BY <4>1, FS_Interval
      <4>3. QED
        BY <4>1, <4>2
    <3>2. IsFiniteSet(Arrived)
      <4> DEFINE all == deltas \o acks \o wire
      <4>1. all \in Seq(ServerEvent)
        <5>1. deltas \in Seq(ServerEvent) /\ acks \in Seq(ServerEvent)
          BY <2>2, SeqOfSubset DEF ServerEvent
        <5>2. QED
          BY <2>2, <5>1
      <4>2. IsFiniteSet(DOMAIN all)
        BY <3>1, <4>1
      <4>3. Arrived \subseteq DOMAIN all
        BY DEF Positions
      <4>4. QED
        BY <4>2, <4>3, FS_Subset
    <3>3. IsFiniteSet(P)
      <4>1. d.applied \in Seq(Update)
        BY <2>2 DEF LayerState
      <4>2. IsFiniteSet(DOMAIN d.applied) /\ P \subseteq DOMAIN d.applied
        BY <3>1, <4>1 DEF Applied
      <4>3. QED
        BY <4>2, FS_Subset
    <3>4. IsFiniteSet(Q)
      <4>1. \A u, v \in Q : u = v
        BY <2>7 DEF Waiting
      <4>2. CASE Q = {}
        BY <4>2, FS_EmptySet
      <4>3. CASE Q # {}
        <5> HIDE DEF Q
        <5>1. PICK u \in Q : TRUE
          BY <4>3
        <5>2. Q = {u}
          BY <4>1, <5>1
        <5>3. QED
          BY <5>2, FS_Singleton
      <4>4. QED
        BY <4>2, <4>3
    <3>5. QED
      BY <3>2, <3>3, <3>4
  <2> HIDE DEF Arrived, Q, P
  <2>12. QED
    BY <2>9, <2>10, <2>11, Counted
<1>2. Spec => []TypeInv
  BY TypeInit, TypeStep, PTL DEF Spec
<1>3. Spec => []Returns
  BY <1>2, DeliveryCorrect, ReturnsInit, ReturnsStep, PTL DEF Spec
<1>4. QED
  BY <1>1, <1>2, <1>3, DeliveryCorrect, PTL
=============================================================================
