# RenderStudioKit: specification and verification

TLA+ modules for RenderStudioKit: its live editing, the sockets under it, the shared
workspace with its process, the asset cache and the data of a layer; the TLC models that
check them on small instances, and proofs that TLAPS checks for instances of every size.

RenderStudioKit lets several users edit one USD stage at the same time. Each user's
process holds the layers in memory, sends its edits to a live server, and applies the
edits of the others when its host application ticks. Nothing is locked by the library:
consistency rests on the numbers the server gives to updates, on a set of paths with
unacknowledged edits, and on the order in which a client throws away, queues and
applies what it receives.

All `src/` paths below are relative to the repository's root; in `PROJECT.json`, `map`
says which lines each definition models.

## 1. Inventory

### Live editing

| Component | State | Operations | Correct when |
|---|---|---|---|
| Live server: `Sources/Server/{Logic,Channel,Main}` | per channel the connections and, per layer, the history of numbered deltas; one mutex | `OnConnected` (replay), `OnDisconnected`, `OnMessage` of a delta (number, keep, broadcast, acknowledge) and of a reload (clear, broadcast) | each number is given once; everyone connected is sent every number once |
| Live client: `Sources/Resolver/{FileFormat,Registry}` | websocket client, loaded layers, accumulated deltas and acknowledges, requested reloads, `mEventMutex` | `OnMessage` (network thread); `ProcessLiveUpdates`, `Read`, `Connect`, `Disconnect` (host's thread) | an event is neither lost nor applied twice between the two threads; a reload separates old numbers from new ones |
| Layer data: `Sources/Resolver/Data` | `mData`, `mLocalDeltas`, `mUnacknowledgedFields`, `mLatestAppliedSequence`, `mRemoteDeltasQueue` | `Set`, `FetchLocalDeltas`, `AccumulateRemoteUpdate`, `ProcessRemoteUpdates`, `OnLoaded`; specs and time samples | updates are applied in the order of the numbers; users end with the same contents |
| Events: `Sources/Serialization` | none | JSON of events and values | a value that cannot be carried harms nothing else |
| `Sources/Networking/WebsocketServer` | per session a write queue and `mConnected`, on a strand | accept, read, write | messages leave in order; a failure is reported once |
| `Sources/Networking/WebsocketClient` | write queue, `mConnected`, ping timer, own thread | connect, handshake, read, write, ping, close | one write at a time; what a paced host sends arrives in order; leaving is for good |
| `Sources/Resolver/Resolver`, `Sources/Kit` | the live session's data | start, stop, tick; path resolution | forwarding |

### Shared workspace and assets

| Component | State | Operations | Correct when |
|---|---|---|---|
| `Sources/Networking/Workspace` | static client, ping task, last state, connected and paused flags, two condition variables | `Connect` with retries, `Disconnect`, `Pause`, `Resume`, `WaitIdle`, `OnMessage` | a wait ends when what it waits for has happened; the ping task has a client as long as it runs |
| `Sources/Utils/BackgroundTask` | thread, `mRunning` | `Start`, `Stop`, `Run` | at most one thread runs the task; `Stop` returns |
| `Workspace/app/connection_manager.py` | connections with the time of their last ping, last events | connect, disconnect, broadcast, timeout job, polling job | nobody who has gone stays in the list; the process ends when all have gone |
| `Workspace/app/syncthing_manager.py` | syncthing's configuration (external), last event number | read, change and write the configuration; poll events | a pause is carried out and reported |
| `RestClient`, `MaterialLibraryApi`, `LocalStorageApi`, `Asset`, `FileUtils` | cache directories | resolve, download, extract | the cache holds the right files unless a download failed; what was opened stays |
| Notices, logging, schema, AI tools, bindings, process launch | none that is read back | | not modelled |

### How they interact

The host calls the Kit facade, which forwards to the resolver and the file format. A
tick sends the local edits through the websocket client; the server's session reads
them and calls `Logic`, which writes to the sessions of the channel; the client's
network thread reads and calls `RenderStudioFileFormat::OnMessage`, which only
accumulates. The next tick moves what was accumulated into the layers' data and applies
it. The live server's process and each user's process also connect to a workspace
process that runs syncthing, over another websocket.

### What is hard here

- Two threads per client (network and host) and ten on the server; each handler of
  `Logic` holds `mMutex`, a tick holds `mEventMutex` only while it moves the
  accumulators out.
- Four kinds of events with different meanings of the same number, accumulated apart
  and applied together by number.
- Reloads restart the numbering; joining replays it; leaving erases it.
- Edits made while older ones are in flight, or while an update is on its way.
- Lost connections, noticed by the two sides at different times, and users who are told
  apart only by name.
- A websocket client whose members are used by the host's thread and the network thread.
- Calls that wait without a time limit for an event of a process that may end (`Pause`,
  `Resume`, `WaitIdle`), and a ping task that uses a client the host replaces.
- Coroutines of the workspace process that keep a list of connections over an `await`.
- A cache directory that several processes fill at once, and any of them may leave half
  filled.

`PROJECT.json`, `hazards`, lists these at their lines, with the properties that cover
them; section 5 describes those that no property covers.

## 2. Modules

| Module | Models |
|---|---|
| `LayerData` | what live editing adds to `RenderStudioData`, as operators on the state of one layer |
| `LiveWire` | the events and the websockets between clients and server |
| `LiveServer` | `Logic` and `Channel`: one action per handler |
| `LiveClient` | `RenderStudioFileFormat`, per user: one action per callback or host call |
| `LiveSession` | server, clients and wires together, with the hosts that edit; `Spec`, `FairSpec` and the properties |
| `SharedLog` | what a session promises: one log per layer, of which each client is given a growing prefix |
| `SocketLink` | the connection between one websocket client and its session on the server |
| `ClientSocket` | `WebsocketClient`: connecting, write queue, reads, pings, and leaving on two threads |
| `ServerSocket` | `WebsocketServer`: accept loop, `HttpSession`, `WebsocketSession` |
| `SocketPair` | the two together, with a connection that may break |
| `OrderedChannel` | what a socket promises in one direction |
| `BackgroundTask` | `BackgroundTask`: `Start`, `Stop`, and the thread's loop with its timed wait |
| `WorkspaceClient` | `Workspace`, with its ping task, its websocket, and the workspace process as its environment |
| `ConnectionManager` | the workspace process: the coroutines that share `active_connections`, and the end of the process |
| `AssetPaths` | how the resolver anchors and resolves the paths of assets |
| `AssetCache` | opening materials and lights, with the downloads into the cache |
| `SpecStore` | `RenderStudioData` as USD's abstract data: specs, fields, time samples |
| `ValueJson` | the JSON of field values, there and back |
| `LayerValues` | one user editing a layer with every operation USD has, and one who follows |
| `MCLiveSession` | the constants of `LiveSession` for TLC; the other `.cfg` files use their modules directly |
| `LiveSessionProofs`, `LiveStreamProofs`, `LiveLogProofs`, `SocketProofs`, `WorkspaceProofs`, `ConnectionProofs`, `AssetProofs`, `LayerValuesProofs` | theorems, section 4; the three live ones extend each other in this order |

There are five compositions, one for each group of parts that share state:

- `LiveSession` = `LiveServer`, `LiveClient` and `LiveWire`, on `LayerData`; it implements
  `SharedLog`.
- `SocketPair` = `ClientSocket` and `ServerSocket` on `SocketLink`; its direction from the
  server to the client implements `OrderedChannel`.
- `WorkspaceClient` = `Workspace` on `BackgroundTask`, its only user.
- `AssetCache` on `AssetPaths`.
- `LayerValues` = `SpecStore` and `ValueJson`.

`ConnectionManager` stands alone: to `WorkspaceClient` it is the environment that sends
events, loses them, and ends.

### Correspondence with the code: live editing

Variables carry the names of the members they model (`mConnections`, `mHistory`,
`mAccumulatedDeltas`, `mRequestedReloads`, `mLayerRegistry`, ...; the fields of
`LayerState` are those of `RenderStudioData`). Three things are added for the
properties and read by no action: `epoch`, which counts how often the server restarted
the numbering of a layer and is stamped on what it sends; `applied` in the state of a
layer, the updates applied since it was loaded; and the counters `edits` and `reloads`,
which bound the runs.

A tick is `Tick`, up to the loops of `ProcessRemoteUpdates`, and one `ApplyRemoteUpdate`
per turn of such a loop; the host does nothing else until the loops have ended, while
the server and the network threads go on. Everything the tick moves out of the
accumulators, sends and queues happens in `Tick`; this is one step because the code
takes the accumulators in one critical section and no other thread touches the rest.

Abstractions, each with its reason:

- *One channel.* Channels share nothing. It exists exactly while it has connections.
- *One queue per layer and direction on a websocket.* A websocket keeps its order, the
  server posts to a session's strand while it holds `mMutex`, and no handler relates two
  layers. From the server this is proved of the socket (`SessionIsChannel`). From the
  client it holds only while the host paces itself (`PacedInOrder`): `WebsocketClient::OnWrite`
  writes `mWriteQueue.back()` and pops the front, so that with three messages queued one
  leaves twice and one never, and what is queued before the handshake is not written
  when it completes. `LiveSession` speaks of hosts whose ticks keep to that pace.
- *Values are sets of tokens.* A scalar is one token, the empty token none, a list of
  children the set of its members: their order is abstracted. `LayerValues` has the values.
- *What hosts do.* They edit existing specs of loaded layers, open layers, reload them,
  and tick in live mode only (the code dereferences `mWebsocketClient` otherwise). A
  reload reads the file again; the file does not change (`File`).

### Correspondence: sockets

A message is the number under which it was sent. Every handler of a session runs on its
strand, and every handler of a client on the client's one thread, so that each is one
step; `Send` only posts, and `Write` takes what was posted. An asynchronous operation is
a variable that says it is pending (`reading`, `inFlight`, `closing`, `mPingTimer`), and
its handler, with success or with an error, is the action that may follow. A read or a
write fails only when the connection is down, which `Break` makes it at any time.

`Disconnect` called by the host works on the client's members from the host's thread: it
is three steps (`HostDisconnects`, `HostCancelsTimer`, `HostClearsConnected`) with
handlers in between, and so is the race on `mConnected`. The same function called by a
handler is one step. `OnClose` answers the promise of `Disconnect` with true, with false,
or by letting it break, as its branches do; what has not been read by then is dropped.
A client is used for one connection, as all of its users do.

The prefix `c` tells the members of the client from those of the session. `sent`,
`replies`, `received`, `got`, `arrivals`, `departures`, `paced` and `hasty` are not in the
code: they record what was sent, read and reported, and how the host behaved.

### Correspondence: shared workspace

`BackgroundTask` makes each critical section of `mMutex` one step, because the mutex is
never held across a wait; `wait_for` gives it up as it starts to wait, which is why
looking at `mRunning` and starting to wait is one step (`WaitFor`). `WaitBlindly`, its
mutant, shows what the predicate is there for.

`WorkspaceClient` has the host's one thread as a place in `Connect`, `Disconnect`, `Pause`,
`Resume` or `WaitIdle`. Its websocket is connected or not, since `Connect` waits for the
answer before it does anything else (`WaitedLeftForGood` in `SocketPair` is what makes this
right). The process handles a command by setting the paused flag of the folder in
syncthing's configuration, which outlives the process; syncthing reports a change, and
the report is passed on if the process has polled once (syncthing_manager.py:178). Other hosts
of the same process may pause and resume too. `undisturbed` records that nothing happened
of what `Pause` and `Resume` cannot know: a command or report that was lost, another host.
`Connect` dereferences nothing unchecked; `Disconnect`, `Pause` and `Resume` do, and the model has
the host call them after `Connect` only.

In `ConnectionManager` what is between two `await`s is one step. `handler` is where the
`watchdog` of a websocket is, `job` where a job is; `loops` keeps the size of the dictionary when a
broadcast began, since Python raises when it has another size at the next turn. `stale` stands
for the times in `active_connections`. `del` of a missing key raises although a line above
logs "Skipping" (connection_manager.py:75, :77): in a handler this ends the handler
(`"failed"`), in the job it ends the process.

The end of the process is in four places (`ending`). Whoever calls `terminate_all` has syncthing asked to
stop, and waits for its process. If the request fails, which syncthing_manager.py:333 only logs, the wait
is for a process that was not told (`"waiting"`): nothing ends it but another caller whose request succeeds,
or syncthing ending by itself (`SyncthingEnds`). Otherwise (`"stopping"`) the wait ends, `ConnectionManager.terminate`
closes what can be closed, and the process is gone (`Exit`). That a request may fail is not tied to whether syncthing
listens already: it may also not answer in time.

### Correspondence: assets and values

A reader of `AssetCache` is a thread that USD opens a layer on, or another process of the
same user. Between any two steps of one, others act: looking whether the directory is there,
creating it, downloading, extracting and moving file by file are all separate. A download
yields what was asked for, an error page, the text `[Error]` that `Get` returns for a request that
failed, or no file; these are contents like any other. A process that ends leaves what it has moved.
`failed`, `opened` and the reader's `sure` and `fetched` are not in the code: they say of which asset a
download or a process has failed, which assets have been opened, and what a reader may
therefore rely on. The materials' and lights' paths are sequences of names after a scheme; how a
URL is parsed and encoded is left out.

`SpecStore` keeps the fields of a spec in the order in which `RenderStudioData` does, and erases as it
does. A value is its type and its data, a short tuple of numbers; `ToJson` and `FromJson` do to
the data what the conversions do: a block becomes null, a vector an array of its dimension, a
list operation is written as six lists without the word whether it is explicit, gets that back from whether it
has explicit items, and loses its added and ordered items when it is read; and a type without conversion throws, which loses the whole event of that tick.
`LayerValues` has one author and one reader without edits of its own; what a second author
changes is `LiveSession`'s subject. `untold` is not in the code: the fields whose last change was
not recorded as a local edit, was lost, or is a list operation that JSON changes (`Arrives`).

## 3. Runs

| Run | Result | Shows |
|---|---|---|
| `live_edits` | pass | contents agree, masks have a cause, the session implements the shared log, when hosts edit under the conditions the code's comments assume |
| `live_reload` | pass | the user told of a reload mixes no two numberings and loses or doubles nothing |
| `live_rejoin` | pass | with a lost connection: nothing missing, nothing out of place, masks lift, everyone catches up |
| `live_free_edits` | violation of `DataConsistency` | a second edit before the first acknowledgement |
| `live_children` | violation of `BothEditsKept` | two users add a child to one prim |
| `live_reload_initiator` | violation of `EveryoneStartsAfresh` | the user who reloads applies old numbers |
| `socket_pair` | pass | buffers stay owned, ends are reported once, the session is an ordered channel, whatever fails and whoever leaves |
| `socket_leave` | violation of `LeftForGood` | a host that disconnects during the handshake is connected afterwards |
| `workspace_client` | pass | the ping task never outlives its client; `Stop`, `Pause` and `Resume` return and mean what they say |
| `workspace_process` | pass | nobody stays in the list for ever, and the process ends when everybody has gone, unless it waits for a syncthing that was not told to stop |
| `asset_cache` | pass | the cache holds what it should, unless a download failed |
| `layer_values` | pass | what is sent arrives as it was set, but for the operations that are not recorded |

### Bounds

*Live runs.* Two users. `live_edits` has 3 edits among an attribute, a transform and a
primitive (children and type name), of a single layer; the others one attribute or
primitive. Three edits are enough for a second own edit while the first is in flight
together with one of the other user, the smallest case in which the mask and the
numbering matter; one reload separates two numberings; a second websocket of one user
gives a lost connection, a return and a replay. `Discipline` says how hosts edit a path:
`"free"`, `"settled"` (no new edit while one that was sent is unacknowledged) or
`"locked"` (no edit while somebody else's is under way: the implicit lock Data.cpp:95 speaks
of). `live_edits` uses the latter two, because with `"free"` consistency fails: that is
`live_free_edits`. The users of `live_edits` are symmetric, and it checks no liveness, so that its
symmetry set is sound.

*`socket_pair`.* `MaxSent`, `MaxReplies` and `MaxTraffic` are 3: up to three messages either way, three
together. Three in one queue is where writing the newest and popping the oldest part
ways, so that `PacedInOrder` has something to exclude. Errors, breaks and leaving are not
bounded. `socket_leave` needs no message.

*`workspace_client`.* Two threads of the task (one to be stopped, one to follow), two attempts to
connect (5 in the code: one that is followed by another and one that is the last), one
crash, two commands on their way (a pause and a resume), one event of others.

*`workspace_process`.* Two websockets: one handler broadcasts while another comes or goes, and two
disconnections can each take the other for the last.

*`asset_cache`.* One material and one light, two readers, each opening twice: the second finds what
the first left, at any point. One process ends at any step; downloads fail without bound.
Lights without a texture (`Plain`) go the same way with two steps less, and the proofs have them.

*`layer_values`.* Two paths (a rename needs two), three times (a bracket needs a sample on either side),
four edits of the author: a field set, changed, lost, and set again. The values are a scalar, a vector, a
block, a type without JSON, and five list operations: explicit with an item and without, one that
prepends, appends and deletes, one that adds, one that orders.

Deadlock is checked in the six live runs: hosts tick in every state in live mode. The other
six have systems that really stop, and say `CHECK_DEADLOCK FALSE`: a connection that has
ended and a client that is used once, a task that has had all its threads, a process
that has exited, and readers and authors that have used up their bound. There the liveness
properties say that nothing stops too early.

### Properties

Live editing:

- `HeldOnce`: every number in the server's history is, for a connected client, in exactly
  one of: the wire, the two accumulators, the layer's queue, the applied updates.
- `AppliedIsHistory`: what is applied as number n is what the server numbered n.
- `Delivery`: the inductive invariant behind `AppliedIsHistory` (section 4), checked by TLC
  before it was proved.
- `NothingMissing`: after a return, each number is in at least one of these places. It
  assumes `NoticedFirst` (section 5).
- `MaskHasCause`, `EveryMaskLifts`: a path is masked only while an own edit is in flight,
  and not for ever.
- `DataConsistency`, `BothEditsKept`: contents agree, and hold everybody's children, when
  nothing is in flight.
- `FollowersStartAfresh`, `EveryoneStartsAfresh`: the updates applied since a layer was
  loaded belong to one numbering.
- `EveryoneCatchesUp`: what is numbered is applied.
- `ImplementsSharedLog`: refinement of `SharedLog`, in runs without reloads or returns,
  which restart a client's prefix.

Sockets:

- `BuffersOwned`: one write at a time on each stream, of a buffer that is still in the queue.
- `PacedInOrder`: the server gets a paced host's messages in order, none lost or doubled
  before the connection ends.
- `LogicToldOnce`, `MessagesBetween`: a read and a write may both fail; `Logic` is told of one end,
  and of no message before the beginning or after the end.
- `ImplementsChannel`: the session implements `OrderedChannel`.
- `WaitedLeftForGood`: after `Disconnect`, a host that waited for `Connect`'s answer is not connected
  by a handler that was still to run. `LeftForGood` says it of every host, as Kit.h:38
  does, and fails.
- `LeavingCloses`, `ServerNotices`: who leaves ends the connection, and `Logic` is told of it.

Shared workspace:

- `PingHasClient`: no thread of the task lives while the host replaces `sClient`, which both use
  without a lock. `OneThread`: nor are there ever two, nor one assigned over.
  `ConnectedPings`: a connected host pings, or it would be thrown out.
- `StopReturns`: `Stop` returns although no interval is ever over.
- `PauseMeansPaused`, `WaitsEnd`: when `Pause` has returned the folder is paused, and it returns, unless
  something was lost or another host interfered.
- `GhostsLeave`: a websocket whose handler has ended, in whichever way, leaves the list.
  `ProcessEnds`: when all clients have gone the process ends, although every race over the list
  may raise. Both are stated up to `[]Unheard`: from some point on `terminate_all` waits for a
  syncthing that was not told to stop (section 5).

Assets and values:

- `RightContent`: a file in the cache is the right one, whoever else downloads, unless a download failed.
- `TexturesFound`: textures are where the resolver looks for them.
- `LightsStayOpen`: a light that was opened once can be opened for ever.
- `Followed`: when everything is applied, the reader has what the author has, in every field whose last
  change could be told: it was recorded, its tick was not lost, and it was no list operation that is explicit and empty
  or has added or ordered items.
- `BracketsAgree`: the samples found around a time are samples, enclose it, and have none between.

Each module has one type invariant.

### Fairness

`LiveSession`'s `FairSpec` assumes weak fairness of the server's handler for each session and layer,
of each client's network thread, of each host's tick and of each turn of a started loop. The
first two are asynchronous reads that are started again by their own completion
(`WebsocketSession::Read`, `WebsocketClient::OnRead`), on threads that only run such
handlers; a host calls `LiveSessionUpdate` in every frame; a loop does not wait. No
fairness is assumed of editing, joining, leaving, reloading or noticing a lost connection.

`SocketPair` assumes that the io_contexts run handlers whose operations have completed, on either
end, and that a host in `Disconnect` goes on, for it does not wait there. Nothing makes the host send or
leave, the connection break, or a ping come.

`WorkspaceClient` assumes that the host's thread, `Stop` and the task's threads go on where they
do not wait, and that messages arrive. The interval of the task need never be over: `StopReturns` rests on
the notification alone. Nothing makes the host call anything, or the process poll for the first time.

`ConnectionManager` assumes that the event loop resumes the handlers and the disconnecting job, that the
time of a websocket on which nobody sends or listens runs out, and that syncthing ends once it was told to, and the
process with it (`WF(Exit)`, enabled only then). Requests and closes are answered or fail. Nothing makes a client
come or go, the polling job tell anything, or syncthing end that was not told (`SyncthingEnds` has no fairness).

`AssetCache` and `LayerValues` state no fairness and check no liveness.

## 4. Proofs

Each theorem holds for any values of the constants that meet the assumptions named in the modules.

**`LiveSessionProofs`** (`LayerDataAssumption`, `LiveWireAssumption`,
`LiveClientAssumption`, `LiveSessionAssumption`; any sets of users, sessions, layers, paths
and fields, any bounds):

- `TypeCorrect == Spec => []TypeOK`. `TypeOK` is not inductive: a turn of the loop of
  `ProcessRemoteUpdates` applies the update found under the next number, and yields the
  state of a layer only if there is one. `TypeInv` adds `LoopInv`, that a layer whose loop
  is under way has a next update; the host's actions keep it because the host is idle
  when they happen, and the network thread because it does not touch the data. One lemma
  per operation of `RenderStudioData` gives its type, one per action of `LiveSession` that
  it keeps `TypeInv`.

- `AppliedCorrect == Spec => []AppliedIsHistory`, with reloads, lost
  connections and returns in any order, and with no condition on how hosts edit. The
  property speaks of the applied updates only; what a client applies next is in its
  queue, before that accumulated, before that on its websocket. `Delivery`
  (`DeliveryCorrect`) says of all these stages that an update is `Genuine`: either its
  numbering has been given up since, or the history holds it at its number, with the same
  contents or, for its author, as an acknowledgement. It needs two more facts: the
  history is numbered from 1 without gaps (`HistoryNumbered`), and a client's websocket
  was opened for it (`OwnSessions`), because what is genuine as an acknowledgement for one
  user is not for another. The argument is one lemma about the server (`Continues`: an
  action lets a history grow or gives it up under a higher epoch, so that what was
  genuine stays so, `GenuineStays`), one per operation of `RenderStudioData`, and one per
  action.

**`LiveStreamProofs`** (the same assumptions): `HeldOnceCorrect` and `FollowersCorrect`, for the clients that neither
reload nor leave (`Steady`), while others reload, lose connections and return. `HeldOnce` is not
inductive: that the number to be given next is nowhere yet, that a replay does not meet what is still on
its way, and that a reload which is dropped takes nothing with it that is needed, are facts about the
order of what is on the way. The invariant (`StreamsCorrect`) is:

- `Connections`: a client in live mode has its websocket up, in the channel, and its layers loaded; no other
  session of it is in use; a session that was never opened carries nothing; reloads come from those who
  may reload; and before a client takes part it has taken nothing.
- `Streams`: what comes to a client about a layer is a stream, which the reloads on the socket cut into segments
  (`Wire`). Each segment is numbered on, without a gap or a repetition, and in one epoch: the first from the
  number m up to which the client has taken the stream, every other from 1. The one after the last reload ends with
  the last number the server gave; those before it are of epochs that are over. Of 1..m each is in
  one of the accumulators, the queue and the applied updates, unless a reload is requested that will throw them
  away (`Taken`).

One lemma says what it means to append to such a stream, one to begin a new segment, one to take its head;
one per action applies them. `HeldOnce` follows by counting: of a stream numbered without
repetition, a number has one position. `FollowersStartAfresh` is part of `Taken`: all that a layer has queued
or applied is of one epoch.

Its second part, under `NoticedFirst` (the server notices the end of a user's old websocket before
the user is back; Channel.cpp:35 is why, see section 5), is `NothingMissingCorrect`. A client
that comes back is sent the whole history again on its new websocket, while what it had
accumulated, queued or applied stays. `Returns` says that before the first reload each number of the
history is in at least one of the wire, the accumulators, the queue and the applied updates
(`EverythingReached`). It rests on: a user has at most one session that the server has open, and that one is in the
channel (`OneUp`); nobody is told to reload before the numbering has restarted (`ReloadsComeLate`); who is
in live mode has the layers loaded (`LoadedInLive`), or a tick would drop what was accumulated; and a queue has one
update for a number (`QueuesAreMaps`). A number then only moves, from the wire to the accumulators to the queue
to the applied updates; one that is dropped on the way, since its like is queued or applied already, is reached
there.

**`LiveLogProofs`** (the same, and one condition each):

- `MaskHasCauseCorrect`, if hosts set values that can be serialized only (`FieldsSerializable`). The condition
  is needed: a tick that throws on a value has already emptied the local deltas of the layer
  (FileFormat.cpp:207), and the mask that stays has no cause. The invariant `Masks` says where the edit
  behind a mask is: not yet sent, on the wire, or numbered, in which case its
  acknowledgement is on the way (`Caused`); and that acknowledgements name their paths and nothing
  more (`AcknowledgesNameOnly`), so that the one which lifts a mask is that of the edit.
- `SharedLogImplemented == Spec => ImplementsSharedLog`, if nobody reloads or leaves, which is the
  assumption of `live_edits` too: either would start a client's prefix again, and in `SharedLog`
  prefixes only grow. `Delivery` allows an author both forms of its own edit, since a return has them sent in
  full; `Telling` says that without returns whatever is on the way to a client or applied by it is in the
  form that `SharedLog` has for it. It needs that the author of what is numbered is in live mode (`AuthorsLive`),
  so that a client that joins finds nothing of its own in the replay. The steps then map one by one: numbering
  appends to the log, a turn of the loop gives one client one entry, and every other step changes neither.
- `DataConsistencyCorrect == Spec => []DataConsistency`, if nobody reloads or leaves, values can be
  serialized, and hosts take care (`EveryPathWithCare`): a path is edited under a lock, or it is
  `"settled"` and has one field, which is neither a list of children nor a type name, and it is no
  xformOp (`OneField`). `live_edits` meets these conditions. That a settled path has one field is
  needed, see section 5; the proof is what showed it. The invariant (`Consistent`) follows each path of each layer by itself:
  there is a sequence f of contents, one for each length of the history, which starts with the file's
  and is continued by the edits of this path (`Chain`). Quantifying over it takes the place of a
  recursive fold, which the prover could not have reasoned about. Under a lock (`Locked`) only one client at a time is ahead
  of the history, and no entry of another for this path is still to come to it; it sees the end of the history with its own edits
  on top, any other sees f at its own position, its own entries counted in. On a settled path (`Settled`) a client has at most one edit
  that is not acknowledged, the mask is there exactly as long as it has one, and while it has none it
  sees f at its position. What a client sees of its edit, now and after the history that the mask hides, is the
  same, because the one field is overwritten. When all is quiet every client is at the end of the same history
  and nobody is ahead (`ConsistentShows`).

**`SocketProofs`** (no assumption; any number of messages):

- `ToldOnce`, from `Told`: the session is open exactly if `Logic` was told of it, and `mConnected` says whether
  it was told of the end. `MessagesOnlyBetween` adds `ClientTold`: a client may be connected without its
  logic knowing only after `OnClose` came before the host's last step, and then there is nothing
  left to read.
- `BuffersStayOwned`, from `Queues`: the buffer in flight is one and the head of the session's
  queue; on the client's side, where the newest is written, it is one and in the queue.
- `SessionIsChannel == Spec => ImplementsChannel`, from `InOrder`: what the client has read, what is on the
  wire, what is queued and what is posted are numbered on from each other, up to what
  `Logic` has sent. Queue and wire part when the connection is down, since a write that
  completes then puts nothing on the wire; so the second half is conditional, and
  `Alive` says that a session that was left has no connection.
- `WaitingHostLeaves`, from `HostLeaves`: a host that has waited finds no operation of connecting pending.
- `TypeCorrect`: with the queues and wires from `Queues`, and the flags and places of either end one handler at a time
  (`ClientPlaces`, `ServerPlaces`).
- `PacedHostInOrder == Spec => []PacedInOrder`. The client writes the newest message of its queue and pops the
  oldest, which are the same while at most two wait and the first is being written. `Pace` says that
  what has been read, is on the wire, in the queue and posted is then numbered on up to what
  the host has sent. The proof does not need the host to have waited for the handshake: what is queued before it
  is never written, nor anything after it, so nothing is out of order.

**`WorkspaceProofs`** (`MaxThreadsAssumption`, `BoundsAssumption`; any number of threads, attempts and
crashes): `TypeCorrect`, and from one invariant `Inv` the theorems `NeverTwoThreads`, `PingedClientStays` and
`ConnectedHostPings`. `OneThread` alone is not inductive: `Start` assigns to `mThread`, and that no thread is
there follows from where the host is. `Inv` says that a thread that lives is `mThread`, which is there while
the task runs and until `Stop` returns (`ThreadIsJoined`); that the host waits for `Stop` in two places,
and that the task does not run where it replaces the client (`StopIsWaitedFor`); and that there is a client while
there is a thread (`ClientOfTask`). `PausedWhenTold ==
Spec => []PauseMeansPaused` rests on `Believed`: while nothing was lost and nobody interfered, what the host
believes of the folder is so, and no command on its way will change it (`Agreed`); or the host is waiting and its
command is the last one on its way there, or its report, the only one, is on its way back (`UnderWay`). So the
report that ends a wait is that of this call and not of an earlier one.

**`ConnectionProofs`** (`WebSocketsAssumption`: there are finitely many connections): `ConnectionTypeCorrect ==
Spec => []TypeOK`. `TypeOK` is inductive: what is stale is in `active_connections`, since whoever is removed is removed from
both; and the size a broadcast begins with is one the list can have, which is where finiteness is needed.
One lemma (`TerminateType`) has the outcomes of `terminate_all`.

**`AssetProofs`** (`AssetsAssumption`; any materials, lights and readers): `CacheIsRight`, `TexturesAreFound`
and `OpenedLightsStayOpen`. The argument is that the cache only grows: a directory stays, and a file may be
overwritten but does not go. So what a reader knows of it (`Mine`: its directory is there, what it
holds in its hands is what belongs where it is about to be put, its texture is there once it has
moved it) cannot be undone by another (`Grows`, `MineKept`). One lemma per step shows its `Effect`: the cache
stays right and grows, and the reader itself knows what it should.
`TypeCorrect` adds that what a reader finds in an archive is never an archive (`Typed`).

**`LayerValuesProofs`** (`SpecStoreAssumption`: times are integers, finitely many; `LayerValuesAssumption`; any
paths, times and number of edits): `LayerTypeCorrect` and `FollowedCorrect` from one invariant (`InvCorrect`), and
`BracketsCorrect`.

- No spec has a field twice (`Specs`): `Set` looks for the field first, `Erase` takes one, and a rename moves whole
  specs. The samples over time are never sent. So a field has one value, and what one operation does to one field leaves the others alone.
- `Followed` speaks of the state in which nothing is on the way. `FollowInv`, which TLC checked on the constants of
  `layer_values` first, says of any state and of each field that can be told where its last value is (`WillFollow`): in the local
  edit, if there is one; otherwise in the last event on the way that names the field; otherwise in the reader's data.
  That what arrives is what was set is a lemma about `ToJson` and `FromJson` for each of the
  `Values` that can be told (`RoundTrip`): of the list operations, those that are explicit with an item and
  those that only prepend, append and delete. A local edit always names one field at most, but the event is applied by the code's loop
  (`WithUpdate`), whose recursive function is unfolded for the length it can have.
- `BracketsCorrect` is about the search for the samples around a time, whatever samples there are. `Bracketing` picks a greatest
  sample below and a least one above; that they exist is shown with the well-founded order on finite
  sets.

What stays with TLC:

- liveness under fairness, which this prover cannot do: `EveryMaskLifts`, `EveryoneCatchesUp`, `LeavingCloses`,
  `ServerNotices`, `StopReturns`, `WaitsEnd`, `GhostsLeave`, `ProcessEnds`;
- the disagreements: `DataConsistency` without care, `BothEditsKept`, `EveryoneStartsAfresh` and `LeftForGood` do not hold, and the runs
  that show it are their counterexamples.

All other properties of the runs are theorems.

## 5. Limits

### What the code does not promise, and no property states

- *A user who comes back to an emptied channel.* The last connection to leave erases the history
  (Logic.cpp:77). One that comes back with a layer loaded waits for the number after its
  last, while the server begins with 1. `EveryoneCatchesUp` speaks of the users who stay.
- *A user who comes back before the server has noticed the end of its old websocket.* The channel tells
  connections apart by user name (Channel.cpp:35): edits that arrive on the old session are not sent
  to the new one, and the end of the old one removes the new one. `NoticedFirst` excludes it; with
  `FALSE` TLC finds `NothingMissing` violated.
- *A layer opened in a running session.* The tick drops events of layers that are not loaded
  (FileFormat.cpp:248); nothing replays them. `HostOpens` is in every run, and the properties speak of
  `OpenedFirst`.
- *Two fields of one path.* Edits are hidden by path and not by field (Data.cpp:89, :572). One user sets
  one field of a path while another sets a second one: each hides the other's edit until its own is acknowledged, and then has it
  applied no more. Both paced themselves as Data.cpp:571 hopes, and their contents differ for ever; with
  two fields in `FieldsOf[attr]` TLC finds `DataConsistency` of `live_edits` violated. `OneField` excludes it in the
  theorem, and `FieldsByPath` in the run.
- *A tick outside live mode* dereferences a null pointer (FileFormat.cpp:224); the guard `InLiveMode` names the
  host's obligation.
- *A transform edited by two users at once.* Updates of an xformOp are applied over an own edit that is not
  acknowledged (Data.cpp:91), because hosts are to take an implicit lock. Under the lock nobody else's update is under way
  then, so that `DataConsistency` holds with this rule or without it; without the lock nothing is promised.
- *A tick that throws.* A value without JSON loses all local edits of the layer in that tick, and their paths
  stay masked (FileFormat.cpp:207). `Followed` counts these fields as `untold`, `MaskHasCause` assumes values that can be
  serialized.
- *Changes that no one is told of.* Erased fields, erased and renamed specs and time samples are not recorded as
  local edits (Data.cpp:577, :273-298, :787). `Followed` says that nothing else differs, and that a later `Set` of
  the field makes up for it.
- *List operations.* One that is explicit and empty is read as one that does nothing, added and ordered
  items are not read at all (Serialization.h:185-195). `Arrives` leaves them out of `Followed`.
- *More than two messages waiting in a client, or messages before the handshake* (WebsocketClient.cpp:351, :143): section 2,
  *One queue per layer*. `PacedInOrder` excludes both.
- *A pause or resume that is lost.* `Pause`, `Resume` and `WaitIdle` wait without a time limit (Workspace.cpp:178): a
  lost connection, a report that falls into the first poll (syncthing_manager.py:178), or a flag that is left
  from an earlier process (Workspace.cpp:195) has them wait for ever or return too early. `undisturbed` excludes it from
  `PauseMeansPaused` and `WaitsEnd`.
- *`BackgroundTask` with several callers* (BackgroundTask.cpp:39, :58): two calls of `Stop`, or one from the task, join twice or
  themselves. Its only user calls it from one thread, and so does the model.
- *The process that nobody uses.* When the request to stop syncthing fails, the workspace process waits for it with
  nobody connected, although connection_manager.py:83 logs "killing everything": the error is logged as one that "should be
  fine" (syncthing_manager.py:333), and `process.wait()` has no time limit. A client that leaves before syncthing
  listens is enough. Another client that comes and goes, or the end of syncthing by itself, would end the wait.
  `ProcessEnds` and `GhostsLeave` leave it out with `[]Unheard`; with `~> Exited` alone TLC finds `ProcessEnds` violated,
  with one websocket that leaves, is dropped by the job, and whose request fails.
- *An asset whose download failed.* A directory that was made before its files came (LocalStorageApi.cpp:122) is taken for the
  asset ever after, a second reader that comes in between finds it without a root file, and the text `[Error]` may be
  kept as a file (RestClient.cpp:286). The properties of `AssetCache` exclude assets whose download failed, and speak
  of readers that downloaded themselves and of lights opened before.
- *A failed accept* ends the accept loop (WebsocketServer.cpp:137): `AcceptFails` is an action of `ServerSocket`,
  and clients that come later are never answered.
- *Two changes of syncthing's configuration at once* (syncthing_manager.py:219): it is read, changed and
  written back with awaits in between; one of the two is lost. Nothing in the repository says what should come
  of it, and it is not modelled.
- *`GfMatrix4d` as JSON* (Serialization.cpp:466) steps over the matrix from the address of a row: undefined
  behaviour without a determined set of outcomes, left out of `ValueJson`.

### Not modelled

- *`RenderStudioFileFormat`*: writing layers to files, choosing the format of the original, the expiry of
  layers nobody holds (`RemoveExpiredLayers`). The owner notice and history events are output.
- *Serialization*: `GfMatrix4d` (above), `VtDictionary`, a map of values converted one by one, the custom data of
  references, which is not written. The text of JSON.
- *Workspace process*: what it asks of syncthing but for what is fatal or for `WorkspaceClient`;
  `auto_check_connected_device` and `auto_clean_devices_job`, which change no connection; `main.py`'s HTTP
  requests.
- *Assets*: archives with directories in them, which `Move` renames as a whole, and materials whose path has
  several names, of which anchoring drops the slashes (Resolver.cpp:300). A layer whose file cannot be read is not
  opened in `LiveClient`.
- *Resolver and paths*: parsing and encoding of URLs, the workspace's own paths: functions of strings
  without state. `RestClient::Post` and `Put`: requests without state.
- *Kit facade*: it forwards; the hosts' actions in `LiveSession` and `WorkspaceClient` are its calls. Its path helpers are
  left out.
- *Notices, logging, schema, AI tools, bindings*: output, generated code, or one blocking request to a
  remote service; no state that the system reads back.
- *Process launch, certificates, identifiers*: calls of the operating system without protocol state. That
  launching may fail is in `WorkspaceClient`.
