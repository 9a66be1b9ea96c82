-------------------------- MODULE ConnectionProofs --------------------------
(***************************************************************************)
(* The invariant of ConnectionManager proved with TLAPS, for any number of *)
(* websockets.  What is eventually so, GhostsLeave and ProcessEnds, stays  *)
(* with TLC.                                                               *)
(***************************************************************************)
EXTENDS ConnectionManager, FiniteSetTheorems, TLAPS

\* A broadcast starts with a size active_connections can have.
LEMMA LoopOfMembers ==
    ASSUME NEW members \in SUBSET WebSockets
    PROVE  Cardinality(members) \in Loop
<1>1. IsFiniteSet(WebSockets)
  BY WebSocketsAssumption
<1>2. Cardinality(members) <= Cardinality(WebSockets) /\ IsFiniteSet(members)
  BY <1>1, FS_Subset
<1>3. Cardinality(members) \in Nat /\ Cardinality(WebSockets) \in Nat
  BY <1>1, <1>2, FS_CardinalityType
<1>4. QED
  BY <1>2, <1>3 DEF Loop

LEMMA BeginType ==
    ASSUME TypeOK, NEW c \in Coroutines, NEW members \in SUBSET WebSockets,
           Begin(c, members)
    PROVE  loops' \in [Coroutines -> Loop \cup {NoLoop}]
<1>1. Cardinality(members) \in Loop
  BY LoopOfMembers
<1>2. QED
  BY <1>1 DEF Begin, TypeOK

LEMMA EndType ==
    ASSUME TypeOK, NEW c \in Coroutines, BroadcastEnds(c) \/ BroadcastRaises(c)
    PROVE  loops' \in [Coroutines -> Loop \cup {NoLoop}]
BY DEF BroadcastEnds, BroadcastRaises, TypeOK

\* Whatever becomes of the request to syncthing, terminate_all is somewhere.
LEMMA TerminateType ==
    ASSUME TypeOK, NEW b \in BOOLEAN, TerminateAll \/ TerminateIf(b)
    PROVE  ending' \in {"no", "waiting", "stopping", "exited"}
<1>1. CASE TerminateAll
  BY <1>1 DEF TerminateAll, TypeOK
<1>2. CASE UNCHANGED ending
  BY <1>2 DEF TypeOK
<1>3. QED
  BY <1>1, <1>2 DEF TerminateIf

LEMMA TypeInit == Init => TypeOK
BY DEF Init, TypeOK

\* The steps of a client and of its handler.
LEMMA TypeConnect ==
    ASSUME TypeOK, NEW w \in WebSockets, Connect(w)
    PROVE  TypeOK'
<1>1. client' \in [WebSockets -> {"off", "on", "gone"}]
  BY DEF Connect, TypeOK
<1>2. active' \subseteq WebSockets /\ stale' \subseteq active'
  BY DEF Connect, TypeOK
<1>3. CASE active = {} /\ ~syncthing_was_launched
  BY <1>1, <1>2, <1>3 DEF Connect, HandlerAt, TypeOK
<1>4. CASE ~(active = {} /\ ~syncthing_was_launched)
  <2>1. loops' \in [Coroutines -> Loop \cup {NoLoop}]
    <3>1. CASE UNCHANGED loops
      BY <3>1 DEF TypeOK
    <3>2. CASE Begin(w, active')
      BY <1>2, <3>2, BeginType DEF Coroutines
    <3>3. QED
      BY <1>4, <3>1, <3>2 DEF Connect
  <2>2. handler' \in [WebSockets -> {"none", "greeting", "summary", "receiving",
                                     "closing", "deleting", "sleeping", "ended", "failed"}]
    BY <1>4 DEF Connect, HandlerAt, TypeOK
  <2>3. QED
    BY <1>1, <1>2, <1>4, <2>1, <2>2 DEF Connect, TypeOK
<1>5. QED
  BY <1>3, <1>4

LEMMA TypeHandlerStep ==
    ASSUME TypeOK, NEW w \in WebSockets, HandlerStep(w)
    PROVE  TypeOK'
<1> USE DEF clientVars, handlerVars, jobVars
<1>1. CASE Greeted(w)
  <2>1. loops' \in [Coroutines -> Loop \cup {NoLoop}]
    BY <1>1, BeginType, EndType DEF Greeted, Coroutines, TypeOK
  <2>2. QED
    BY <1>1, <2>1 DEF Greeted, HandlerAt, TypeOK
<1>2. CASE GreetingRaises(w)
  <2>1. loops' \in [Coroutines -> Loop \cup {NoLoop}]
    BY <1>2, EndType DEF GreetingRaises, Coroutines
  <2>2. QED
    BY <1>2, <2>1 DEF GreetingRaises, TypeOK
<1>3. CASE SeesDisconnect(w)
  BY <1>3 DEF SeesDisconnect, HandlerAt, TypeOK
<1>4. CASE CloseSocket(w)
  BY <1>4 DEF CloseSocket, HandlerAt, TypeOK
<1>5. CASE Disconnect(w)
  BY <1>5 DEF Disconnect, HandlerAt, Delete, TypeOK
<1>6. CASE DisconnectSlept(w)
  <2>1. ending' \in {"no", "waiting", "stopping", "exited"}
    BY <1>6, TerminateType DEF DisconnectSlept
  <2>2. QED
    BY <1>6, <2>1 DEF DisconnectSlept, HandlerAt, TypeOK
<1>7. QED
  BY <1>1, <1>2, <1>3, <1>4, <1>5, <1>6 DEF HandlerStep

LEMMA TypeClientStep ==
    ASSUME TypeOK, NEW w \in WebSockets, ReceiveText(w) \/ Leave(w) \/ Expire(w)
    PROVE  TypeOK'
BY DEF ReceiveText, Leave, Expire, clientVars, handlerVars, jobVars, TypeOK

\* The steps of the jobs.
LEMMA TypeDropStep ==
    ASSUME TypeOK, DropStep
    PROVE  TypeOK'
<1> USE DEF JobOnly, JobAt, Jobs
<1>1. CASE FindStale
  BY <1>1 DEF FindStale, TypeOK
<1>2. CASE DropClose
  BY <1>2 DEF DropClose, TypeOK
<1>3. CASE DropStale
  <2>1. ending' \in {"no", "waiting", "stopping", "exited"}
    BY <1>3, TerminateType DEF DropStale
  <2>2. QED
    BY <1>3, <2>1 DEF DropStale, Delete, TypeOK
<1>4. CASE DropSlept
  <2>1. ending' \in {"no", "waiting", "stopping", "exited"}
    BY <1>4, TerminateType DEF DropSlept
  <2>2. QED
    BY <1>4, <2>1 DEF DropSlept, TypeOK
<1>5. QED
  BY <1>1, <1>2, <1>3, <1>4 DEF DropStep

LEMMA TypePollStep ==
    ASSUME TypeOK, Tell \/ Told \/ TellRaises
    PROVE  TypeOK'
<1>1. "poll" \in Coroutines
  BY DEF Coroutines, Jobs
<1>2. loops' \in [Coroutines -> Loop \cup {NoLoop}]
  BY <1>1, BeginType, EndType DEF Tell, Told, TellRaises, TypeOK
<1>3. job' \in [Jobs -> {"off", "waiting", "broadcasting", "closing", "deleting",
                         "sleeping", "ended"}]
  BY DEF Tell, Told, TellRaises, JobAt, TypeOK
<1>4. ending' \in {"no", "waiting", "stopping", "exited"}
  BY TerminateType DEF Tell, Told, TellRaises, TypeOK
<1>5. QED
  BY <1>2, <1>3, <1>4 DEF Tell, Told, TellRaises, JobOnly, TypeOK

LEMMA TypeNext ==
    ASSUME TypeOK, [Next]_vars
    PROVE  TypeOK'
<1> USE DEF clientVars, handlerVars, jobVars
<1>1. CASE StartFails
  <2>1. ending' \in {"no", "waiting", "stopping", "exited"}
    BY <1>1, TerminateType DEF StartFails
  <2>2. QED
    BY <1>1, <2>1 DEF StartFails, TypeOK
<1>2. CASE SyncthingEnds \/ Exit
  BY <1>2 DEF SyncthingEnds, Exit, TypeOK
<1>3. CASE UNCHANGED vars
  BY <1>3 DEF vars, TypeOK
<1>4. QED
  BY <1>1, <1>2, <1>3, TypeConnect, TypeHandlerStep, TypeClientStep, TypeDropStep,
     TypePollStep DEF Next

(***************************************************************************)
(* The state of the workspace process has its type: only members of        *)
(* active_connections are stale, whatever job or handler deletes a         *)
(* websocket and whichever late message puts it back, and a broadcast      *)
(* compares sizes the dictionary can have (connection_manager.py:68-113).  *)
(***************************************************************************)
THEOREM ConnectionTypeCorrect == Spec => []TypeOK
<1>1. Init => TypeOK
  BY TypeInit
<1>2. TypeOK /\ [Next]_vars => TypeOK'
  BY TypeNext
<1>3. QED
  BY <1>1, <1>2, PTL DEF Spec
=============================================================================
