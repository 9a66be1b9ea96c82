-------------------------- MODULE ConnectionManager --------------------------
(***************************************************************************)
(* The workspace process, src/Workspace/app: the coroutines of main.py and *)
(* connection_manager.py and the Terminator.  They run on one event loop:  *)
(* what is between two awaits is one step, and at an await anything may    *)
(* happen.  Each client has a handler, main.py's watchdog; the first one   *)
(* starts the jobs: "drop" is auto_disconnect_clients_job, "poll"          *)
(* auto_poll_syncthing_job.  What the process asks of syncthing is left    *)
(* out but for what is fatal in it and what the end of the process waits   *)
(* for; so is auto_check_connected_device, which only tells the clients of *)
(* a connection: what it raises is logged.                                 *)
(***************************************************************************)
EXTENDS Integers, FiniteSets

CONSTANT WebSockets    \* each accepted once

ASSUME WebSocketsAssumption == IsFiniteSet(WebSockets)

Jobs == {"drop", "poll"}
Coroutines == WebSockets \cup Jobs

VARIABLES
    client,     \* [websocket]: "off", "on", "gone"
    closed,     \* websockets the process has closed
    handler,    \* [websocket]: where its watchdog is
    active,     \* active_connections, without the times
    stale,      \* those whose last message is older than the ping interval
    syncthing_was_launched,
    job,        \* [job]: where it is
    remove_list,    \* what auto_disconnect_clients_job is still to disconnect
    dropping,   \* what it is disconnecting
    loops,      \* [coroutine]: the size of active_connections when its broadcast began
    ending      \* where terminate_all is

clientVars == <<client, closed>>
handlerVars == <<handler, active, stale, syncthing_was_launched>>
jobVars == <<job, remove_list, dropping>>
vars == <<clientVars, handlerVars, jobVars, loops, ending>>

Loop == 0..Cardinality(WebSockets)
NoLoop == -1

TypeOK ==
    /\ client \in [WebSockets -> {"off", "on", "gone"}]
    /\ closed \subseteq WebSockets
    /\ handler \in [WebSockets -> {"none", "greeting", "summary", "receiving",
                                   "closing", "deleting", "sleeping", "ended", "failed"}]
    /\ active \subseteq WebSockets /\ stale \subseteq active
    /\ syncthing_was_launched \in BOOLEAN
    /\ job \in [Jobs -> {"off", "waiting", "broadcasting", "closing", "deleting",
                         "sleeping", "ended"}]
    /\ remove_list \subseteq WebSockets /\ dropping \subseteq WebSockets
    /\ loops \in [Coroutines -> Loop \cup {NoLoop}]
    /\ ending \in {"no", "waiting", "stopping", "exited"}

Init ==
    /\ client = [w \in WebSockets |-> "off"] /\ closed = {}
    /\ handler = [w \in WebSockets |-> "none"]
    /\ active = {} /\ stale = {}
    /\ syncthing_was_launched = FALSE
    /\ job = [j \in Jobs |-> "off"] /\ remove_list = {} /\ dropping = {}
    /\ loops = [c \in Coroutines |-> NoLoop]
    /\ ending = "no"

Exited == ending = "exited"
HandlerAt(w, from, to) == handler[w] = from /\ handler' = [handler EXCEPT ![w] = to]
JobAt(j, from, to) == job[j] = from /\ job' = [job EXCEPT ![j] = to]

\* terminator.terminate_all, up to the wait for syncthing's process in
\* SyncthingManager.terminate.  Syncthing has been told to stop, or there is none; or the
\* request failed, as it must before syncthing listens, which is only logged, and the wait
\* has no end unless syncthing ends by itself or hears another call.  A caller does not
\* return.
TerminateAll ==
    \/ ending' = "stopping"
    \/ ending' = IF ending = "no" THEN "waiting" ELSE ending

TerminateIf(b) == IF b THEN TerminateAll ELSE UNCHANGED ending

-----------------------------------------------------------------------------
\* broadcast: for connection in active_connections.keys(): await send_json(message).
Begin(c, members) == loops' = [loops EXCEPT ![c] = Cardinality(members)]
Resized(c) == Cardinality(active) # loops[c]

BroadcastEnds(c) ==
    /\ loops[c] # NoLoop /\ ~Resized(c)
    /\ loops' = [loops EXCEPT ![c] = NoLoop]

\* Python raises when the dictionary has another size, send_json when nobody is there any
\* more to send to.
BroadcastRaises(c) ==
    /\ loops[c] # NoLoop
    /\ Resized(c) \/ \E w \in active : w \in closed \/ client[w] = "gone"
    /\ loops' = [loops EXCEPT ![c] = NoLoop]

-----------------------------------------------------------------------------
\* ConnectionManager.connect, once accept has returned.  The events it may greet everybody
\* with are known or not.
Connect(w) ==
    /\ client[w] = "off"
    /\ client' = [client EXCEPT ![w] = "on"]
    /\ active' = active \cup {w}
    /\ IF active = {} /\ ~syncthing_was_launched
       THEN /\ syncthing_was_launched' = TRUE
            /\ job' = [j \in Jobs |-> "waiting"]
            /\ HandlerAt(w, "none", "receiving")
            /\ UNCHANGED loops
       ELSE /\ \/ HandlerAt(w, "none", "receiving") /\ UNCHANGED loops
               \/ /\ \E greeting \in {"greeting", "summary"} : HandlerAt(w, "none", greeting)
                  /\ Begin(w, active')
            /\ UNCHANGED <<syncthing_was_launched, job>>
    /\ UNCHANGED <<closed, stale, remove_list, dropping, ending>>

Greeted(w) ==
    /\ \/ /\ HandlerAt(w, "greeting", "summary")
          /\ loops[w] # NoLoop /\ ~Resized(w) /\ Begin(w, active)
       \/ /\ handler[w] \in {"greeting", "summary"}
          /\ handler' = [handler EXCEPT ![w] = "receiving"]
          /\ BroadcastEnds(w)
    /\ UNCHANGED <<clientVars, active, stale, syncthing_was_launched, jobVars, ending>>

\* connect is outside watchdog's try: nobody disconnects the websocket.
GreetingRaises(w) ==
    /\ handler[w] \in {"greeting", "summary"}
    /\ BroadcastRaises(w)
    /\ handler' = [handler EXCEPT ![w] = "failed"]
    /\ closed' = closed \cup {w}
    /\ UNCHANGED <<client, active, stale, syncthing_was_launched, jobVars, ending>>

\* receive_text: the time is set even if the websocket is no longer in active_connections.
ReceiveText(w) ==
    /\ client[w] = "on"
    /\ handler[w] = "receiving"
    /\ active' = active \cup {w}
    /\ stale' = stale \ {w}
    /\ UNCHANGED <<clientVars, handler, syncthing_was_launched, jobVars, loops, ending>>

\* WebSocketDisconnect, which is caught; what receive_text raises once the process itself
\* has closed the websocket may be something else, which is not.
SeesDisconnect(w) ==
    /\ \/ /\ client[w] = "gone" \/ w \in closed
          /\ HandlerAt(w, "receiving", "closing")
       \/ w \in closed /\ HandlerAt(w, "receiving", "failed")
    /\ UNCHANGED <<clientVars, active, stale, syncthing_was_launched, jobVars, loops,
                   ending>>

\* disconnect, called by the handler, closes and, once closed, deletes: del raises KeyError
\* if the websocket is missing.
CloseSocket(w) ==
    /\ HandlerAt(w, "closing", "deleting")
    /\ closed' = closed \cup {w}
    /\ UNCHANGED <<client, active, stale, syncthing_was_launched, jobVars, loops, ending>>

\* Mutant: the time of the websocket stays behind.
DeleteButTime(w) == active' = active \ {w} /\ UNCHANGED stale

Delete(w) == active' = active \ {w} /\ stale' = stale \ {w}

Disconnect(w) ==
    /\ HandlerAt(w, "deleting", IF w \in active THEN "sleeping" ELSE "failed")
    /\ Delete(w)
    /\ UNCHANGED <<clientVars, syncthing_was_launched, jobVars, loops, ending>>

DisconnectSlept(w) ==
    /\ HandlerAt(w, "sleeping", "ended")
    /\ TerminateIf(active = {})
    /\ UNCHANGED <<clientVars, active, stale, syncthing_was_launched, jobVars, loops>>

-----------------------------------------------------------------------------
JobOnly == UNCHANGED <<client, syncthing_was_launched>>

\* Mutant: nobody is ever found.
FindNobody ==
    /\ stale # {}
    /\ JobAt("drop", "waiting", "waiting")
    /\ UNCHANGED <<remove_list, dropping, closed, handler, active, stale, loops, ending>>
    /\ JobOnly

\* auto_disconnect_clients_job.
FindStale ==
    /\ stale # {}
    /\ JobAt("drop", "waiting", "closing")
    /\ remove_list' = stale
    /\ UNCHANGED <<dropping, closed, handler, active, stale, loops, ending>> /\ JobOnly

DropClose ==
    /\ JobAt("drop", "closing", "deleting")
    /\ \E w \in remove_list :
          /\ closed' = closed \cup {w}
          /\ remove_list' = remove_list \ {w} /\ dropping' = {w}
    /\ UNCHANGED <<handler, active, stale, loops, ending>> /\ JobOnly

\* The KeyError is fatal here: the handler has been faster.
DropStale ==
    /\ \E w \in dropping :
          /\ Delete(w)
          /\ JobAt("drop", "deleting", IF w \in active THEN "sleeping" ELSE "ended")
          /\ TerminateIf(w \notin active)
    /\ dropping' = {}
    /\ UNCHANGED <<closed, handler, remove_list, loops>> /\ JobOnly

\* Mutant: the emptiness is left to the handlers.
DropSleptOnly ==
    /\ JobAt("drop", "sleeping", IF remove_list = {} THEN "waiting" ELSE "closing")
    /\ UNCHANGED <<closed, handler, active, stale, remove_list, dropping, loops, ending>>
    /\ JobOnly

DropSlept ==
    /\ JobAt("drop", "sleeping", IF active = {} THEN "ended"
                                 ELSE IF remove_list = {} THEN "waiting" ELSE "closing")
    /\ TerminateIf(active = {})
    /\ UNCHANGED <<closed, handler, active, stale, remove_list, dropping, loops>> /\ JobOnly

\* auto_poll_syncthing_job tells everybody what syncthing reports; if there is nobody, the
\* loop is over before its first await.
Tell ==
    /\ active # {}
    /\ JobAt("poll", "waiting", "broadcasting")
    /\ Begin("poll", active)
    /\ UNCHANGED <<closed, handler, active, stale, remove_list, dropping, ending>> /\ JobOnly

Told ==
    /\ BroadcastEnds("poll")
    /\ JobAt("poll", "broadcasting", "waiting")
    /\ UNCHANGED <<closed, handler, active, stale, remove_list, dropping, ending>> /\ JobOnly

\* What a broadcast raises is fatal.
TellRaises ==
    /\ BroadcastRaises("poll")
    /\ JobAt("poll", "broadcasting", "ended")
    /\ TerminateAll
    /\ UNCHANGED <<closed, handler, active, stale, remove_list, dropping>> /\ JobOnly

\* Syncthing cannot be started or configured.
StartFails ==
    /\ syncthing_was_launched
    /\ TerminateAll
    /\ UNCHANGED <<clientVars, handlerVars, jobVars, loops>>

-----------------------------------------------------------------------------
\* The process that terminate_all waits for ends without having been told.
SyncthingEnds ==
    /\ ending = "waiting"
    /\ ending' = "stopping"
    /\ UNCHANGED <<clientVars, handlerVars, jobVars, loops>>

\* The wait is over; ConnectionManager.terminate tells everybody and closes what can be
\* closed, whatever any of this raises; and then os._exit.
Exit ==
    /\ ending = "stopping"
    /\ ending' = "exited"
    /\ closed' = closed \cup active
    /\ UNCHANGED <<client, handlerVars, jobVars, loops>>

\* The clients, and the time.
Leave(w) ==
    /\ client[w] = "on"
    /\ client' = [client EXCEPT ![w] = "gone"]
    /\ UNCHANGED <<closed, handlerVars, jobVars, loops, ending>>

Expire(w) ==
    /\ w \in active \ stale
    /\ stale' = stale \cup {w}
    /\ UNCHANGED <<clientVars, handler, active, syncthing_was_launched, jobVars, loops,
                   ending>>

HandlerStep(w) ==
    \/ Greeted(w) \/ GreetingRaises(w) \/ SeesDisconnect(w) \/ CloseSocket(w)
    \/ Disconnect(w) \/ DisconnectSlept(w)

DropStep == FindStale \/ DropClose \/ DropStale \/ DropSlept

Next ==
    /\ ~Exited
    /\ \/ \E w \in WebSockets :
             HandlerStep(w) \/ Connect(w) \/ ReceiveText(w) \/ Leave(w) \/ Expire(w)
       \/ DropStep \/ Tell \/ Told \/ TellRaises
       \/ StartFails \/ SyncthingEnds \/ Exit

\* Nobody sends on it, or nobody listens.
Silent(w) == client[w] = "gone" \/ handler[w] \in {"ended", "failed"}

\* The event loop runs what can go on, requests are answered or fail, time passes for a
\* silent websocket, and syncthing ends when it has been told to.  Nothing makes it end
\* otherwise.
Fairness ==
    /\ \A w \in WebSockets :
          /\ WF_vars(~Exited /\ HandlerStep(w))
          /\ WF_vars(~Exited /\ Silent(w) /\ Expire(w))
    /\ WF_vars(~Exited /\ DropStep)
    /\ WF_vars(~Exited /\ Exit)

Spec == Init /\ [][Next]_vars /\ Fairness

-----------------------------------------------------------------------------
\* terminate_all waits for a syncthing that has not been told to stop.
Unheard == ending = "waiting"

\* A websocket whose handler is through, in whichever way, leaves active_connections, even
\* if its greeting raised or a late message put it back (connection_manager.py:95): only
\* the end of the process keeps it there, or a wait for a syncthing that has not been told.
GhostsLeave ==
    \A w \in WebSockets :
        handler[w] \in {"ended", "failed"} ~> w \notin active \/ Exited \/ []Unheard

Nobody == \A w \in WebSockets : client[w] # "on" \/ w \in closed

\* When everybody has gone, and nobody comes any more, the process ends, and only a
\* syncthing that has not heard the request to stop can keep it (syncthing_manager.py:333):
\* none of the races over active_connections leaves it running for nobody
\* (connection_manager.py:83).
ProcessEnds == syncthing_was_launched /\ []Nobody ~> Exited \/ []Unheard
=============================================================================
