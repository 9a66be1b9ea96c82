--------------------------- MODULE WorkspaceClient ---------------------------
(***************************************************************************)
(* The shared workspace as a host sees it: src/Sources/Networking/         *)
(* Workspace.cpp, with its ping task, its WebsocketClient and the          *)
(* workspace process on the other side.                                    *)
(*                                                                         *)
(* Connect and Disconnect are sequences of blocking calls; host is where   *)
(* the host's thread is in them, and in Pause, Resume and WaitIdle.  A     *)
(* WebsocketClient is what ClientSocket shows of one used like this, the   *)
(* answer of Connect awaited before anything else: connected or not.  The  *)
(* process handles "pause" and "resume" by changing the paused flag of the *)
(* folder in syncthing's configuration, which outlives it; syncthing       *)
(* reports a change, and the process passes the report on if it has polled *)
(* before.  Other hosts may use the same process.                          *)
(***************************************************************************)
EXTENDS BackgroundTask, Sequences

CONSTANTS
    Attempts,       \* 5: how often Connect tries to reach the process it has launched
    MaxCrashes,     \* bound: how often the process ends
    MaxCommands,    \* bound: commands on their way to the process
    MaxEvents       \* bound: events of others on their way to the host

VARIABLES
    host,           \* where the host's thread is
    sClient,        \* "none", "connected", "closed"
    attempt,        \* connections tried by Connect
    sPaused, sLastState, sConnected,
    process,        \* "down", "new" (nothing polled yet), "up"
    commands,       \* "pause" and "resume" on their way to the process
    events,         \* on their way to the host
    folderPaused,   \* syncthing's configuration
    crashes,
    undisturbed     \* not in the code: see Disturb

clientVars == <<host, sClient, attempt>>
flagVars == <<sPaused, sLastState, sConnected>>
processVars == <<process, commands, events, folderPaused, crashes, undisturbed>>
vars == <<taskVars, clientVars, flagVars, processVars>>

ASSUME BoundsAssumption == Attempts \in Nat \ {0} /\ MaxCrashes \in Nat

States == {"idle", "syncing"}
Event == [type : {"Paused", "Resumed"}]
         \cup [type : {"StateChanged"}, state : States]
         \cup [type : {"Connection"}, connected : BOOLEAN]

InConnect == {"stopOld", "dropOld", "ask", "try", "launch", "dropTried", "retry", "start"}
InDisconnect == {"stopPing", "dropClient"}
Waiting == {"pausing", "resuming", "waitingIdle"}

TypeOK ==
    /\ TaskTypeOK
    /\ host \in InConnect \cup InDisconnect \cup Waiting \cup {"free", "paused", "resumed"}
    /\ sClient \in {"none", "connected", "closed"}
    /\ attempt \in 0..(Attempts - 1)
    /\ sPaused \in BOOLEAN /\ sConnected \in BOOLEAN /\ sLastState \in States \cup {""}
    /\ process \in {"down", "new", "up"}
    /\ commands \in Seq({"pause", "resume"})
    /\ events \in Seq(Event)
    /\ folderPaused \in BOOLEAN
    /\ crashes \in 0..MaxCrashes
    /\ undisturbed \in BOOLEAN

Init ==
    /\ TaskInit
    /\ host = "free" /\ sClient = "none" /\ attempt = 0
    /\ sPaused = FALSE /\ sLastState = "" /\ sConnected = FALSE
    /\ process \in {"down", "new", "up"}
    /\ commands = <<>> /\ events = <<>> /\ crashes = 0
    /\ folderPaused \in BOOLEAN
    /\ undisturbed = ~folderPaused

Becomes(from, to) == host = from /\ host' = to
HostOnly == UNCHANGED <<flagVars, processVars>>

-----------------------------------------------------------------------------
\* Mutant: the old task is not stopped.
ConnectBeginsAtOnce ==
    /\ Becomes("free", "stopOld")
    /\ UNCHANGED <<sClient, attempt, flagVars, processVars, taskVars>>

\* Workspace::Connect.  The old ping task is stopped, then dropped: a new task has no
\* thread.
ConnectBegins ==
    /\ Becomes("free", "stopOld")
    /\ Stop
    /\ UNCHANGED <<sClient, attempt, flagVars, processVars>>

OldTaskStopped ==
    /\ Becomes("stopOld", "dropOld")
    /\ stopper = "no"
    /\ UNCHANGED <<taskVars, sClient, attempt>> /\ HostOnly

DropOldClient ==
    /\ Becomes("dropOld", "ask")
    /\ sClient' = IF sClient = "none" THEN "none" ELSE "closed"
    /\ commands' = <<>> /\ events' = <<>>
    /\ UNCHANGED <<taskVars, attempt, flagVars, process, folderPaused, crashes, undisturbed>>

\* IsPortInUse: by the process, or by something else.  A server needs the port free; a
\* client that is to use this machine's process needs it taken.
Guards(role, inUse, local) ==
    /\ host = "ask"
    /\ process # "down" => inUse
    /\ host' = IF role = "Server" /\ inUse THEN "free"
               ELSE IF role = "Client" /\ local /\ ~inUse THEN "free"
               ELSE IF inUse THEN "try" ELSE "launch"
    /\ UNCHANGED <<taskVars, sClient, attempt>> /\ HostOnly

\* A client is made and connects, or not: the events it is greeted with say what the
\* process knows.
MakeClient(ok) ==
    /\ ok => process # "down"
    /\ sClient' = IF ok THEN "connected" ELSE "closed"
    /\ commands' = <<>>
    /\ \E greeting \in {<<>>} \cup {<<[type |-> "Connection", connected |-> TRUE],
                                      [type |-> "StateChanged", state |-> s]>> : s \in States} :
          events' = IF ok THEN greeting ELSE <<>>

TryRunning(ok) ==
    /\ Becomes("try", IF ok THEN "start" ELSE "launch")
    /\ MakeClient(ok)
    /\ UNCHANGED <<taskVars, attempt, flagVars, process, folderPaused, crashes, undisturbed>>

\* LaunchWorkspace, which may fail.
Launch ==
    /\ host = "launch"
    /\ \/ host' = "free" /\ UNCHANGED process
       \/ host' = "dropTried" /\ process' = IF process = "down" THEN "new" ELSE process
    /\ UNCHANGED <<taskVars, sClient, attempt, flagVars, commands, events, folderPaused,
                   crashes, undisturbed>>

DropTriedClient ==
    /\ Becomes("dropTried", "retry")
    /\ sClient' = IF sClient = "none" THEN "none" ELSE "closed"
    /\ UNCHANGED <<taskVars, attempt>> /\ HostOnly

\* Mutant: one attempt too many.
RetryOnceMore(ok) ==
    /\ host = "retry"
    /\ MakeClient(ok)
    /\ IF ok THEN host' = "start" /\ attempt' = 0
       ELSE IF attempt < Attempts THEN host' = "retry" /\ attempt' = attempt + 1
       ELSE host' = "free" /\ attempt' = 0
    /\ UNCHANGED <<taskVars, flagVars, process, folderPaused, crashes, undisturbed>>

\* Attempts, a second apart.
Retry(ok) ==
    /\ host = "retry"
    /\ MakeClient(ok)
    /\ IF ok THEN host' = "start" /\ attempt' = 0
       ELSE IF attempt + 1 < Attempts THEN host' = "retry" /\ attempt' = attempt + 1
       ELSE host' = "free" /\ attempt' = 0
    /\ UNCHANGED <<taskVars, flagVars, process, folderPaused, crashes, undisturbed>>

\* Mutant: connected, but no pings.
StartNothing ==
    /\ Becomes("start", "free")
    /\ UNCHANGED <<taskVars, sClient, attempt>> /\ HostOnly

StartPing ==
    /\ Becomes("start", "free")
    /\ Start
    /\ UNCHANGED <<sClient, attempt>> /\ HostOnly

-----------------------------------------------------------------------------
\* Workspace::Disconnect.  sPingTask and sClient are dereferenced unchecked: the host has
\* connected before.
DisconnectBegins ==
    /\ Becomes("free", "stopPing")
    /\ sClient # "none"
    /\ Stop
    /\ UNCHANGED <<sClient, attempt>> /\ HostOnly

PingStopped ==
    /\ Becomes("stopPing", "dropClient")
    /\ stopper = "no"
    /\ UNCHANGED <<taskVars, sClient, attempt>> /\ HostOnly

DropClient ==
    /\ Becomes("dropClient", "free")
    /\ sClient' = "closed"
    /\ commands' = <<>> /\ events' = <<>>
    /\ UNCHANGED <<taskVars, attempt, flagVars, process, folderPaused, crashes, undisturbed>>

-----------------------------------------------------------------------------
\* What Pause and Resume cannot know of: a command or a report that is lost, another
\* host's pause or resume, a folder that was paused when they first met it.
Disturb == undisturbed' = FALSE

\* Workspace::Pause and Resume: Send, then wait on the condition.  What is sent to a
\* client that is not connected stays in its queue.
Request(command, place) ==
    /\ Becomes("free", place)
    /\ sClient # "none"
    /\ Len(commands) < MaxCommands
    /\ IF sClient = "connected"
       THEN commands' = Append(commands, command) /\ UNCHANGED undisturbed
       ELSE Disturb /\ UNCHANGED commands
    /\ UNCHANGED <<taskVars, sClient, attempt, flagVars, process, events, folderPaused,
                   crashes>>

Pause == Request("pause", "pausing")
Resume == Request("resume", "resuming")

WaitIdle ==
    /\ Becomes("free", "waitingIdle")
    /\ UNCHANGED <<taskVars, sClient, attempt>> /\ HostOnly

\* Mutant: the wait for the pause takes any report for it.
ReturnsEarly ==
    /\ \/ Becomes("pausing", "paused")
       \/ Becomes("resuming", "resumed") /\ ~sPaused
       \/ Becomes("waitingIdle", "free") /\ sLastState = "idle" /\ sConnected
    /\ UNCHANGED <<taskVars, sClient, attempt>> /\ HostOnly

\* The waits end; "paused" and "resumed" are where Pause and Resume have just returned.
Returns ==
    /\ \/ Becomes("pausing", "paused") /\ sPaused
       \/ Becomes("resuming", "resumed") /\ ~sPaused
       \/ Becomes("waitingIdle", "free") /\ sLastState = "idle" /\ sConnected
    /\ UNCHANGED <<taskVars, sClient, attempt>> /\ HostOnly

GoOn ==
    /\ host \in {"paused", "resumed"}
    /\ host' = "free"
    /\ UNCHANGED <<taskVars, sClient, attempt>> /\ HostOnly

\* Mutant: the end of a pause is not noticed.
OnMessagePausedOnly ==
    /\ events # <<>>
    /\ events' = Tail(events)
    /\ LET e == Head(events)
       IN  /\ sPaused' = (sPaused \/ e.type = "Paused")
           /\ sLastState' = IF e.type = "StateChanged" THEN e.state ELSE sLastState
           /\ sConnected' = IF e.type = "Connection" THEN e.connected ELSE sConnected
    /\ UNCHANGED <<taskVars, clientVars, process, commands, folderPaused, crashes, undisturbed>>

\* Logic::OnMessage, on the network thread.
OnMessage ==
    /\ events # <<>>
    /\ events' = Tail(events)
    /\ LET e == Head(events)
       IN  /\ sPaused' = IF e.type \in {"Paused", "Resumed"} THEN e.type = "Paused" ELSE sPaused
           /\ sLastState' = IF e.type = "StateChanged" THEN e.state ELSE sLastState
           /\ sConnected' = IF e.type = "Connection" THEN e.connected ELSE sConnected
    /\ UNCHANGED <<taskVars, clientVars, process, commands, folderPaused, crashes, undisturbed>>

-----------------------------------------------------------------------------
\* The process and syncthing.  A report that is in the first poll is thrown away
\* (syncthing_manager.py:178).
Report(type) ==
    IF sClient = "connected" /\ process = "up"
    THEN events' = Append(events, [type |-> type]) /\ UNCHANGED undisturbed
    ELSE UNCHANGED events /\ Disturb

SetPaused(b) ==
    /\ folderPaused' = b
    /\ IF folderPaused = b THEN UNCHANGED <<events, undisturbed>>
       ELSE Report(IF b THEN "Paused" ELSE "Resumed")

\* Syncthing may also refuse, which is only logged.
HandleCommand ==
    /\ process # "down"
    /\ commands # <<>>
    /\ commands' = Tail(commands)
    /\ \/ SetPaused(Head(commands) = "pause")
       \/ Disturb /\ UNCHANGED <<folderPaused, events>>
    /\ UNCHANGED <<taskVars, clientVars, flagVars, process, crashes>>

FirstPoll ==
    /\ process = "new"
    /\ process' = "up"
    /\ UNCHANGED <<taskVars, clientVars, flagVars, commands, events, folderPaused, crashes,
                   undisturbed>>

\* Another host of the same process pauses or resumes.
OtherHost(b) ==
    /\ process = "up"
    /\ folderPaused # b
    /\ folderPaused' = b
    /\ Len(events) < MaxEvents
    /\ events' = IF sClient = "connected"
                 THEN Append(events, [type |-> IF b THEN "Paused" ELSE "Resumed"]) ELSE events
    /\ Disturb
    /\ UNCHANGED <<taskVars, clientVars, flagVars, process, commands, crashes>>

Notice ==
    /\ process = "up"
    /\ sClient = "connected"
    /\ Len(events) < MaxEvents
    /\ \E e \in Event \ [type : {"Paused", "Resumed"}] : events' = Append(events, e)
    /\ UNCHANGED <<taskVars, clientVars, flagVars, process, commands, folderPaused, crashes,
                   undisturbed>>

\* The process ends, or the connection to it does: what is on its way is lost.
Crash ==
    /\ crashes < MaxCrashes
    /\ process # "down"
    /\ crashes' = crashes + 1
    /\ process' \in {"down", process}
    /\ sClient' = IF sClient = "connected" THEN "closed" ELSE sClient
    /\ commands' = <<>> /\ events' = <<>>
    /\ IF commands = <<>> /\ events = <<>> THEN UNCHANGED undisturbed ELSE Disturb
    /\ UNCHANGED <<taskVars, host, attempt, flagVars, folderPaused>>

-----------------------------------------------------------------------------
HostStep ==
    \/ OldTaskStopped \/ DropOldClient \/ DropTriedClient \/ StartPing
    \/ \E role \in {"Server", "Client"}, inUse, local \in BOOLEAN : Guards(role, inUse, local)
    \/ \E ok \in BOOLEAN : TryRunning(ok) \/ Retry(ok)
    \/ Launch \/ PingStopped \/ DropClient \/ Returns \/ GoOn

PingStep == UNCHANGED <<clientVars, flagVars, processVars>>

Next ==
    \/ HostStep
    \/ ConnectBegins \/ DisconnectBegins \/ Pause \/ Resume \/ WaitIdle
    \/ StopStep /\ PingStep
    \/ \E t \in Threads : (RunStep(t) \/ IntervalOver(t)) /\ PingStep
    \/ OnMessage \/ HandleCommand \/ FirstPoll \/ Notice \/ Crash
    \/ \E b \in BOOLEAN : OtherHost(b)

\* Threads run, messages arrive.  An interval need never be over.
Fairness ==
    /\ WF_vars(HostStep)
    /\ WF_vars(StopStep /\ PingStep)
    /\ \A t \in Threads : WF_vars(RunStep(t) /\ PingStep)
    /\ WF_vars(OnMessage) /\ WF_vars(HandleCommand)

Spec == Init /\ [][Next]_vars /\ Fairness

-----------------------------------------------------------------------------
\* The task sends through sClient, which the host replaces in Connect without a lock
\* (Workspace.cpp:62, 96, 126): no thread of the task lives meanwhile, and there is a
\* client while one does.
Replacing == host \in (InConnect \ {"stopOld", "start"}) \cup {"dropClient"}
PingHasClient ==
    \A t \in Threads : Alive(t) => sClient # "none" /\ ~Replacing

\* One host thread that starts and stops the task never assigns over a thread it has not
\* joined, which would end the process, and never has two of them (BackgroundTask.cpp:39).
OneThread ==
    /\ ~terminated
    /\ \A t, u \in Threads : Alive(t) /\ Alive(u) => t = u

\* A host that is through with Connect and is connected is pinging: the process throws
\* out a client that does not.
ConnectedPings == host = "free" /\ sClient = "connected" => mRunning

\* When Pause has returned the folder is paused, when Resume has it is not (Kit.h:64),
\* unless something they cannot know of happened.
PauseMeansPaused ==
    undisturbed => /\ host = "paused" => folderPaused
                   /\ host = "resumed" => ~folderPaused

\* Stop returns although no interval is ever over: the notification is not lost between
\* the thread's look at mRunning and its wait (BackgroundTask.cpp:70).
StopReturns == stopper # "no" ~> stopper = "no"

\* Pause and Resume wait without a time limit, and return unless something was lost.
WaitsEnd == host \in {"pausing", "resuming"} ~> host \notin {"pausing", "resuming"} \/ ~undisturbed
=============================================================================
