--------------------------- MODULE WorkspaceProofs ---------------------------
(***************************************************************************)
(* What WorkspaceClient promises about the ping task and the client it     *)
(* pings, for any number of threads, attempts and crashes.                 *)
(*                                                                         *)
(* The argument: between Stop and Start no thread of the task lives,       *)
(* because Stop returns after Join; Connect replaces the client only       *)
(* there, and is through with a connected client only after Start.  What   *)
(* Pause and Resume mean rests on what is on the way between host and      *)
(* process, at the end of the module.                                      *)
(***************************************************************************)
EXTENDS WorkspaceClient, TLAPS

\* The places of Connect where the client is replaced: the task is stopped.
Stopped == (InConnect \ {"stopOld"}) \cup {"dropClient"}

\* A thread that can be joined exists while the task runs, and until Stop returns.
ThreadIsJoined ==
    /\ stopper = "no" => (mRunning <=> mThread # 0)
    /\ \A t \in Threads : Alive(t) => t = mThread
    /\ ~terminated

\* Stop is only under way where Connect and Disconnect wait for it.
StopIsWaitedFor ==
    /\ stopper # "no" => host \in {"stopOld", "stopPing"}
    /\ host \in Stopped \cup {"stopOld", "stopPing"} => ~mRunning

\* What is pinged.
ClientOfTask ==
    /\ mThread # 0 => sClient # "none"
    /\ host = "start" => sClient # "none"
    /\ host \in Stopped \ {"dropOld", "start", "dropClient"} => sClient # "connected"
    /\ host \in Waiting \cup {"free", "paused", "resumed"} => (sClient = "connected" => mRunning)

Inv == TypeOK /\ ThreadIsJoined /\ StopIsWaitedFor /\ ClientOfTask

-----------------------------------------------------------------------------
(***************************************************************************)
(* Type correctness, part by part: an action leaves most parts alone.      *)
(***************************************************************************)
HostTypeOK ==
    /\ host \in InConnect \cup InDisconnect \cup Waiting \cup {"free", "paused", "resumed"}
    /\ sClient \in {"none", "connected", "closed"}
    /\ attempt \in 0..(Attempts - 1)

FlagTypeOK == sPaused \in BOOLEAN /\ sConnected \in BOOLEAN /\ sLastState \in States \cup {""}

ProcessTypeOK ==
    /\ process \in {"down", "new", "up"}
    /\ commands \in Seq({"pause", "resume"})
    /\ events \in Seq(Event)
    /\ folderPaused \in BOOLEAN
    /\ crashes \in 0..MaxCrashes
    /\ undisturbed \in BOOLEAN

\* The type invariant is that of the task, the host, the flags and the process.
LEMMA TypeParts ==
    /\ TypeOK <=> TaskTypeOK /\ HostTypeOK /\ FlagTypeOK /\ ProcessTypeOK
    /\ TypeOK' <=> TaskTypeOK' /\ HostTypeOK' /\ FlagTypeOK' /\ ProcessTypeOK'
BY Zenon DEF TypeOK, HostTypeOK, FlagTypeOK, ProcessTypeOK

\* A part that an action leaves alone keeps its type.
LEMMA TaskUnchanged == TaskTypeOK /\ UNCHANGED taskVars => TaskTypeOK'
BY DEF TaskTypeOK, taskVars

\* The same of the flags, what the host has heard of the process.
LEMMA FlagsUnchanged == FlagTypeOK /\ UNCHANGED flagVars => FlagTypeOK'
BY DEF FlagTypeOK, flagVars

\* The same of the process and what is on its way from and to it.
LEMMA ProcessUnchanged == ProcessTypeOK /\ UNCHANGED processVars => ProcessTypeOK'
BY DEF ProcessTypeOK, processVars

\* Nothing on its way.
LEMMA EmptyType == <<>> \in Seq({"pause", "resume"}) /\ <<>> \in Seq(Event)
OBVIOUS

\* The steps of the host's thread that touch neither the flags nor the process.
HostAlone == OldTaskStopped \/ PingStopped \/ Returns \/ GoOn \/ StartPing
             \/ DisconnectBegins \/ ConnectBegins \/ WaitIdle
             \/ \E role \in {"Server", "Client"}, inUse, local \in BOOLEAN :
                   Guards(role, inUse, local)

\* Such a step changes the task or the host only.
LEMMA TypeHostAlone == ASSUME TypeOK, HostAlone PROVE TypeOK'
<1> TaskTypeOK /\ HostTypeOK /\ FlagTypeOK /\ ProcessTypeOK
  BY TypeParts
<1>1. UNCHANGED <<flagVars, processVars>>
  BY Zenon DEF HostAlone, OldTaskStopped, PingStopped, Returns, GoOn, StartPing,
     DisconnectBegins, ConnectBegins, WaitIdle, Guards, HostOnly
<1>2. TaskTypeOK'
  <2>1. CASE StartPing
    <3>1. CASE mRunning
      BY <2>1, <3>1 DEF StartPing, Start, TaskTypeOK
    <3>2. CASE ~mRunning
      <4>1. PICK t \in Threads : mRunning' = TRUE /\ mThread' = t
                                 /\ thread' = [thread EXCEPT ![t] = "checking"]
                                 /\ terminated' = (terminated \/ mThread # 0)
                                 /\ stopper' = stopper
        BY <2>1, <3>2 DEF StartPing, Start
      <4>2. mThread' \in 0..MaxThreads
        BY <4>1, MaxThreadsAssumption DEF Threads
      <4> QED
        BY <4>1, <4>2 DEF TaskTypeOK
    <3> QED
      BY <3>1, <3>2
  <2>2. CASE ConnectBegins \/ DisconnectBegins
    BY <2>2 DEF ConnectBegins, DisconnectBegins, Stop, TaskTypeOK
  <2>3. CASE UNCHANGED taskVars
    BY <2>3, TaskUnchanged
  <2> QED
    BY <2>1, <2>2, <2>3 DEF HostAlone, OldTaskStopped, PingStopped, Returns, GoOn,
       WaitIdle, Guards
<1>3. UNCHANGED <<sClient, attempt>>
  BY DEF HostAlone, OldTaskStopped, PingStopped, Returns, GoOn, StartPing,
     DisconnectBegins, ConnectBegins, WaitIdle, Guards
<1>4. host' \in InConnect \cup InDisconnect \cup Waiting \cup {"free", "paused", "resumed"}
  BY DEF HostAlone, OldTaskStopped, PingStopped, Returns, GoOn, StartPing,
     DisconnectBegins, ConnectBegins, WaitIdle, Guards, Becomes, InConnect,
     InDisconnect, Waiting
<1>5. HostTypeOK'
  BY <1>3, <1>4 DEF HostTypeOK
<1> QED
  BY <1>1, <1>2, <1>5, TypeParts, FlagsUnchanged, ProcessUnchanged

\* A new client in place of the old one (Workspace.cpp:126).
LEMMA TypeMakeClient ==
    ASSUME NEW ok \in BOOLEAN, MakeClient(ok)
    PROVE  /\ sClient' \in {"connected", "closed"}
           /\ commands' = <<>>
           /\ events' \in Seq(Event)
<1>1. \A s \in States : /\ [type |-> "Connection", connected |-> TRUE] \in Event
                        /\ [type |-> "StateChanged", state |-> s] \in Event
  BY DEF Event
<1>2. \A s \in States :
         <<[type |-> "Connection", connected |-> TRUE],
           [type |-> "StateChanged", state |-> s]>> \in Seq(Event)
  <2> TAKE s \in States
  <2> QED
    BY <1>1
<1> QED
  BY <1>2, EmptyType DEF MakeClient

\* An attempt to connect to a process that runs, and to the one launched (Workspace.cpp:96, 126).
LEMMA TypeTry ==
    ASSUME TypeOK, NEW ok \in BOOLEAN, TryRunning(ok) \/ Retry(ok)
    PROVE  TypeOK'
<1> TaskTypeOK /\ HostTypeOK /\ FlagTypeOK /\ ProcessTypeOK
  BY TypeParts
<1>1. MakeClient(ok)
  BY DEF TryRunning, Retry
<1>2. /\ sClient' \in {"connected", "closed"}
      /\ commands' = <<>> /\ events' \in Seq(Event)
  BY <1>1, TypeMakeClient
<1>3. host' \in InConnect \cup {"free"} /\ attempt' \in 0..(Attempts - 1)
  BY BoundsAssumption DEF HostTypeOK, TryRunning, Retry, Becomes, InConnect
<1>4. UNCHANGED <<taskVars, flagVars, process, folderPaused, crashes, undisturbed>>
  BY DEF TryRunning, Retry
<1>5. HostTypeOK' /\ ProcessTypeOK'
  BY <1>2, <1>3, <1>4 DEF HostTypeOK, ProcessTypeOK
<1> QED
  BY <1>4, <1>5, TypeParts, TaskUnchanged, FlagsUnchanged

\* The steps of the host's thread that drop the client, launch the process or send to it.
HostToProcess == DropOldClient \/ DropTriedClient \/ DropClient \/ Launch \/ Pause \/ Resume

\* The steps of the host that talk to the process or drop the client.
LEMMA TypeHostToProcess == ASSUME TypeOK, HostToProcess PROVE TypeOK'
<1> TaskTypeOK /\ HostTypeOK /\ FlagTypeOK /\ ProcessTypeOK
  BY TypeParts
<1>1. UNCHANGED <<taskVars, attempt, flagVars, crashes, folderPaused>>
  BY Zenon DEF HostToProcess, DropOldClient, DropTriedClient, DropClient, Launch, Pause, Resume,
     Request, HostOnly, processVars
<1>2. host' \in InConnect \cup InDisconnect \cup Waiting \cup {"free", "paused", "resumed"}
  BY DEF HostToProcess, DropOldClient, DropTriedClient, DropClient, Launch, Pause, Resume,
     Request, Becomes, InConnect, Waiting
<1>3. sClient' \in {"none", "connected", "closed"}
  BY DEF HostToProcess, DropOldClient, DropTriedClient, DropClient, Launch, Pause, Resume,
     Request, HostTypeOK
<1>4. process' \in {"down", "new", "up"} /\ undisturbed' \in BOOLEAN
  BY DEF HostToProcess, DropOldClient, DropTriedClient, DropClient, Launch, Pause, Resume,
     Request, HostOnly, processVars, Disturb, ProcessTypeOK
<1>5. commands' \in Seq({"pause", "resume"}) /\ events' \in Seq(Event)
  <2>1. CASE DropOldClient \/ DropTriedClient \/ DropClient \/ Launch
    BY Zenon, <2>1, EmptyType DEF DropOldClient, DropTriedClient, DropClient, Launch, HostOnly,
       processVars, ProcessTypeOK
  <2>2. ASSUME NEW command \in {"pause", "resume"}, NEW place, Request(command, place)
        PROVE  commands' \in Seq({"pause", "resume"}) /\ events' \in Seq(Event)
    <3>1. commands' \in {commands, Append(commands, command)} /\ events' = events
      BY <2>2, Zenon DEF Request
    <3>2. QED
      BY <2>2, <3>1 DEF ProcessTypeOK
  <2> QED
    BY <2>1, <2>2 DEF HostToProcess, Pause, Resume
<1>6. HostTypeOK' /\ ProcessTypeOK'
  BY <1>1, <1>2, <1>3, <1>4, <1>5 DEF HostTypeOK, ProcessTypeOK
<1> QED
  BY <1>1, <1>6, TypeParts, TaskUnchanged, FlagsUnchanged

\* The steps of Stop and of the threads (BackgroundTask.cpp:47, :64).
LEMMA TypeTask ==
    ASSUME TypeOK, PingStep,
           StopStep \/ \E t \in Threads : RunStep(t) \/ IntervalOver(t)
    PROVE  TypeOK'
<1> TaskTypeOK /\ HostTypeOK /\ FlagTypeOK /\ ProcessTypeOK
  BY TypeParts
<1>1. TaskTypeOK'
  <2>1. CASE StopStep
    <3>1. CASE Notify
      BY <3>1 DEF TaskTypeOK, Notify
    <3>2. CASE Join
      BY <3>2, MaxThreadsAssumption DEF TaskTypeOK, Join
    <3> QED
      BY <2>1, <3>1, <3>2 DEF StopStep
  <2>2. ASSUME NEW t \in Threads, RunStep(t) \/ IntervalOver(t) PROVE TaskTypeOK'
    BY <2>2 DEF TaskTypeOK, RunStep, IntervalOver, IsRunning, TaskDone, WaitFor,
                Wake, GoTo
  <2> QED
    BY <2>1, <2>2
<1>2. HostTypeOK'
  BY DEF HostTypeOK, PingStep, clientVars
<1> QED
  BY <1>1, <1>2, TypeParts, FlagsUnchanged, ProcessUnchanged DEF PingStep

\* The steps of the network thread, the process and syncthing.
FromProcess == OnMessage \/ HandleCommand \/ FirstPoll \/ Notice \/ Crash
               \/ \E b \in BOOLEAN : OtherHost(b)

\* The messages to the host, and the process with its failures.
LEMMA TypeFromProcess == ASSUME TypeOK, FromProcess PROVE TypeOK'
<1> TaskTypeOK /\ HostTypeOK /\ FlagTypeOK /\ ProcessTypeOK
  BY TypeParts
<1>1. /\ UNCHANGED <<taskVars, host, attempt>>
      /\ sClient' \in {"none", "connected", "closed"}
  BY DEF FromProcess, OnMessage, HandleCommand, FirstPoll, Notice, Crash, OtherHost,
     clientVars, HostTypeOK
<1>2. FlagTypeOK'
  <2>1. CASE OnMessage
    <3>1. Head(events) \in Event
      BY <2>1 DEF OnMessage, ProcessTypeOK
    <3>2. /\ Head(events).type = "StateChanged" => Head(events).state \in States
          /\ Head(events).type = "Connection" => Head(events).connected \in BOOLEAN
      BY <3>1 DEF Event
    <3> QED
      BY <2>1, <3>2 DEF OnMessage, FlagTypeOK
  <2>2. CASE UNCHANGED flagVars
    BY <2>2, FlagsUnchanged
  <2> QED
    BY <2>1, <2>2 DEF FromProcess, HandleCommand, FirstPoll, Notice, Crash, OtherHost
<1>3. ProcessTypeOK'
  <2> USE DEF ProcessTypeOK
  <2>1. \A b \in BOOLEAN : /\ [type |-> IF b THEN "Paused" ELSE "Resumed"] \in Event
                           /\ [type |-> "Paused"] \in Event /\ [type |-> "Resumed"] \in Event
    BY DEF Event
  <2>2. CASE OnMessage
    BY <2>2 DEF OnMessage
  <2>3. CASE HandleCommand
    <3>1. commands' \in Seq({"pause", "resume"})
      BY <2>3 DEF HandleCommand
    <3>2. ASSUME NEW b \in BOOLEAN, SetPaused(b)
          PROVE  events' \in Seq(Event) /\ undisturbed' \in BOOLEAN /\ folderPaused' \in BOOLEAN
      <4>1. events' = events \/ \E e \in Event : events' = Append(events, e)
        BY Zenon, <2>1, <3>2 DEF SetPaused, Report
      <4>2. undisturbed' = undisturbed \/ undisturbed' = FALSE
        BY Zenon, <3>2 DEF SetPaused, Report, Disturb
      <4>3. folderPaused' = b
        BY <3>2 DEF SetPaused
      <4>4. events' \in Seq(Event)
        BY <4>1
      <4> QED
        BY Zenon, <4>2, <4>3, <4>4
    <3> QED
      BY <2>3, <3>1, <3>2 DEF HandleCommand, Disturb
  <2>4. CASE FirstPoll
    BY <2>4 DEF FirstPoll
  <2>5. CASE Crash
    <3>1. crashes' \in 0..MaxCrashes
      BY <2>5, BoundsAssumption DEF Crash
    <3> QED
      BY Zenon, <2>5, <3>1, EmptyType DEF Crash, Disturb
  <2>6. CASE Notice
    BY <2>6 DEF Notice
  <2>7. ASSUME NEW b \in BOOLEAN, OtherHost(b) PROVE ProcessTypeOK'
    <3>1. events' \in Seq(Event)
      BY <2>1, <2>7 DEF OtherHost
    <3> QED
      BY <2>7, <3>1 DEF OtherHost, Disturb
  <2> QED
    BY <2>2, <2>3, <2>4, <2>5, <2>6, <2>7 DEF FromProcess
<1>4. HostTypeOK'
  BY <1>1 DEF HostTypeOK
<1> QED
  BY <1>1, <1>2, <1>3, <1>4, TypeParts, TaskUnchanged

\* Next, by what an action leaves alone.
LEMMA NextCases ==
    ASSUME [Next]_vars
    PROVE  \/ HostAlone \/ HostToProcess \/ FromProcess
           \/ \E ok \in BOOLEAN : TryRunning(ok) \/ Retry(ok)
           \/ PingStep /\ (StopStep \/ \E t \in Threads : RunStep(t) \/ IntervalOver(t))
           \/ UNCHANGED <<taskVars, clientVars, flagVars, processVars>>
BY Zenon DEF Next, HostStep, HostAlone, HostToProcess, FromProcess, vars

\* Type correctness is inductive by itself.
LEMMA TypeStep == TypeOK /\ [Next]_vars => TypeOK'
<1>1. TypeOK /\ UNCHANGED <<taskVars, clientVars, flagVars, processVars>> => TypeOK'
  BY TypeParts, TaskUnchanged, FlagsUnchanged, ProcessUnchanged DEF HostTypeOK, clientVars
<1> QED
  BY Zenon, <1>1, NextCases, TypeHostAlone, TypeHostToProcess, TypeFromProcess, TypeTry, TypeTask

\* It holds at the start.
LEMMA TypeInit == Init => TypeOK
<1> SUFFICES ASSUME Init PROVE TypeOK
  OBVIOUS
<1>1. TaskTypeOK
  <2>1. TaskInit
    BY DEF Init
  <2>2. mThread = 0 /\ thread = [t \in Threads |-> "new"] /\ stopper = "no"
    BY Zenon, <2>1 DEF TaskInit
  <2>3. mThread \in 0..MaxThreads
    BY <2>2, MaxThreadsAssumption
  <2>4. mRunning \in BOOLEAN /\ terminated \in BOOLEAN
    BY Zenon, <2>1 DEF TaskInit
  <2> QED
    BY Zenon, <2>2, <2>3, <2>4 DEF TaskTypeOK
<1>2. HostTypeOK
  <2>1. host = "free" /\ sClient = "none" /\ attempt = 0
    BY Zenon DEF Init
  <2> QED
    BY <2>1, BoundsAssumption DEF HostTypeOK
<1>3. FlagTypeOK
  BY Zenon DEF Init, FlagTypeOK
<1>4. ProcessTypeOK
  <2>1. commands = <<>> /\ events = <<>> /\ crashes = 0
    BY Zenon DEF Init
  <2>2. process \in {"down", "new", "up"} /\ folderPaused \in BOOLEAN
        /\ undisturbed \in BOOLEAN
    BY Zenon DEF Init
  <2>3. commands \in Seq({"pause", "resume"}) /\ events \in Seq(Event)
        /\ crashes \in 0..MaxCrashes
    BY <2>1, BoundsAssumption
  <2> QED
    BY <2>2, <2>3 DEF ProcessTypeOK
<1> QED
  BY <1>1, <1>2, <1>3, <1>4, TypeParts

\* Every variable keeps its type: of the host (Workspace.cpp:52), the task
\* (BackgroundTask.cpp:28), and what the process sends.
THEOREM TypeCorrect == Spec => []TypeOK
BY TypeInit, TypeStep, PTL DEF Spec

(***************************************************************************)
(* The invariant.  What it says of the task is disturbed by Start, Stop,   *)
(* Join and the thread; what it says of the client by the host and Crash.  *)
(***************************************************************************)
LEMMA InvInit == Init => Inv
<1> SUFFICES ASSUME Init PROVE Inv
  OBVIOUS
<1>1. TypeOK
  BY TypeInit
<1>2. /\ ~mRunning /\ mThread = 0 /\ ~terminated /\ stopper = "no"
      /\ \A t \in Threads : thread[t] = "new"
      /\ host = "free" /\ sClient = "none"
  BY DEF Init, TaskInit
<1> QED
  BY <1>1, <1>2 DEF Inv, ThreadIsJoined, StopIsWaitedFor, ClientOfTask, Alive, Stopped,
     InConnect, Waiting

\* Nothing of the task, the host or the client changes.
LEMMA InvElsewhere ==
    ASSUME Inv, TypeOK', UNCHANGED <<taskVars, host, sClient>>
    PROVE  Inv'
<1>1. ThreadIsJoined'
  BY DEF Inv, ThreadIsJoined, Alive, taskVars
<1> QED
  BY <1>1 DEF Inv, StopIsWaitedFor, ClientOfTask, taskVars

\* The host goes on, and the task is left alone.
LEMMA InvHostAlone ==
    ASSUME Inv, TypeOK', HostAlone
    PROVE  Inv'
<1> USE DEF Inv, Becomes, Stopped, InConnect, InDisconnect, Waiting
<1>1. CASE StartPing
  <2>1. stopper = "no" /\ ~mRunning /\ mThread = 0 /\ sClient # "none"
        /\ \A t \in Threads : ~Alive(t)
    BY <1>1, MaxThreadsAssumption
       DEF StartPing, ThreadIsJoined, StopIsWaitedFor, ClientOfTask, Threads
  <2>2. PICK t \in Threads : /\ mRunning' = TRUE /\ mThread' = t
                             /\ thread' = [thread EXCEPT ![t] = "checking"]
                             /\ terminated' = (terminated \/ mThread # 0)
    BY <1>1, <2>1 DEF StartPing, Start
  <2>3. stopper' = "no" /\ host' = "free" /\ sClient' = sClient
    BY <1>1, <2>1 DEF StartPing, Start
  <2>4. thread \in [Threads -> {"new", "checking", "task", "locking", "waiting", "woken", "done"}]
    BY DEF TypeOK, TaskTypeOK
  <2>5. \A u \in Threads : Alive(u)' => u = t
    BY <2>1, <2>2, <2>4 DEF Alive
  <2>6. t # 0
    BY MaxThreadsAssumption DEF Threads
  <2>7. ThreadIsJoined'
    BY <2>1, <2>2, <2>3, <2>5, <2>6 DEF ThreadIsJoined
  <2> QED
    BY <2>1, <2>2, <2>3, <2>7 DEF StopIsWaitedFor, ClientOfTask
<1>2. CASE ConnectBegins \/ DisconnectBegins
  <2>1. /\ mRunning' = FALSE /\ stopper = "no"
        /\ stopper' = IF mRunning THEN "notifying" ELSE "no"
        /\ UNCHANGED <<mThread, thread, terminated, sClient>>
        /\ host' \in {"stopOld", "stopPing"}
    BY <1>2 DEF ConnectBegins, DisconnectBegins, Stop
  <2>2. ThreadIsJoined'
    BY <2>1 DEF ThreadIsJoined, Alive
  <2> QED
    BY <2>1, <2>2 DEF StopIsWaitedFor, ClientOfTask
<1>3. CASE UNCHANGED taskVars
  <2>1. ThreadIsJoined'
    BY <1>3 DEF ThreadIsJoined, Alive, taskVars
  <2>2. UNCHANGED <<mRunning, mThread, stopper>>
    BY <1>3 DEF taskVars
  <2>3. CASE OldTaskStopped
    BY <2>1, <2>2, <2>3 DEF OldTaskStopped, StopIsWaitedFor, ClientOfTask
  <2>4. CASE PingStopped
    BY <2>1, <2>2, <2>4 DEF PingStopped, StopIsWaitedFor, ClientOfTask
  <2>5. CASE Returns \/ GoOn \/ WaitIdle
    BY <2>1, <2>2, <2>5 DEF Returns, GoOn, WaitIdle, StopIsWaitedFor, ClientOfTask
  <2>6. ASSUME NEW role \in {"Server", "Client"}, NEW inUse \in BOOLEAN,
               NEW local \in BOOLEAN, Guards(role, inUse, local)
        PROVE  Inv'
    <3>1. host = "ask" /\ host' \in {"free", "try", "launch"} /\ sClient' = sClient
      BY <2>6 DEF Guards
    <3> QED
      BY <2>1, <2>2, <3>1 DEF StopIsWaitedFor, ClientOfTask
  <2> QED
    BY <1>3, <2>3, <2>4, <2>5, <2>6, <1>1, <1>2 DEF HostAlone
<1> QED
  BY <1>1, <1>2, <1>3 DEF HostAlone, OldTaskStopped, PingStopped, Returns, GoOn, WaitIdle, Guards

\* The client is made, dropped or used while the task is left alone.
LEMMA InvHostClient ==
    ASSUME Inv, TypeOK', HostToProcess \/ \E ok \in BOOLEAN : TryRunning(ok) \/ Retry(ok)
    PROVE  Inv'
<1> USE DEF Inv, Becomes, Stopped, InConnect, InDisconnect, Waiting
<1>1. UNCHANGED taskVars
  BY Zenon DEF HostToProcess, DropOldClient, DropTriedClient, DropClient, Launch, Pause, Resume,
     Request, TryRunning, Retry
<1>2. ThreadIsJoined'
  BY <1>1 DEF ThreadIsJoined, Alive, taskVars
<1>3. UNCHANGED <<mRunning, mThread, stopper>>
  BY <1>1 DEF taskVars
<1>4. CASE DropOldClient
  BY <1>2, <1>3, <1>4 DEF DropOldClient, StopIsWaitedFor, ClientOfTask
<1>5. CASE DropTriedClient
  BY <1>2, <1>3, <1>5 DEF DropTriedClient, StopIsWaitedFor, ClientOfTask
<1>6. CASE DropClient
  BY <1>2, <1>3, <1>6 DEF DropClient, StopIsWaitedFor, ClientOfTask
<1>7. CASE Launch
  BY <1>2, <1>3, <1>7 DEF Launch, StopIsWaitedFor, ClientOfTask
<1>8. CASE Pause \/ Resume
  BY <1>2, <1>3, <1>8 DEF Pause, Resume, Request, StopIsWaitedFor, ClientOfTask
<1>9. ASSUME NEW ok \in BOOLEAN, TryRunning(ok) \/ Retry(ok) PROVE Inv'
  <2>1. sClient' = IF ok THEN "connected" ELSE "closed"
    BY <1>9 DEF TryRunning, Retry, MakeClient
  <2>2. host \in {"try", "retry"} /\ host' \in {"start", "launch", "retry", "free"}
        /\ (ok <=> host' = "start")
    BY <1>9 DEF TryRunning, Retry
  <2> QED
    BY <1>2, <1>3, <2>1, <2>2 DEF StopIsWaitedFor, ClientOfTask
<1> QED
  BY <1>4, <1>5, <1>6, <1>7, <1>8, <1>9 DEF HostToProcess

\* The steps of the task's thread and of Stop.
LEMMA InvTask ==
    ASSUME Inv, TypeOK', PingStep,
           StopStep \/ \E t \in Threads : RunStep(t) \/ IntervalOver(t)
    PROVE  Inv'
<1> USE DEF Inv
<1>1. UNCHANGED <<host, sClient>>
  BY DEF PingStep, clientVars
<1>2. thread \in [Threads -> {"new", "checking", "task", "locking", "waiting", "woken", "done"}]
  BY DEF TypeOK, TaskTypeOK
<1>3. CASE Notify
  <2>1. \A t \in Threads : Alive(t)' => Alive(t)
    BY <1>2, <1>3 DEF Notify, Alive
  <2>2. UNCHANGED <<mRunning, mThread, terminated>> /\ stopper = "notifying" /\ stopper' = "joining"
    BY <1>3 DEF Notify
  <2>3. ThreadIsJoined'
    BY <2>1, <2>2 DEF ThreadIsJoined
  <2> QED
    BY <1>1, <2>2, <2>3 DEF StopIsWaitedFor, ClientOfTask
<1>4. CASE Join
  <2>1. /\ stopper = "joining" /\ stopper' = "no" /\ mThread' = 0
        /\ UNCHANGED <<mRunning, thread, terminated>> /\ ~mRunning
    BY <1>4 DEF Join, StopIsWaitedFor
  <2>2. \A t \in Threads : ~Alive(t)
    <3> SUFFICES ASSUME NEW t \in Threads, Alive(t) PROVE FALSE
      OBVIOUS
    <3>1. t = mThread /\ mThread # 0
      BY MaxThreadsAssumption DEF ThreadIsJoined, Threads
    <3> QED
      BY <1>4, <3>1 DEF Join, Alive
  <2>3. ThreadIsJoined'
    BY <2>1, <2>2 DEF ThreadIsJoined, Alive
  <2> QED
    BY <1>1, <2>1, <2>3 DEF StopIsWaitedFor, ClientOfTask
<1>5. ASSUME NEW t \in Threads, RunStep(t) \/ IntervalOver(t) PROVE Inv'
  <2>1. Alive(t) /\ UNCHANGED <<mRunning, mThread, stopper, terminated>>
    BY <1>5 DEF RunStep, IntervalOver, IsRunning, TaskDone, WaitFor, Wake, GoTo, Alive
  <2>2. \A u \in Threads : Alive(u)' => Alive(u)
    <3>1. PICK place : thread' = [thread EXCEPT ![t] = place]
      BY <1>5 DEF RunStep, IntervalOver, IsRunning, TaskDone, WaitFor, Wake, GoTo
    <3> QED
      BY <1>2, <2>1, <3>1 DEF Alive
  <2>3. ThreadIsJoined'
    BY <2>1, <2>2 DEF ThreadIsJoined
  <2> QED
    BY <1>1, <2>1, <2>3 DEF StopIsWaitedFor, ClientOfTask
<1> QED
  BY <1>3, <1>4, <1>5 DEF StopStep

\* The connection is lost, or a message goes its way.
LEMMA InvFromProcess ==
    ASSUME Inv, TypeOK', FromProcess
    PROVE  Inv'
<1>1. UNCHANGED <<taskVars, host>> /\ sClient' \in {sClient, "closed"}
      /\ (sClient = "none" <=> sClient' = "none")
  BY DEF FromProcess, OnMessage, HandleCommand, FirstPoll, Notice, Crash, OtherHost, clientVars
<1>2. ThreadIsJoined'
  BY <1>1 DEF Inv, ThreadIsJoined, Alive, taskVars
<1>3. UNCHANGED <<mRunning, mThread, stopper>>
  BY <1>1 DEF taskVars
<1> QED
  BY <1>1, <1>2, <1>3 DEF Inv, StopIsWaitedFor, ClientOfTask

\* Every step keeps the invariant.
LEMMA InvStep == Inv /\ [Next]_vars => Inv'
<1>1. ASSUME Inv, UNCHANGED <<taskVars, clientVars, flagVars, processVars>>, TypeOK' PROVE Inv'
  BY Zenon, <1>1, InvElsewhere DEF clientVars
<1>2. Inv => TypeOK
  BY DEF Inv
<1> QED
  BY Zenon, <1>1, <1>2, TypeStep, NextCases, InvHostAlone, InvHostClient, InvTask, InvFromProcess

\* Threads that live can be joined, Stop is waited for by the host, and the client is there
\* while the task is (BackgroundTask.cpp:39, Workspace.cpp:52).
THEOREM Invariance == Spec => []Inv
BY InvInit, InvStep, PTL DEF Spec

\* A host's Start never assigns over a thread that was not joined, and no two threads of
\* the task live at a time (BackgroundTask.cpp:39).
THEOREM NeverTwoThreads == Spec => []OneThread
<1>1. Inv => OneThread
  BY DEF Inv, ThreadIsJoined, OneThread
<1> QED
  BY <1>1, Invariance, PTL

\* While the thread lives that pings sClient there is a client, and the host is not at a
\* place where it replaces it (Workspace.cpp:62, 96, 126).
THEOREM PingedClientStays == Spec => []PingHasClient
<1>1. Inv => PingHasClient
  <2> SUFFICES ASSUME Inv, NEW t \in Threads, Alive(t) PROVE sClient # "none" /\ ~Replacing
    BY DEF PingHasClient
  <2>1. mThread = t /\ mThread # 0
    BY MaxThreadsAssumption DEF Inv, ThreadIsJoined, Threads
  <2>2. mRunning \/ stopper # "no"
    BY <2>1 DEF Inv, ThreadIsJoined
  <2>3. host \notin Stopped
    BY <2>2 DEF Inv, StopIsWaitedFor, Stopped, InConnect
  <2> QED
    BY <2>1, <2>3 DEF Inv, ClientOfTask, Replacing, Stopped, InConnect
<1> QED
  BY <1>1, Invariance, PTL

\* A host that is through with Connect and connected is pinging (Workspace.cpp:143).
THEOREM ConnectedHostPings == Spec => []ConnectedPings
<1>1. Inv => ConnectedPings
  BY DEF Inv, ClientOfTask, ConnectedPings
<1> QED
  BY <1>1, Invariance, PTL

-----------------------------------------------------------------------------
(***************************************************************************)
(* Pause and Resume.  As long as nothing happens that they cannot know of, *)
(* what the host believes, what syncthing's configuration says and what is *)
(* on the way between them agree, or the last command is still on its way  *)
(* there, or its report on the way back.                                   *)
(***************************************************************************)
Command(b) == IF b THEN "pause" ELSE "resume"
Reports(e) == e.type \in {"Paused", "Resumed"}

Silent == \A i \in DOMAIN events : ~Reports(events[i])

Agreed ==
    /\ folderPaused = sPaused
    /\ Silent
    /\ \A i \in DOMAIN commands : commands[i] = Command(sPaused)

Asked(b) ==
    /\ folderPaused # b
    /\ Silent
    /\ commands # <<>>
    /\ \A i \in DOMAIN commands : commands[i] = Command(i = Len(commands) <=> b)

Reported(b) ==
    /\ folderPaused = b
    /\ commands = <<>>
    /\ \E i \in DOMAIN events :
          /\ events[i].type = IF b THEN "Paused" ELSE "Resumed"
          /\ \A j \in DOMAIN events : j # i => ~Reports(events[j])

UnderWay(b) == sPaused # b /\ (Asked(b) \/ Reported(b))

Asking == {"pausing", "resuming"}

Believed ==
    undisturbed =>
        /\ host \notin Asking => Agreed
        /\ host \in Asking => Agreed \/ UnderWay(host = "pausing")
        /\ host = "paused" => sPaused
        /\ host = "resumed" => ~sPaused

\* What the parts of the belief read.
LEMMA BelievedAlone ==
    ASSUME Believed, UNCHANGED <<sPaused, folderPaused, commands, events, host, undisturbed>>
    PROVE  Believed'
BY DEF Believed, Agreed, UnderWay, Asked, Reported, Silent, Reports

\* At the start nothing is on its way.
LEMMA BelievedInit == Init => Believed
<1> SUFFICES ASSUME Init PROVE Believed
  OBVIOUS
<1>1. /\ host = "free" /\ commands = <<>> /\ events = <<>> /\ sPaused = FALSE
      /\ folderPaused \in BOOLEAN /\ undisturbed = ~folderPaused
  BY Zenon DEF Init
<1>2. undisturbed => Agreed
  <2>1. DOMAIN events = {} /\ DOMAIN commands = {}
    BY <1>1
  <2>2. undisturbed => folderPaused = sPaused
    BY <1>1
  <2>3. QED
    BY <2>1, <2>2, Zenon DEF Agreed, Silent
<1> QED
  BY <1>1, <1>2 DEF Believed, Asking

\* The host goes on; a wait that ends finds what it has waited for.
LEMMA BelievedHost ==
    ASSUME TypeOK, Believed, HostAlone
    PROVE  Believed'
<1>1. UNCHANGED <<sPaused, folderPaused, commands, events, undisturbed>>
  BY Zenon DEF HostAlone, OldTaskStopped, PingStopped, Returns, GoOn, StartPing,
     DisconnectBegins, ConnectBegins, WaitIdle, Guards, HostOnly, flagVars, processVars
<1>2. (Agreed <=> Agreed') /\ host' \notin Asking
      /\ (host \in Asking => \/ host = "pausing" /\ sPaused
                             \/ host = "resuming" /\ ~sPaused)
      /\ (host' = "paused" => host = "pausing" /\ sPaused)
      /\ (host' = "resumed" => host = "resuming" /\ ~sPaused)
  BY <1>1 DEF HostAlone, OldTaskStopped, PingStopped, Returns, GoOn, StartPing,
     DisconnectBegins, ConnectBegins, WaitIdle, Guards, Becomes, Asking,
     Agreed, Silent, Reports
<1>3. sPaused \in BOOLEAN
  BY DEF TypeOK
<1>4. ASSUME undisturbed PROVE Agreed
  BY <1>2, <1>3, <1>4 DEF Believed, UnderWay
<1> QED
  BY <1>1, <1>2, <1>4 DEF Believed

\* The client is dropped or made: nobody waits for an answer, so that nothing that is lost
\* with it says more than the host knows.
LEMMA BelievedClient ==
    ASSUME TypeOK, Believed,
           \/ DropOldClient \/ DropTriedClient \/ DropClient \/ Launch
           \/ \E ok \in BOOLEAN : TryRunning(ok) \/ Retry(ok)
    PROVE  Believed'
<1>1. /\ UNCHANGED <<sPaused, folderPaused, undisturbed>>
      /\ host \notin Asking /\ host' \notin Asking \cup {"paused", "resumed"}
  BY DEF DropOldClient, DropTriedClient, DropClient, Launch, TryRunning, Retry, Becomes,
     HostOnly, flagVars, processVars, Asking
<1>2. commands' \in {commands, <<>>}
  BY Zenon DEF DropOldClient, DropTriedClient, DropClient, Launch, TryRunning, Retry,
     MakeClient, HostOnly, processVars
<1>3. \/ events' \in {events, <<>>}
      \/ \E s \in States : events' = <<[type |-> "Connection", connected |-> TRUE],
                                       [type |-> "StateChanged", state |-> s]>>
  BY Zenon DEF DropOldClient, DropTriedClient, DropClient, Launch, TryRunning, Retry,
     MakeClient, HostOnly, processVars
<1>4. Silent => Silent'
  BY <1>3 DEF Silent, Reports
<1>5. Agreed => Agreed'
  BY <1>1, <1>2, <1>4 DEF Agreed
<1> QED
  BY <1>1, <1>5 DEF Believed

\* A command is sent: it is the last on its way, and what is before it is what was agreed.
LEMMA BelievedRequest ==
    ASSUME TypeOK, Believed, NEW b \in BOOLEAN,
           Request(Command(b), IF b THEN "pausing" ELSE "resuming")
    PROVE  Believed'
<1>1. /\ UNCHANGED <<sPaused, folderPaused, events>>
      /\ host = "free" /\ host' = IF b THEN "pausing" ELSE "resuming"
      /\ undisturbed' => undisturbed /\ commands' = Append(commands, Command(b))
  BY DEF Request, Becomes, flagVars, Disturb
<1>2. commands \in Seq({"pause", "resume"}) /\ sPaused \in BOOLEAN
  BY DEF TypeOK
<1>3. ASSUME undisturbed' PROVE Agreed' \/ UnderWay(b)'
  <2>1. /\ Agreed
        /\ Silent'
        /\ commands' = Append(commands, Command(b))
    BY <1>1, <1>3 DEF Believed, Asking, Agreed, Silent, Reports
  <2>2. CASE sPaused = b
    BY <1>1, <1>2, <2>1, <2>2 DEF Agreed
  <2>3. CASE sPaused # b
    <3>1. Len(commands') = Len(commands) + 1 /\ commands' # <<>>
      BY <1>2, <2>1
    <3>2. \A i \in DOMAIN commands' :
              IF i = Len(commands') THEN commands'[i] = Command(b)
                                    ELSE commands'[i] = Command(sPaused)
      BY <1>2, <2>1 DEF Agreed
    <3>3. \A i \in DOMAIN commands' : commands'[i] = Command(i = Len(commands') <=> b)
      BY <1>2, <2>3, <3>2 DEF Command
    <3>4. QED
      BY <1>1, <2>1, <2>3, <3>1, <3>3 DEF UnderWay, Asked, Agreed
  <2>4. QED
    BY <2>2, <2>3
<1>4. host' \in Asking /\ (host' = "pausing" <=> b)
  BY <1>1 DEF Asking
<1>5. Agreed' \/ UnderWay(b)' => Agreed' \/ UnderWay(host = "pausing")'
  BY <1>4 DEF UnderWay, Asked, Reported
<1> QED
  BY <1>3, <1>4, <1>5 DEF Believed, Asking

\* An event reaches the host: the report that is on its way, or one that tells nothing of
\* a pause.
LEMMA BelievedMessage ==
    ASSUME TypeOK, Believed, OnMessage
    PROVE  Believed'
<1> DEFINE e == Head(events)
<1>1. /\ events # <<>> /\ events' = Tail(events)
      /\ sPaused' = IF Reports(e) THEN e.type = "Paused" ELSE sPaused
      /\ UNCHANGED <<folderPaused, commands, host, undisturbed>>
  BY DEF OnMessage, clientVars, Reports
<1>2. events \in Seq(Event) /\ sPaused \in BOOLEAN /\ folderPaused \in BOOLEAN
  BY DEF TypeOK
<1>3. /\ Len(events') = Len(events) - 1 /\ events' \in Seq(Event)
      /\ \A i \in DOMAIN events' : i + 1 \in DOMAIN events /\ events'[i] = events[i + 1]
      /\ 1 \in DOMAIN events /\ e = events[1]
  BY <1>1, <1>2
<1> HIDE DEF e
<1>4. ASSUME Silent PROVE Silent' /\ sPaused' = sPaused
  BY <1>1, <1>3, <1>4 DEF Silent
<1>5. ASSUME Agreed PROVE Agreed'
  BY <1>1, <1>4, <1>5 DEF Agreed
<1>6. ASSUME NEW b \in BOOLEAN, UnderWay(b) PROVE Agreed' \/ UnderWay(b)'
  <2>1. CASE Asked(b)
    BY <1>1, <1>4, <1>6, <2>1 DEF UnderWay, Asked
  <2>2. CASE Reported(b)
    <3>1. PICK i \in DOMAIN events :
              /\ events[i].type = IF b THEN "Paused" ELSE "Resumed"
              /\ \A j \in DOMAIN events : j # i => ~Reports(events[j])
      BY <2>2 DEF Reported
    <3>2. CASE i = 1
      <4>1. sPaused' = b
        BY <1>1, <1>3, <3>1, <3>2 DEF Reports
      <4>2. Silent'
        BY <1>2, <1>3, <3>1, <3>2 DEF Silent
      <4>3. QED
        BY <1>1, <2>2, <4>1, <4>2 DEF Reported, Agreed
    <3>3. CASE i # 1
      <4>1. i - 1 \in DOMAIN events' /\ events'[i - 1] = events[i]
        BY <1>2, <1>3, <3>3
      <4>2. \A j \in DOMAIN events' : j # i - 1 => ~Reports(events'[j])
        BY <1>2, <1>3, <3>1
      <4>3. sPaused' = sPaused
        BY <1>1, <1>3, <3>1, <3>3
      <4>4. Reported(b)'
        BY <1>1, <2>2, <3>1, <4>1, <4>2 DEF Reported
      <4>5. QED
        BY <1>6, <4>3, <4>4 DEF UnderWay
    <3>4. QED
      BY <3>2, <3>3
  <2>3. QED
    BY <1>6, <2>1, <2>2 DEF UnderWay
<1>7. ASSUME undisturbed, host \notin Asking PROVE sPaused' = sPaused
  BY <1>4, <1>7 DEF Believed, Agreed
<1>8. ASSUME undisturbed, host \in Asking
      PROVE  Agreed' \/ UnderWay(host = "pausing")'
  BY <1>1, <1>5, <1>6, <1>8 DEF Believed, UnderWay, Asked, Reported
<1> QED
  BY <1>1, <1>5, <1>7, <1>8 DEF Believed, Asking

\* A command is handled: one that was agreed changes nothing; the last one changes the
\* configuration, which is reported.
LEMMA BelievedCommand ==
    ASSUME TypeOK, Believed, HandleCommand
    PROVE  Believed'
<1>1. /\ commands # <<>> /\ commands' = Tail(commands)
      /\ UNCHANGED <<sPaused, host>>
      /\ undisturbed' => SetPaused(Head(commands) = "pause")
  BY DEF HandleCommand, clientVars, flagVars, Disturb
<1>2. /\ commands \in Seq({"pause", "resume"}) /\ events \in Seq(Event)
      /\ sPaused \in BOOLEAN /\ folderPaused \in BOOLEAN
  BY DEF TypeOK
<1>3. /\ Len(commands') = Len(commands) - 1 /\ commands' \in Seq({"pause", "resume"})
      /\ \A i \in DOMAIN commands' : i + 1 \in DOMAIN commands /\ commands'[i] = commands[i + 1]
      /\ 1 \in DOMAIN commands /\ Head(commands) = commands[1]
  BY <1>1, <1>2
<1> DEFINE b == Head(commands) = "pause"
<1>4. ASSUME undisturbed' PROVE undisturbed
  BY <1>1, <1>4 DEF SetPaused, Report, Disturb
<1>5. ASSUME undisturbed', Agreed PROVE Agreed'
  <2>1. b <=> folderPaused
    BY <1>2, <1>3, <1>5 DEF Agreed, Command
  <2>2. UNCHANGED <<folderPaused, events>>
    BY <1>1, <1>2, <1>5, <2>1 DEF SetPaused
  <2>3. QED
    BY <1>1, <1>3, <1>5, <2>2 DEF Agreed, Silent
<1>6. ASSUME undisturbed', NEW c \in BOOLEAN, UnderWay(c) PROVE UnderWay(c)'
  <2>1. Asked(c)
    BY <1>1, <1>6 DEF UnderWay, Reported
  <2>2. CASE Len(commands) = 1
    <3>1. b <=> c
      BY <1>3, <2>1, <2>2 DEF Asked, Command
    <3>2. folderPaused' = c /\ folderPaused # c
      BY <1>1, <1>6, <2>1, <3>1 DEF SetPaused, Asked
    <3>3. events' = Append(events, [type |-> IF c THEN "Paused" ELSE "Resumed"])
      <4>1. Report(IF c THEN "Paused" ELSE "Resumed")
        BY <1>1, <1>2, <1>6, <3>1, <3>2 DEF SetPaused
      <4>2. QED
        BY <1>6, <4>1 DEF Report, Disturb
    <3>4. commands' = <<>>
      BY <1>2, <1>1, <1>3, <2>2
    <3>5. /\ Len(events) + 1 \in DOMAIN events'
          /\ events'[Len(events) + 1].type = IF c THEN "Paused" ELSE "Resumed"
          /\ \A j \in DOMAIN events' : j # Len(events) + 1 =>
                 j \in DOMAIN events /\ events'[j] = events[j]
      BY <1>2, <3>3
    <3>6. Reported(c)'
      BY <2>1, <3>2, <3>4, <3>5 DEF Reported, Asked, Silent
    <3>7. QED
      BY <1>1, <1>6, <3>6 DEF UnderWay
  <2>3. CASE Len(commands) # 1
    <3>1. b <=> ~c
      BY <1>2, <1>3, <2>1, <2>3 DEF Asked, Command
    <3>2. UNCHANGED <<folderPaused, events>>
      BY <1>1, <1>2, <1>6, <2>1, <3>1 DEF SetPaused, Asked
    <3>3. commands' # <<>>
      <4>1. Len(commands') > 0
        BY <1>2, <1>3, <2>3
      <4>2. QED
        BY <4>1, <1>3
    <3>4. \A i \in DOMAIN commands' : commands'[i] = Command(i = Len(commands') <=> c)
      <4>1. \A i \in DOMAIN commands' : i + 1 = Len(commands) <=> i = Len(commands')
        BY <1>2, <1>3
      <4>2. QED
        BY <1>3, <2>1, <4>1 DEF Asked
    <3>5. QED
      BY <1>1, <1>6, <2>1, <3>2, <3>3, <3>4 DEF UnderWay, Asked, Silent
  <2>4. QED
    BY <2>2, <2>3
<1>7. ASSUME undisturbed', host \in Asking
      PROVE  Agreed' \/ UnderWay(host = "pausing")'
  BY <1>1, <1>4, <1>5, <1>6, <1>7 DEF Believed, UnderWay, Asked, Reported
<1> QED
  BY <1>1, <1>4, <1>5, <1>7 DEF Believed

\* What the rest of the environment does tells the host nothing of a pause, or disturbs.
LEMMA BelievedOthers ==
    ASSUME TypeOK, Believed,
           FirstPoll \/ Notice \/ Crash \/ \E b \in BOOLEAN : OtherHost(b)
    PROVE  Believed'
<1>1. CASE FirstPoll
  BY <1>1, BelievedAlone DEF FirstPoll, clientVars, flagVars
<1>2. CASE Notice
  <2>1. PICK e \in Event \ [type : {"Paused", "Resumed"}] : events' = Append(events, e)
    BY <1>2 DEF Notice
  <2>2. ~Reports(e)
    BY <2>1 DEF Event, Reports
  <2>3. events \in Seq(Event)
    BY DEF TypeOK
  <2>4. /\ UNCHANGED <<sPaused, folderPaused, commands, host, undisturbed>>
        /\ DOMAIN events' = 1..(Len(events) + 1) /\ DOMAIN events = 1..Len(events)
        /\ Len(events) \in Nat
        /\ \A i \in DOMAIN events : events'[i] = events[i]
        /\ events'[Len(events) + 1] = e
    BY <1>2, <2>1, <2>3 DEF Notice, clientVars, flagVars
  <2>5. Silent => Silent'
    BY <2>2, <2>4 DEF Silent
  <2>6. Agreed => Agreed'
    BY <2>4, <2>5 DEF Agreed
  <2>7. \A b \in BOOLEAN : Reported(b) => Reported(b)'
    BY <2>2, <2>4 DEF Reported
  <2>8. \A b \in BOOLEAN : UnderWay(b) => UnderWay(b)'
    BY <2>4, <2>5, <2>7 DEF UnderWay, Asked
  <2>9. UnderWay(host = "pausing") => UnderWay(host = "pausing")'
    BY <2>4, <2>8 DEF UnderWay, Asked, Reported
  <2>10. QED
    BY <2>4, <2>6, <2>9 DEF Believed
<1>3. CASE Crash
  BY <1>3, BelievedAlone DEF Crash, Believed, Disturb, flagVars
<1>4. ASSUME NEW b \in BOOLEAN, OtherHost(b) PROVE Believed'
  BY <1>4 DEF OtherHost, Disturb, Believed
<1> QED
  BY <1>1, <1>2, <1>3, <1>4

\* Every step keeps the belief right.
LEMMA BelievedStep == TypeOK /\ Believed /\ [Next]_vars => Believed'
<1> SUFFICES ASSUME TypeOK, Believed, [Next]_vars PROVE Believed'
  OBVIOUS
<1>1. CASE HostToProcess
  <2>1. Pause => Request(Command(TRUE), IF TRUE THEN "pausing" ELSE "resuming")
    BY Zenon DEF Pause, Command
  <2>2. Resume => Request(Command(FALSE), IF FALSE THEN "pausing" ELSE "resuming")
    BY Zenon DEF Resume, Command
  <2>3. QED
    BY <1>1, <2>1, <2>2, BelievedRequest, BelievedClient, Zenon DEF HostToProcess
<1>2. CASE FromProcess
  BY <1>2, BelievedMessage, BelievedCommand, BelievedOthers, Zenon DEF FromProcess
<1>3. CASE PingStep \/ UNCHANGED <<taskVars, clientVars, flagVars, processVars>>
  BY <1>3, BelievedAlone DEF PingStep, clientVars, flagVars, processVars
<1> QED
  BY <1>1, <1>2, <1>3, NextCases, BelievedHost, BelievedClient, Zenon

\* When Pause has returned the folder is paused, when Resume has it is not, unless a
\* command or a report was lost or another host interfered (Workspace.cpp:166, 183).
THEOREM PausedWhenTold == Spec => []PauseMeansPaused
<1>1. Believed => PauseMeansPaused
  BY DEF Believed, PauseMeansPaused, Agreed, Asking
<1>2. Init => TypeOK /\ Believed
  BY TypeInit, BelievedInit
<1>3. TypeOK /\ Believed /\ [Next]_vars => (TypeOK /\ Believed)'
  BY TypeStep, BelievedStep
<1> QED
  BY <1>1, <1>2, <1>3, PTL DEF Spec
=============================================================================
