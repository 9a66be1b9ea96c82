---------------------------- MODULE BackgroundTask ----------------------------
(***************************************************************************)
(* src/Sources/Utils/BackgroundTask.cpp: a thread that runs a task, waits  *)
(* for an interval and runs it again until it is stopped.  Start and Stop  *)
(* are called by one thread, the host's.  mMutex is never held across a    *)
(* step: a critical section is one step, and wait_for gives it up as it    *)
(* starts to wait.                                                         *)
(***************************************************************************)
EXTENDS Integers

CONSTANT MaxThreads    \* bound: threads Start makes

VARIABLES
    mRunning,
    mThread,    \* 0, or the thread that can be joined
    thread,     \* [thread]: where it is in Run
    stopper,    \* where the host is in Stop
    terminated  \* a thread was assigned over one that could be joined

taskVars == <<mRunning, mThread, thread, stopper, terminated>>

ASSUME MaxThreadsAssumption == MaxThreads \in Nat

Threads == 1..MaxThreads

TaskTypeOK ==
    /\ mRunning \in BOOLEAN
    /\ mThread \in 0..MaxThreads
    /\ thread \in [Threads -> {"new", "checking", "task", "locking", "waiting", "woken", "done"}]
    /\ stopper \in {"no", "notifying", "joining"}
    /\ terminated \in BOOLEAN

TaskInit ==
    /\ mRunning = FALSE
    /\ mThread = 0
    /\ thread = [t \in Threads |-> "new"]
    /\ stopper = "no"
    /\ terminated = FALSE

Alive(t) == thread[t] \notin {"new", "done"}

\* Start: std::thread's assignment ends the process if the old thread can be joined.
Start ==
    /\ stopper = "no"
    /\ IF mRunning
       THEN UNCHANGED <<mRunning, mThread, thread, terminated>>
       ELSE \E t \in Threads :
              /\ thread[t] = "new"
              /\ \A u \in Threads : u < t => thread[u] # "new"
              /\ mRunning' = TRUE
              /\ terminated' = (terminated \/ mThread # 0)
              /\ mThread' = t
              /\ thread' = [thread EXCEPT ![t] = "checking"]
    /\ UNCHANGED stopper

-----------------------------------------------------------------------------
\* Stop: up to its unlock, notify_one, join.
Stop ==
    /\ stopper = "no"
    /\ mRunning' = FALSE
    /\ stopper' = IF mRunning THEN "notifying" ELSE "no"
    /\ UNCHANGED <<mThread, thread, terminated>>

Notify ==
    /\ stopper = "notifying"
    /\ stopper' = "joining"
    /\ thread' = [t \in Threads |-> IF thread[t] = "waiting" THEN "woken" ELSE thread[t]]
    /\ UNCHANGED <<mRunning, mThread, terminated>>

\* Mutant: the thread is left to end by itself.
JoinNobody ==
    /\ stopper = "joining"
    /\ stopper' = "no"
    /\ mThread' = 0
    /\ UNCHANGED <<mRunning, thread, terminated>>

Join ==
    /\ stopper = "joining"
    /\ mThread # 0 => thread[mThread] = "done"
    /\ mThread' = 0
    /\ stopper' = "no"
    /\ UNCHANGED <<mRunning, thread, terminated>>

-----------------------------------------------------------------------------
\* Run: IsRunning, mTask, and wait_for, which looks at mRunning before it waits and again
\* when it is woken or the interval is over.
GoTo(t, place) ==
    /\ thread' = [thread EXCEPT ![t] = place]
    /\ UNCHANGED <<mRunning, mThread, stopper, terminated>>

IsRunning(t) == thread[t] = "checking" /\ GoTo(t, IF mRunning THEN "task" ELSE "done")
TaskDone(t) == thread[t] = "task" /\ GoTo(t, "locking")

\* Mutant: wait_for without the predicate.
WaitBlindly(t) == thread[t] = "locking" /\ GoTo(t, "waiting")

WaitFor(t) == thread[t] = "locking" /\ GoTo(t, IF mRunning THEN "waiting" ELSE "checking")
Wake(t) == thread[t] = "woken" /\ GoTo(t, IF mRunning THEN "waiting" ELSE "checking")
IntervalOver(t) == thread[t] = "waiting" /\ GoTo(t, "checking")

RunStep(t) == IsRunning(t) \/ TaskDone(t) \/ WaitFor(t) \/ Wake(t)
StopStep == Notify \/ Join
=============================================================================
