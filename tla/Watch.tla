------------------------------- MODULE Watch -------------------------------
(***************************************************************************)
(* The standard watchdog, watchdog/watchdog.c: a section of code is        *)
(* started and stopped, and if its thread runs for the due time in between *)
(* the client is told once.  Calls hold the spin lock of the object from   *)
(* beginning to end, and so does the timer's DPC: each is one step.        *)
(***************************************************************************)
EXTENDS WatchdogObject

CONSTANT MaxStart   \* bound on nested starts

ASSUME WatchAssumption == MaxStart \in Nat

VARIABLES
    startCount, \* StartCount
    dueTime     \* -DueTime: run time left

standardVars == <<startCount, dueTime>>

WatchTypeOK == startCount \in 0..MaxStart /\ dueTime \in 0..Period

WatchInit == startCount = 0 /\ dueTime = 0

\* KeQueryRuntimeThread for a new LastKernelTime and LastUserTime.
RefreshTime == ran' = 0

\* Every thread may call; the nested calls of a section come from its thread.
StartWatch(t) ==
    /\ owner = "owned"
    /\ startCount < MaxStart
    /\ startCount > 0 => t = thread
    /\ startCount' = startCount + 1
    /\ thread' = t
    /\ clientDpc' = TRUE
    /\ dueTime' = Period
    /\ RefreshTime /\ spent' = 0
    /\ timer' = (timer \/ suspendCount = 0)
    /\ UNCHANGED <<objectType, refVars, timerDpc, clientVars, suspendCount,
                   lastEvent, lastQueuedThread>>

\* What WdStopWatch does when it brings StartCount to 0.
Disarm ==
    /\ timer' = FALSE
    /\ RemoveClientDpc
    /\ dueTime' = 0
    /\ ran' = 0 /\ spent' = 0
    /\ thread' = Null /\ clientDpc' = FALSE /\ lastQueuedThread' = Null

StopWatch(n) ==
    /\ startCount' = n
    /\ IF startCount > 0 /\ n = 0 THEN Disarm
       ELSE UNCHANGED <<timer, refVars, dueTime, timeVars, thread, clientDpc,
                        lastQueuedThread>>
    /\ UNCHANGED <<objectType, timerDpc, handlerState, crashed, suspendCount,
                   lastEvent>>

StopWatchByOwner(bIncremental) ==
    /\ owner = "owned"
    /\ startCount > 0
    /\ StopWatch(IF bIncremental THEN startCount - 1 ELSE 0)
    /\ UNCHANGED owner

FreeWatchdog ==
    /\ owner = "owned"
    /\ StopWatch(0)
    /\ owner' = "flushing"

SuspendWatch ==
    /\ owner = "owned"
    /\ suspendCount < MaxSuspend
    /\ suspendCount' = suspendCount + 1
    /\ timer' = (timer /\ ~(suspendCount = 0 /\ startCount > 0))
    /\ UNCHANGED <<objectType, refVars, timerDpc, timeVars, clientVars, thread,
                   clientDpc, lastEvent, lastQueuedThread, standardVars>>

ResumeWatch(bIncremental) ==
    /\ owner = "owned"
    /\ suspendCount > 0
    /\ suspendCount' = IF bIncremental THEN suspendCount - 1 ELSE 0
    /\ IF startCount > 0 /\ suspendCount' = 0 /\ dueTime > 0
       THEN timer' = TRUE /\ RefreshTime
       ELSE UNCHANGED <<timer, ran>>
    /\ UNCHANGED <<objectType, refVars, timerDpc, spent, clientVars, thread,
                   clientDpc, lastEvent, lastQueuedThread, standardVars>>

ResetWatch ==
    /\ owner = "owned"
    /\ startCount > 0
    /\ dueTime' = Period
    /\ RefreshTime /\ spent' = 0
    /\ timer' = (timer \/ suspendCount = 0)
    /\ UNCHANGED <<objectType, refVars, timerDpc, clientVars, watchVars,
                   startCount>>

\* Mutant: a watch that is not yet due is not looked at again.
LookNoMore == UNCHANGED timer

LookAgain == timer' = TRUE

\* WdpWatchdogDpcCallback: the run time since the last look is taken off the
\* due time.  Without a thread KeQueryRuntimeThread is given NULL.
WatchdogDpcCallback ==
    /\ timerDpc
    /\ thread # Null
    /\ timerDpc' = FALSE
    /\ ran' = 0
    /\ dueTime' = IF ran >= dueTime THEN 0 ELSE dueTime - ran
    /\ IF dueTime' = 0
       THEN /\ lastEvent' = "timeout"
            /\ QueueClientDpc(thread)
            /\ UNCHANGED timer
       ELSE /\ LookAgain
            /\ UNCHANGED <<refVars, lastEvent, lastQueuedThread>>
    /\ UNCHANGED <<objectType, spent, clientVars, suspendCount, thread,
                   clientDpc, startCount>>

WatchdogDpcCrash ==
    /\ timerDpc
    /\ thread = Null
    /\ timerDpc' = FALSE
    /\ crashed' = TRUE
    /\ UNCHANGED <<objectType, refVars, timer, timeVars, handlerState, owner,
                   watchVars, standardVars>>

\* WdCompleteEvent does nothing more for a standard watchdog.
StandardClient(e) ==
    /\ HandOver(e) \/ EndWork(e) \/ CompleteEvent(e)
    /\ UNCHANGED standardVars

StandardKernel ==
    /\ ExpireTimer \/ Tick \/ EndFree
    /\ UNCHANGED standardVars

WatchNext ==
    \/ \E t \in Threads : StartWatch(t)
    \/ \E b \in BOOLEAN : StopWatchByOwner(b) \/ ResumeWatch(b)
    \/ FreeWatchdog \/ SuspendWatch \/ ResetWatch
    \/ WatchdogDpcCallback \/ WatchdogDpcCrash
    \/ \E e \in Events : StandardClient(e)
    \/ StandardKernel
=============================================================================
