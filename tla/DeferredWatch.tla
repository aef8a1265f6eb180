--------------------------- MODULE DeferredWatch ---------------------------
(***************************************************************************)
(* The deferred watchdog, watchdog/dwd.c: a thread counts itself in and    *)
(* out of monitored sections at no cost, and a periodic timer looks at the *)
(* counts.  A thread that stays inside without progress while it runs for  *)
(* the period is a timeout; progress after a timeout is a recovery.        *)
(*                                                                         *)
(* Calls hold the spin lock and are one step each; WdStartDeferredWatch    *)
(* sets its timer after it has released the lock, which is part of its     *)
(* step.  Entering, leaving, suspending, resuming and WdCompleteEvent take *)
(* no lock, only interlocked instructions, so the timer's DPC, which holds *)
(* the lock throughout, is a step for each time it looks.                  *)
(***************************************************************************)
EXTENDS WatchdogObject

CONSTANTS
    MaxEnter,   \* bound on the entries counted between two starts
    MaxNest     \* bound on nested sections

ASSUME DeferredWatchAssumption == MaxEnter \in Nat /\ MaxNest \in Nat

VARIABLES
    state,          \* State: "stopped" or "started"
    inCount, outCount, lastInCount, lastOutCount,
    trigger,        \* Trigger: 0, 1 (inside last time) or 2 (event posted)
    dpcAt,          \* what the timer's DPC does next, holding the spin lock
    inside,         \* entries of Thread that it has not left again
    confused,       \* history: the counts were reset while Thread was inside
    slipped         \* history: entered or left since the DPC saw no progress

lookVars == <<dpcAt, slipped>>
sectionVars == <<inCount, outCount, lastInCount, lastOutCount, inside, confused>>
deferredVars == <<state, trigger, lookVars, sectionVars>>

DeferredTypeOK ==
    /\ state \in {"stopped", "started"}
    /\ {inCount, outCount, lastInCount, lastOutCount} \subseteq 0..MaxEnter
    /\ trigger \in 0..2
    /\ dpcAt \in {"out", "section", "snapshot", "progress", "time"}
    /\ inside \in 0..MaxNest
    /\ confused \in BOOLEAN /\ slipped \in BOOLEAN

DeferredInit ==
    /\ state = "stopped" /\ trigger = 0
    /\ inCount = 0 /\ outCount = 0 /\ lastInCount = 0 /\ lastOutCount = 0
    /\ dpcAt = "out"
    /\ inside = 0 /\ confused = FALSE /\ slipped = FALSE

\* The spin lock is free: calls that take it wait for the DPC to release it.
LockFree == dpcAt = "out"

ClearCounts ==
    /\ inCount' = 0 /\ outCount' = 0 /\ lastInCount' = 0 /\ lastOutCount' = 0
    /\ trigger' = 0
    /\ ran' = 0 /\ spent' = 0

\* The owner starts the watch while no thread is in a monitored section.
StartDeferredWatch ==
    /\ owner = "owned" /\ LockFree
    /\ leaked < MaxLeaks
    /\ inside = 0
    /\ ClearCounts
    /\ state' = "started"
    /\ thread' = Null /\ clientDpc' = TRUE
    /\ timer' = TRUE
    /\ confused' = FALSE
    /\ UNCHANGED <<objectType, refVars, timerDpc, clientVars, suspendCount,
                   lastEvent, lastQueuedThread, lookVars, inside>>

\* WdpQueueDeferredEvent; the caller holds the lock.  The event type is noted
\* whether or not the DPC can be queued.
QueueDeferredEvent(type) ==
    /\ lastEvent' = type
    /\ QueueClientDpc(IF type = "timeout" THEN thread ELSE Null)
    /\ trigger' = IF Queued = {} THEN 2 ELSE trigger

\* WdStopDeferredWatch after a timeout: an event that still waits in the queue
\* is removed without WdCompleteEvent, and a recovery is queued.
QueueLastRecovery ==
    /\ lastEvent' = "recovery"
    /\ IF Queued = {} THEN QueueClientDpc(Null)
       ELSE /\ leaked < MaxLeaks
            /\ leaked' = leaked + 1
            /\ referenceCount' = referenceCount + 1
            /\ \E e \in Queued : event' = [event EXCEPT ![e].arg = Null]
            /\ UNCHANGED threadRefs

StopDeferredWatch ==
    /\ IF state = "started"
       THEN /\ timer' = FALSE
            /\ IF lastEvent = "timeout"
               THEN QueueLastRecovery
               ELSE RemoveClientDpc /\ UNCHANGED lastEvent
            /\ ClearCounts
            /\ state' = "stopped"
            /\ thread' = Null /\ clientDpc' = FALSE /\ lastQueuedThread' = Null
            /\ confused' = (inside > 0)
       ELSE UNCHANGED <<timer, refVars, timeVars, thread, clientDpc, lastEvent,
                        lastQueuedThread, state, trigger, inCount, outCount,
                        lastInCount, lastOutCount, confused>>
    /\ UNCHANGED <<objectType, timerDpc, handlerState, crashed, suspendCount,
                   lookVars, inside>>

StopDeferredWatchByOwner ==
    /\ owner = "owned" /\ LockFree
    /\ StopDeferredWatch
    /\ UNCHANGED owner

FreeDeferredWatchdog ==
    /\ owner = "owned" /\ LockFree
    /\ StopDeferredWatch
    /\ owner' = "flushing"

SuspendDeferredWatch ==
    /\ owner = "owned"
    /\ suspendCount < MaxSuspend
    /\ suspendCount' = suspendCount + 1
    /\ UNCHANGED <<objectType, refVars, timerVars, timeVars, clientVars, thread,
                   clientDpc, lastEvent, lastQueuedThread, deferredVars>>

ResumeDeferredWatch(bIncremental) ==
    /\ owner = "owned"
    /\ suspendCount > 0
    /\ suspendCount' = IF bIncremental THEN suspendCount - 1 ELSE 0
    /\ UNCHANGED <<objectType, refVars, timerVars, timeVars, clientVars, thread,
                   clientDpc, lastEvent, lastQueuedThread, deferredVars>>

ResetDeferredWatch ==
    /\ owner = "owned" /\ LockFree
    /\ inCount' = 0 /\ outCount' = 0 /\ trigger' = 0
    /\ spent' = 0
    /\ confused' = (confused \/ inside > 0)
    /\ UNCHANGED <<objectType, refVars, timerVars, ran, clientVars, watchVars,
                   state, lastInCount, lastOutCount, lookVars, inside>>

-----------------------------------------------------------------------------
(* The watched threads, one at a time in a monitored section. *)

\* The thread enters or leaves, whatever the DPC is doing.
Move == /\ spent' = 0
        /\ slipped' = (dpcAt = "time")
        /\ UNCHANGED dpcAt

\* Only a thread that is new to the watch takes the lock.
EnterMonitoredSection(t) ==
    /\ owner = "owned" /\ state = "started"
    /\ inCount < MaxEnter /\ outCount < MaxEnter /\ inside < MaxNest
    /\ inside > 0 => t = thread
    /\ IF t = thread THEN UNCHANGED <<thread, trigger>>
       ELSE LockFree /\ thread' = t /\ trigger' = 0
    /\ inCount' = inCount + 1
    /\ inside' = inside + 1
    /\ Move
    /\ UNCHANGED <<objectType, refVars, timerVars, ran, clientVars, suspendCount,
                   clientDpc, lastEvent, lastQueuedThread, state, outCount,
                   lastInCount, lastOutCount, confused>>

ExitMonitoredSection ==
    /\ owner = "owned"
    /\ inside > 0 /\ outCount < MaxEnter
    /\ outCount' = outCount + 1
    /\ inside' = inside - 1
    /\ Move
    /\ UNCHANGED <<objectType, refVars, timerVars, ran, clientVars, watchVars,
                   state, trigger, inCount, lastInCount, lastOutCount, confused>>

-----------------------------------------------------------------------------
(* WdpDeferredWatchdogDpcCallback, one step for each look at the counts. *)

Progress == inCount # lastInCount \/ outCount # lastOutCount

\* Trigger 0.  A recovery may be queued.
FirstLook ==
    /\ trigger = 0 /\ suspendCount = 0
    /\ IF lastEvent = "timeout" /\ (Progress \/ inCount = outCount)
       THEN QueueDeferredEvent("recovery")
       ELSE UNCHANGED <<trigger, lastEvent, refVars, lastQueuedThread>>
    /\ dpcAt' = "section"

\* Trigger 1.  The thread was in the section the last time.
SecondLook ==
    /\ trigger = 1
    /\ IF inCount = outCount \/ suspendCount > 0
       THEN trigger' = 0 /\ dpcAt' = "out"
       ELSE UNCHANGED trigger /\ dpcAt' = "progress"
    /\ UNCHANGED <<lastEvent, refVars, lastQueuedThread>>

NoLook ==
    /\ \/ state = "stopped" \/ thread = Null \/ trigger = 2
       \/ trigger = 0 /\ suspendCount > 0
    /\ UNCHANGED <<trigger, dpcAt, lastEvent, refVars, lastQueuedThread>>

\* The DPC takes the lock.
DeferredWatchdogDpcCallback ==
    /\ timerDpc /\ LockFree
    /\ timerDpc' = FALSE
    /\ \/ state = "started" /\ thread # Null /\ (FirstLook \/ SecondLook)
       \/ NoLook
    /\ UNCHANGED <<objectType, timer, timeVars, clientVars, suspendCount, thread,
                   clientDpc, state, slipped, sectionVars>>

\* Still with trigger 0: is the thread in a section?
LookInside ==
    /\ dpcAt = "section"
    /\ dpcAt' = IF inCount = outCount THEN "out" ELSE "snapshot"
    /\ UNCHANGED <<objectVars, state, trigger, slipped, sectionVars>>

Snapshot ==
    /\ dpcAt = "snapshot"
    /\ dpcAt' = "out"
    /\ trigger' = 1
    /\ lastInCount' = inCount /\ lastOutCount' = outCount
    /\ ran' = 0
    /\ UNCHANGED <<objectType, refVars, timerVars, spent, clientVars, watchVars,
                   state, inCount, outCount, inside, confused, slipped>>

\* Mutant: progress is not looked for.
SeeNoProgress ==
    /\ dpcAt = "progress"
    /\ dpcAt' = "time"
    /\ UNCHANGED <<objectVars, state, trigger, slipped, sectionVars>>

\* Still with trigger 1: has the thread made progress?
LookForProgress ==
    /\ dpcAt = "progress"
    /\ dpcAt' = IF Progress THEN "snapshot" ELSE "time"
    /\ UNCHANGED <<objectVars, state, trigger, slipped, sectionVars>>

\* It has not: has it been stuck long enough?
LookAtTime ==
    /\ dpcAt = "time"
    /\ dpcAt' = "out"
    /\ IF ran >= Period
       THEN QueueDeferredEvent("timeout")
       ELSE UNCHANGED <<trigger, lastEvent, refVars, lastQueuedThread>>
    /\ slipped' = FALSE
    /\ UNCHANGED <<objectType, timerVars, timeVars, clientVars, suspendCount,
                   thread, clientDpc, state, sectionVars>>

DeferredCallback ==
    \/ DeferredWatchdogDpcCallback
    \/ LookInside \/ Snapshot \/ LookForProgress \/ LookAtTime

-----------------------------------------------------------------------------
\* Mutant: no event is raised again.
ResumeNoEvents == UNCHANGED trigger

\* WdCompleteEvent resumes the events of a deferred watchdog.
ResumeEvents == trigger' = 0

DeferredClient(e) ==
    \/ /\ HandOver(e) \/ EndWork(e)
       /\ UNCHANGED deferredVars
    \/ /\ CompleteEvent(e)
       /\ ResumeEvents
       /\ UNCHANGED <<state, lookVars, sectionVars>>

DeferredKernel ==
    /\ ExpireTimer \/ Tick \/ EndFree
    /\ UNCHANGED deferredVars

DeferredNext ==
    \/ StartDeferredWatch \/ StopDeferredWatchByOwner \/ FreeDeferredWatchdog
    \/ SuspendDeferredWatch \/ ResetDeferredWatch
    \/ \E b \in BOOLEAN : ResumeDeferredWatch(b)
    \/ \E t \in Threads : EnterMonitoredSection(t)
    \/ ExitMonitoredSection
    \/ DeferredCallback
    \/ \E e \in Events : DeferredClient(e)
    \/ DeferredKernel
=============================================================================
