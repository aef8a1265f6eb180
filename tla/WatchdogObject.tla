--------------------------- MODULE WatchdogObject ---------------------------
(***************************************************************************)
(* What the two kinds of watchdog have in common: the object of            *)
(* watchdog/object.c with its references, the timer and its DPC, and the   *)
(* events that travel to the client, who is watchdog/gdisup.c.             *)
(*                                                                         *)
(* An event is raised by queueing the client's DPC.  It holds a reference  *)
(* on the watchdog, and a timeout one on the thread it is about, until the *)
(* client has called WdCompleteEvent.                                      *)
(***************************************************************************)
EXTENDS Integers, FiniteSets

CONSTANTS
    Threads,    \* the threads that are watched
    Null,       \* no thread
    Events,     \* events under way at once (a bound)
    Period,     \* run time that makes a timeout
    MaxSuspend, \* bound on nested suspensions
    MaxLeaks    \* bound on the references that stops leave behind; a watch
                \* that has reached it is not started again

ASSUME WatchdogAssumption ==
    /\ Null \notin Threads
    /\ IsFiniteSet(Events)
    /\ Period \in Nat \ {0} /\ MaxSuspend \in Nat /\ MaxLeaks \in Nat \ {0}

VARIABLES
    objectType,     \* ObjectType: "standard" or "deferred"
    referenceCount, \* ReferenceCount
    threadRefs,     \* references the events hold on each thread
    event,          \* each event: its stage and its thread, if a timeout
    leaked,         \* history: references dropped by nobody
    lastEvent,      \* LastEvent
    lastQueuedThread, \* LastQueuedThread
    suspendCount,   \* SuspendCount
    thread,         \* Thread
    clientDpc,      \* whether ClientDpc is set
    timer,          \* whether Timer is set
    timerDpc,       \* whether TimerDpc is queued
    handlerState,   \* g_lWdpDisplayHandlerState
    owner,          \* "owned", "flushing" (in Free) or "freed"
    crashed,        \* the timer's DPC has dereferenced a NULL thread
    ran,            \* run time of Thread since LastKernelTime, up to Period
    spent           \* history: run time of Thread since the measurement began

refVars == <<referenceCount, threadRefs, event, leaked>>
timerVars == <<timer, timerDpc>>
timeVars == <<ran, spent>>
clientVars == <<handlerState, owner, crashed>>
watchVars == <<suspendCount, thread, clientDpc, lastEvent, lastQueuedThread>>
objectVars == <<objectType, refVars, timerVars, timeVars, clientVars, watchVars>>

ObjectTypeOK ==
    /\ objectType \in {"standard", "deferred"}
    /\ referenceCount \in Nat /\ leaked \in 0..MaxLeaks
    /\ threadRefs \in [Threads -> Nat]
    /\ event \in [Events -> [stage : {"none", "queued", "work", "ending"},
                             arg : Threads \cup {Null}]]
    /\ lastEvent \in {"none", "timeout", "recovery"}
    /\ lastQueuedThread \in Threads \cup {Null}
    /\ suspendCount \in 0..MaxSuspend
    /\ thread \in Threads \cup {Null}
    /\ clientDpc \in BOOLEAN /\ timer \in BOOLEAN /\ timerDpc \in BOOLEAN
    /\ handlerState \in {"idle", "busy"}
    /\ owner \in {"owned", "flushing", "freed"}
    /\ crashed \in BOOLEAN
    /\ ran \in 0..Period /\ spent \in 0..Period

\* WdpInitializeObject and the common part of the two allocations.
ObjectInit ==
    /\ objectType \in {"standard", "deferred"}
    /\ referenceCount = 1 /\ leaked = 0
    /\ threadRefs = [t \in Threads |-> 0]
    /\ event = [e \in Events |-> [stage |-> "none", arg |-> Null]]
    /\ lastEvent = "none" /\ lastQueuedThread = Null
    /\ suspendCount = 0 /\ thread = Null /\ clientDpc = FALSE
    /\ timer = FALSE /\ timerDpc = FALSE
    /\ handlerState = "idle" /\ owner = "owned" /\ crashed = FALSE
    /\ ran = 0 /\ spent = 0

-----------------------------------------------------------------------------
(* Events. *)

UnderWay == {e \in Events : event[e].stage # "none"}
Queued == {e \in Events : event[e].stage = "queued"}

AddThreadRef(t, n) ==
    threadRefs' = [s \in Threads |-> IF s = t THEN threadRefs[s] + n
                                     ELSE threadRefs[s]]

\* References are taken, and given back if the DPC is in the queue already.
QueueClientDpc(t) ==
    IF Queued # {} THEN UNCHANGED <<refVars, lastQueuedThread>>
    ELSE \E e \in Events \ UnderWay :
            /\ e = CHOOSE x \in Events \ UnderWay : TRUE
            /\ event' = [event EXCEPT ![e] = [stage |-> "queued", arg |-> t]]
            /\ referenceCount' = referenceCount + 1
            /\ AddThreadRef(t, 1)
            /\ lastQueuedThread' = t
            /\ UNCHANGED leaked

\* The references WdCompleteEvent drops for event e, of thread t.
Complete(e, t) ==
    /\ event' = [event EXCEPT ![e] = [stage |-> "none", arg |-> Null]]
    /\ referenceCount' = referenceCount - 1
    /\ AddThreadRef(t, -1)
    /\ UNCHANGED leaked

\* Mutant: WdCompleteEvent is forgotten.
ForgetClientDpc ==
    /\ event' = [e \in Events |-> IF e \in Queued
                                  THEN [stage |-> "none", arg |-> Null]
                                  ELSE event[e]]
    /\ UNCHANGED <<referenceCount, threadRefs, leaked>>

\* KeRemoveQueueDpc, and WdCompleteEvent if it was in the queue.
RemoveClientDpc ==
    IF Queued = {} THEN UNCHANGED refVars
    ELSE \E e \in Queued : Complete(e, lastQueuedThread)

-----------------------------------------------------------------------------
(* The client: WdDdiWatchdogDpcCallback and WdpBugCheckStuckDriver. *)

\* The DPC hands the event to a worker thread if the handler is idle.
HandOver(e) ==
    /\ e \in Queued
    /\ handlerState = "idle"
    /\ handlerState' = "busy"
    /\ event' = [event EXCEPT ![e].stage = "work"]
    /\ UNCHANGED <<objectType, referenceCount, threadRefs, leaked, timerVars,
                   timeVars, owner, crashed, watchVars>>

\* The worker has dealt with the event and lets the next one in.
EndWork(e) ==
    /\ event[e].stage = "work"
    /\ handlerState' = "idle"
    /\ event' = [event EXCEPT ![e].stage = "ending"]
    /\ UNCHANGED <<objectType, referenceCount, threadRefs, leaked, timerVars,
                   timeVars, owner, crashed, watchVars>>

\* WdCompleteEvent, by the worker or at once by the DPC that finds it busy.
CompleteEvent(e) ==
    /\ \/ event[e].stage = "ending"
       \/ e \in Queued /\ handlerState = "busy"
    /\ Complete(e, event[e].arg)
    /\ UNCHANGED <<objectType, timerVars, timeVars, clientVars, watchVars>>

-----------------------------------------------------------------------------
(* The kernel. *)

\* The timer's DPC is queued; the timer of a deferred watch is periodic.
ExpireTimer ==
    /\ timer
    /\ timerDpc' = TRUE
    /\ timer' = (objectType = "deferred")
    /\ UNCHANGED <<objectType, refVars, timeVars, clientVars, watchVars>>

\* The watched thread runs.
Tick ==
    /\ thread # Null
    /\ ran < Period \/ spent < Period
    /\ ran' = IF ran < Period THEN ran + 1 ELSE ran
    /\ spent' = IF spent < Period THEN spent + 1 ELSE spent
    /\ UNCHANGED <<objectType, refVars, timerVars, clientVars, watchVars>>

\* Mutant: the DPCs are not waited for.
NoFlush == TRUE

FlushQueuedDpcs == ~timerDpc /\ Queued = {}

\* The end of Free: KeFlushQueuedDpcs has returned, the owner's reference goes.
EndFree ==
    /\ owner = "flushing"
    /\ FlushQueuedDpcs
    /\ referenceCount' = referenceCount - 1
    /\ owner' = "freed"
    /\ UNCHANGED <<objectType, threadRefs, event, leaked, timerVars, timeVars,
                   handlerState, crashed, watchVars>>
=============================================================================
