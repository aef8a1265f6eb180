------------------------------ MODULE Watchdog ------------------------------
(***************************************************************************)
(* A watchdog object of either type, from its allocation to the end of its *)
(* last event: the composition of Watch and DeferredWatch over the object  *)
(* they share, and the properties of both.                                 *)
(***************************************************************************)
EXTENDS Watch, DeferredWatch

vars == <<objectVars, standardVars, deferredVars>>

Init == ObjectInit /\ WatchInit /\ DeferredInit

\* Nothing happens after a crash.
Next ==
    /\ ~crashed
    /\ \/ objectType = "standard" /\ WatchNext /\ UNCHANGED deferredVars
       \/ objectType = "deferred" /\ DeferredNext /\ UNCHANGED standardVars

Spec == Init /\ [][Next]_vars

TypeOK == ObjectTypeOK /\ WatchTypeOK /\ DeferredTypeOK

Timers == ~crashed /\ ExpireTimer /\ UNCHANGED <<standardVars, deferredVars>>
Running == ~crashed /\ Tick /\ UNCHANGED <<standardVars, deferredVars>>
Callback ==
    /\ ~crashed
    /\ \/ objectType = "standard" /\ WatchdogDpcCallback /\ UNCHANGED deferredVars
       \/ /\ objectType = "deferred" /\ DeferredCallback
          /\ UNCHANGED standardVars
Client ==
    /\ ~crashed
    /\ \E e \in Events :
          \/ objectType = "standard" /\ StandardClient(e) /\ UNCHANGED deferredVars
          \/ objectType = "deferred" /\ DeferredClient(e) /\ UNCHANGED standardVars

\* A timer that is set expires, DPCs run, the client deals with its events, and
\* a thread that is stuck in a loop runs.
Fairness == /\ WF_vars(Timers) /\ WF_vars(Running)
            /\ WF_vars(Callback) /\ WF_vars(Client)

FairSpec == Spec /\ Fairness

-----------------------------------------------------------------------------
(* References and the end of the object. *)

\* The events about thread t.
About(t) == {e \in UnderWay : event[e].arg = t}

\* The watchdog is referenced by its owner and by each event under way, and a
\* thread by each event about it; nothing else is counted but what a stop left
\* behind when it removed a timeout from the queue (dwd.c:265).  So a watchdog
\* is destroyed exactly when its owner has freed it and no event needs it.
ReferencesExact ==
    /\ referenceCount = Cardinality(UnderWay) + leaked
                        + (IF owner = "freed" THEN 0 ELSE 1)
    /\ \A t \in Threads :
          /\ threadRefs[t] >= Cardinality(About(t))
          /\ leaked = 0 => threadRefs[t] = Cardinality(About(t))

\* When Free gives up the owner's reference nothing will touch the object any
\* more but the events the client is dealing with: no timer, no DPC.
FreedIsQuiet == owner = "freed" => ~timer /\ ~timerDpc /\ Queued = {}

-----------------------------------------------------------------------------
(* What the client is told. *)

\* An event is raised, or the last one changes its type.
Raises == /\ UnderWay \subseteq UnderWay'
          /\ UnderWay' # UnderWay \/ lastEvent' # lastEvent

\* A timeout is raised only about a thread that has run for the whole period
\* since the section or the measurement began, and, for a deferred watch,
\* without entering or leaving a section meanwhile -- or that had made no
\* progress when the DPC looked and has moved since, before the DPC had looked
\* at its run time.
TimeoutEarned ==
    [][Raises /\ lastEvent' = "timeout"
       => \/ /\ spent = Period
             /\ objectType = "deferred" /\ ~confused => inside > 0
          \/ objectType = "deferred" /\ slipped]_vars

\* The watched thread is overdue and the client has not been told.
Overdue ==
    /\ ~crashed /\ suspendCount = 0 /\ spent = Period
    /\ \/ objectType = "standard" /\ startCount > 0 /\ dueTime > 0
       \/ /\ objectType = "deferred" /\ state = "started"
          /\ inside > 0 /\ ~confused /\ lastEvent # "timeout"

\* A thread that is overdue does not stay unreported.
StuckReported == []<>~Overdue

\* The thread has left its sections and the last the client was told is the
\* timeout.
Unrecovered ==
    /\ objectType = "deferred" /\ lastEvent = "timeout"
    /\ \/ state = "stopped"
       \/ thread # Null /\ inside = 0 /\ ~confused /\ suspendCount = 0

\* A recovery follows a timeout when the thread goes on or the watch stops.
RecoveryRaised == []<>~Unrecovered

-----------------------------------------------------------------------------
(* The inductive invariant of WatchdogProofs. *)

\* The client's DPC is in the queue once, and a stop that removes it knows the
\* thread it is about.
QueueInv ==
    /\ \A e, f \in Queued : e = f
    /\ \A e \in Queued : event[e].arg = lastQueuedThread

\* The timer is set only between a start and the stop, and Free has stopped.
StartedInv ==
    /\ objectType = "standard" =>
           /\ thread # Null <=> startCount > 0
           /\ startCount = 0 => ~timer
           /\ owner # "owned" => startCount = 0
    /\ objectType = "deferred" =>
           /\ state = "stopped" => ~timer
           /\ owner # "owned" => state = "stopped"

\* Since the last snapshot the DPC may tell how long the thread is stuck.
Measuring == trigger = 1 \/ dpcAt \in {"progress", "time"}

\* The DPC looks at a watch that is started, and goes on from what it saw.
LookInv ==
    /\ dpcAt # "out" => objectType = "deferred" /\ state = "started"
    /\ dpcAt = "progress" => Progress \/ inCount # outCount
    /\ dpcAt = "time" => slipped \/ (~Progress /\ inCount # outCount)

\* The run time that was measured is no more than the time that was spent.
MeasuredInv ==
    /\ objectType = "standard" /\ startCount > 0 =>
           spent = Period \/ spent >= Period - dueTime + ran
    /\ objectType = "deferred" /\ Measuring =>
           /\ lastInCount <= inCount /\ lastOutCount <= outCount
           /\ Progress \/ spent = Period \/ spent >= ran

\* Unless they were reset in between the counts tell how often the thread is
\* inside.
CountsInv ==
    objectType = "deferred" /\ state = "started" /\ ~confused =>
        inCount - outCount = inside

IInv == /\ TypeOK
        /\ QueueInv
        /\ ReferencesExact
        /\ FreedIsQuiet
        /\ StartedInv
        /\ LookInv
        /\ MeasuredInv
        /\ CountsInv

-----------------------------------------------------------------------------
(* Promises the code does not keep; see the README. *)

\* ASSERT(0 == pWatch->SuspendCount), watchdog.c:687, and the use of
\* pWatch->Thread after it: the timer of a standard watch that is stopped or
\* suspended does not run its DPC.
CallbackHasThread ==
    objectType = "standard" /\ timerDpc => thread # Null /\ suspendCount = 0

\* "Was in queue - call WdCompleteEvent() here since DPC won't be delivered"
\* (dwd.c:384): an event that is removed from the queue is completed.
NothingLeaked == leaked = 0

\* "This should never happen" (dwd.c:1016): an event that is raised finds the
\* client's DPC out of the queue.
EventsFindTheDpcFree ==
    [][objectType = "deferred" /\ lastEvent' # lastEvent /\ state' = "started"
       => Queued = {}]_vars

\* "We've been stuck long enough" (dwd.c:893): the thread a deferred watch
\* raises a timeout about is in a section and has been for the whole period.
StillStuck ==
    [][Raises /\ lastEvent' = "timeout" /\ objectType = "deferred" /\ ~confused
       => inside > 0 /\ spent = Period]_vars

\* ASSERT(pWatch->OutCount < pWatch->InCount), dwd.c:648, of a thread that is
\* about to leave a section.
LeavesWhatItEntered == inside > 0 /\ state = "started" => outCount < inCount
=============================================================================
