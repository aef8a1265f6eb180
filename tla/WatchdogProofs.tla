--------------------------- MODULE WatchdogProofs ---------------------------
(***************************************************************************)
(* Proofs about Watchdog: the references of a watchdog and its threads are *)
(* exact, a freed watchdog is quiet, and a timeout is earned, for any      *)
(* threads, bounds and periods.  What a step does to the references is one *)
(* of a few things, each with a lemma; the rest of the invariant has one   *)
(* case per action.                                                        *)
(***************************************************************************)
EXTENDS Watchdog, FiniteSetTheorems, TLAPS

EventType == [stage : {"none", "queued", "work", "ending"},
              arg : Threads \cup {Null}]

\* The part of the invariant about events and references.
RefInv ==
    /\ referenceCount \in Nat /\ leaked \in Nat
    /\ threadRefs \in [Threads -> Nat]
    /\ event \in [Events -> EventType]
    /\ lastQueuedThread \in Threads \cup {Null}
    /\ QueueInv
    /\ ReferencesExact

\* The types of the rest of the state, by sort.
SymTypes ==
    /\ objectType \in {"standard", "deferred"}
    /\ lastEvent \in {"none", "timeout", "recovery"}
    /\ thread \in Threads \cup {Null}
    /\ handlerState \in {"idle", "busy"}
    /\ owner \in {"owned", "flushing", "freed"}

BoolTypes ==
    /\ clientDpc \in BOOLEAN /\ crashed \in BOOLEAN
    /\ timer \in BOOLEAN /\ timerDpc \in BOOLEAN

NumTypes ==
    /\ leaked \in 0..MaxLeaks /\ suspendCount \in 0..MaxSuspend
    /\ ran \in 0..Period /\ spent \in 0..Period

LocalTypes ==
    SymTypes /\ BoolTypes /\ NumTypes /\ WatchTypeOK /\ DeferredTypeOK

\* The owner has a reference after a step if it had one before.
SameOwner == owner = "freed" <=> owner' = "freed"

\* Sets of events are finite, and one event more or less counts one.
LEMMA EventSets ==
    /\ \A S \in SUBSET Events : Cardinality(S) \in Nat
    /\ \A S \in SUBSET Events : \A e \in Events \ S :
           Cardinality(S \cup {e}) = Cardinality(S) + 1
    /\ \A S \in SUBSET Events : \A e \in S :
           Cardinality(S \ {e}) = Cardinality(S) - 1
<1>1. \A S \in SUBSET Events : IsFiniteSet(S)
    BY WatchdogAssumption, FS_Subset
<1> QED
    BY <1>1, FS_CardinalityType, FS_AddElement, FS_RemoveElement

\* Only what ReferencesExact reads matters to it.
LEMMA RefsUnchanged ==
    ASSUME RefInv, SameOwner, UNCHANGED <<refVars, lastQueuedThread>>
    PROVE  RefInv'
BY DEF RefInv, SameOwner, refVars, QueueInv, Queued, UnderWay, About, ReferencesExact

\* References are taken for an event that gets into the queue.
LEMMA RefsQueue ==
    ASSUME RefInv, SameOwner, NEW t \in Threads \cup {Null}, QueueClientDpc(t)
    PROVE  RefInv'
<1>1. CASE Queued # {}
    BY <1>1, RefsUnchanged DEF QueueClientDpc
<1>2. CASE Queued = {}
  <2>1. PICK e \in Events \ UnderWay :
            /\ event' = [event EXCEPT ![e] = [stage |-> "queued", arg |-> t]]
            /\ referenceCount' = referenceCount + 1
            /\ AddThreadRef(t, 1)
            /\ lastQueuedThread' = t
            /\ leaked' = leaked
      BY <1>2 DEF QueueClientDpc
  <2>2. event' \in [Events -> EventType]
      BY <2>1 DEF RefInv, EventType
  <2>3. UnderWay' = UnderWay \cup {e}
      BY <2>1, <2>2 DEF RefInv, UnderWay, EventType
  <2>4. Queued' = {e} /\ event'[e].arg = t
      BY <1>2, <2>1, <2>2 DEF RefInv, Queued, EventType
  <2>5. \A s \in Threads : About(s)' = IF s = t THEN About(s) \cup {e} ELSE About(s)
      BY <2>1, <2>2, <2>3 DEF RefInv, About, EventType, UnderWay
  <2>6. Cardinality(UnderWay') = Cardinality(UnderWay) + 1
      BY <2>3, EventSets DEF UnderWay
  <2>7. \A s \in Threads : /\ Cardinality(About(s)) \in Nat
                           /\ Cardinality(About(s)') = IF s = t THEN Cardinality(About(s)) + 1
                                                       ELSE Cardinality(About(s))
      BY <2>5, EventSets DEF About, UnderWay
  <2>8. \A s \in Threads : threadRefs'[s] = IF s = t THEN threadRefs[s] + 1 ELSE threadRefs[s]
      BY <2>1 DEF AddThreadRef
  <2>9. threadRefs' \in [Threads -> Nat]
      BY <2>1 DEF AddThreadRef, RefInv
  <2>10. \A s \in Threads : /\ threadRefs'[s] >= Cardinality(About(s)')
                            /\ leaked' = 0 => threadRefs'[s] = Cardinality(About(s)')
      BY <2>1, <2>7, <2>8 DEF RefInv, ReferencesExact
  <2>11. referenceCount' = Cardinality(UnderWay') + leaked'
                           + (IF owner' = "freed" THEN 0 ELSE 1)
      BY <2>1, <2>6, EventSets DEF RefInv, ReferencesExact, SameOwner, UnderWay
  <2>12. ReferencesExact'
      BY <2>10, <2>11 DEF ReferencesExact
  <2> QED
      BY <2>1, <2>2, <2>4, <2>9, <2>12 DEF RefInv, QueueInv
<1> QED
    BY <1>1, <1>2

\* References are given back for an event that is over.
LEMMA RefsComplete ==
    ASSUME RefInv, SameOwner, NEW e \in UnderWay, Complete(e, event[e].arg)
    PROVE  /\ referenceCount' \in Nat /\ leaked' \in Nat
           /\ threadRefs' \in [Threads -> Nat]
           /\ event' \in [Events -> EventType]
           /\ Queued' = Queued \ {e}
           /\ \A f \in Queued' : event'[f] = event[f]
           /\ UnderWay' = UnderWay \ {e}
           /\ ReferencesExact'
<1> DEFINE t == event[e].arg
<1>1. /\ event' = [event EXCEPT ![e] = [stage |-> "none", arg |-> Null]]
      /\ referenceCount' = referenceCount - 1
      /\ AddThreadRef(t, -1)
      /\ leaked' = leaked
    BY DEF Complete
<1>2. event' \in [Events -> EventType] /\ e \in Events /\ t \in Threads \cup {Null}
    BY <1>1 DEF RefInv, EventType, UnderWay
<1>3. UnderWay' = UnderWay \ {e}
    BY <1>1, <1>2 DEF RefInv, UnderWay, EventType
<1>4. Queued' = Queued \ {e} /\ \A f \in Queued' : event'[f] = event[f]
    BY <1>1, <1>2 DEF RefInv, Queued, EventType
<1>5. \A s \in Threads : About(s)' = IF s = t THEN About(s) \ {e} ELSE About(s)
    BY <1>1, <1>2, <1>3 DEF RefInv, About, EventType, UnderWay
<1>6. \A s \in Threads : s = t => e \in About(s)
    BY DEF About
<1>7. \A s \in Threads : /\ Cardinality(About(s)) \in Nat
                         /\ s = t => Cardinality(About(s)) >= 1
                         /\ Cardinality(About(s)') = IF s = t THEN Cardinality(About(s)) - 1
                                                     ELSE Cardinality(About(s))
  <2>1. \A s \in Threads : About(s) \in SUBSET Events /\ About(s)' \in SUBSET Events
      BY <1>5 DEF About, UnderWay
  <2>2. ASSUME NEW s \in Threads, s = t
        PROVE  Cardinality(About(s)') = Cardinality(About(s)) - 1
      BY <1>5, <1>6, <2>1, <2>2, EventSets
  <2>3. \A s \in Threads : Cardinality(About(s)) \in Nat /\ Cardinality(About(s)') \in Nat
      BY <2>1, EventSets
  <2> HIDE DEF t
  <2> QED
      BY <1>5, <2>2, <2>3
<1>8. Cardinality(UnderWay') = Cardinality(UnderWay) - 1 /\ Cardinality(UnderWay') \in Nat
    BY <1>3, EventSets DEF UnderWay
<1>9. \A s \in Threads : threadRefs'[s] = IF s = t THEN threadRefs[s] - 1 ELSE threadRefs[s]
    BY <1>1 DEF AddThreadRef
<1>10. \A s \in Threads : /\ threadRefs'[s] >= Cardinality(About(s)')
                          /\ leaked' = 0 => threadRefs'[s] = Cardinality(About(s)')
                          /\ threadRefs'[s] \in Nat
    BY <1>1, <1>7, <1>9 DEF RefInv, ReferencesExact
<1>11. threadRefs' \in [Threads -> Nat]
    BY <1>1, <1>10 DEF AddThreadRef
<1>12. referenceCount' = Cardinality(UnderWay') + leaked'
                         + (IF owner' = "freed" THEN 0 ELSE 1)
    BY <1>1, <1>8, EventSets DEF RefInv, ReferencesExact, SameOwner, UnderWay
<1>13. ReferencesExact'
    BY <1>10, <1>12 DEF ReferencesExact
<1>14. referenceCount' \in Nat /\ leaked' \in Nat
    BY <1>1, <1>8, <1>12 DEF RefInv
<1> QED
    BY <1>2, <1>3, <1>4, <1>11, <1>13, <1>14

\* The stop that empties the queue completes the event it finds there.
LEMMA RefsRemove ==
    ASSUME RefInv, SameOwner, RemoveClientDpc, lastQueuedThread' = Null
    PROVE  RefInv' /\ Queued' = {}
<1>1. CASE Queued = {}
  <2>1. Queued' = {}
      BY <1>1 DEF RemoveClientDpc, refVars, Queued
  <2>2. ReferencesExact'
      BY <1>1 DEF RemoveClientDpc, RefInv, SameOwner, refVars, UnderWay, About, ReferencesExact
  <2> QED
      BY <1>1, <2>1, <2>2 DEF RemoveClientDpc, RefInv, refVars, QueueInv
<1>2. CASE Queued # {}
  <2>1. PICK e \in Queued : Complete(e, lastQueuedThread)
      BY <1>2 DEF RemoveClientDpc
  <2>2. event[e].arg = lastQueuedThread /\ e \in UnderWay /\ Queued = {e}
      BY DEF RefInv, QueueInv, Queued, UnderWay
  <2>3. Complete(e, event[e].arg)
      BY <2>1, <2>2
  <2> QED
      BY <2>2, <2>3, RefsComplete DEF RefInv, QueueInv
<1> QED
    BY <1>1, <1>2

\* The client takes an event from the queue, goes on with it or completes it.
LEMMA RefsClient ==
    ASSUME RefInv, NEW e \in Events, HandOver(e) \/ EndWork(e) \/ CompleteEvent(e)
    PROVE  RefInv'
<1>a. SameOwner
    BY DEF HandOver, EndWork, CompleteEvent, SameOwner, clientVars
<1>1. ASSUME NEW s \in {"work", "ending"}, e \in UnderWay,
             event' = [event EXCEPT ![e].stage = s],
             UNCHANGED <<referenceCount, threadRefs, leaked, lastQueuedThread>>
      PROVE  RefInv'
  <2>1. event' \in [Events -> EventType]
      BY <1>1 DEF RefInv, EventType
  <2>2. \A f \in Events : /\ event'[f].arg = event[f].arg
                          /\ event'[f].stage = IF f = e THEN s ELSE event[f].stage
      BY <1>1 DEF RefInv, EventType
  <2>3. UnderWay' = UnderWay /\ Queued' \subseteq Queued
      BY <1>1, <2>2 DEF UnderWay, Queued
  <2>4. QueueInv'
      BY <1>1, <2>2, <2>3 DEF RefInv, QueueInv, Queued
  <2>5. \A t \in Threads : About(t)' = About(t)
      BY <2>2, <2>3 DEF About, UnderWay
  <2>6. ReferencesExact'
      BY <1>a, <1>1, <2>3, <2>5 DEF RefInv, ReferencesExact, SameOwner
  <2> QED
      BY <1>1, <2>1, <2>4, <2>6 DEF RefInv
<1>2. CASE HandOver(e)
    BY <1>1, <1>2 DEF HandOver, Queued, UnderWay, watchVars
<1>3. CASE EndWork(e)
    BY <1>1, <1>3 DEF EndWork, UnderWay, watchVars
<1>4. CASE CompleteEvent(e)
  <2>1. e \in UnderWay /\ Complete(e, event[e].arg)
      BY <1>4 DEF CompleteEvent, Queued, UnderWay
  <2>2. QueueInv' /\ lastQueuedThread' = lastQueuedThread
      BY <1>a, <1>4, <2>1, RefsComplete DEF CompleteEvent, RefInv, QueueInv, watchVars
  <2> QED
      BY <1>a, <2>1, <2>2, RefsComplete DEF RefInv
<1> QED
    BY <1>2, <1>3, <1>4

\* A stop after a timeout leaves a reference behind, or queues the recovery.
LEMMA RefsLastRecovery ==
    ASSUME RefInv, SameOwner, QueueLastRecovery, lastQueuedThread' = Null
    PROVE  RefInv'
<1>1. CASE Queued = {}
    BY <1>1, RefsQueue DEF QueueLastRecovery
<1>2. CASE Queued # {}
  <2>1. PICK e \in Queued : event' = [event EXCEPT ![e].arg = Null]
      BY <1>2 DEF QueueLastRecovery
  <2>2. /\ leaked' = leaked + 1 /\ referenceCount' = referenceCount + 1
        /\ threadRefs' = threadRefs
      BY <1>2 DEF QueueLastRecovery
  <2>3. event' \in [Events -> EventType]
      BY <2>1 DEF RefInv, EventType
  <2>4. \A f \in Events : /\ event'[f].stage = event[f].stage
                          /\ event'[f].arg = IF f = e THEN Null ELSE event[f].arg
      BY <2>1 DEF RefInv, EventType
  <2>5. UnderWay' = UnderWay /\ Queued' = Queued /\ Queued = {e}
      BY <2>4 DEF UnderWay, Queued, RefInv, QueueInv
  <2>6. \A t \in Threads : Cardinality(About(t)') <= Cardinality(About(t))
    <3>1. \A t \in Threads : About(t)' \subseteq About(t)
        BY <2>4, <2>5, WatchdogAssumption DEF About, UnderWay
    <3>2. \A t \in Threads : About(t) \subseteq Events
        BY DEF About, UnderWay
    <3>3. \A S \in SUBSET Events : IsFiniteSet(S)
        BY WatchdogAssumption, FS_Subset
    <3> QED
        BY <3>1, <3>2, <3>3, FS_Subset
  <2>7. \A t \in Threads : Cardinality(About(t)') \in Nat /\ Cardinality(About(t)) \in Nat
      BY <2>5, EventSets DEF About, UnderWay
  <2>8. \A t \in Threads : threadRefs'[t] >= Cardinality(About(t)')
      BY <2>2, <2>6, <2>7 DEF RefInv, ReferencesExact
  <2>9. referenceCount' = Cardinality(UnderWay') + leaked'
                          + (IF owner' = "freed" THEN 0 ELSE 1)
    <3>1. Cardinality(UnderWay) \in Nat
        BY EventSets DEF UnderWay
    <3> QED
        BY <2>2, <2>5, <3>1 DEF RefInv, ReferencesExact, SameOwner
  <2>10. ReferencesExact'
      BY <2>2, <2>8, <2>9 DEF RefInv, ReferencesExact
  <2>11. QueueInv'
      BY <2>4, <2>5 DEF QueueInv, Queued
  <2> QED
      BY <2>2, <2>3, <2>10, <2>11 DEF RefInv
<1> QED
    BY <1>1, <1>2

\* Free gives up the owner's reference.
LEMMA RefsEndFree ==
    ASSUME RefInv, EndFree
    PROVE  RefInv'
<1>1. /\ referenceCount' = referenceCount - 1
      /\ owner = "flushing" /\ owner' = "freed"
      /\ UNCHANGED <<threadRefs, event, leaked, lastQueuedThread>>
    BY DEF EndFree, watchVars
<1>2. UnderWay' = UnderWay /\ Queued' = Queued
    BY <1>1 DEF UnderWay, Queued
<1>3. Cardinality(UnderWay) \in Nat
    BY EventSets DEF UnderWay
<1>4. ReferencesExact' /\ referenceCount' \in Nat
    BY <1>1, <1>2, <1>3 DEF RefInv, ReferencesExact, About
<1> QED
    BY <1>1, <1>2, <1>4 DEF RefInv, QueueInv

-----------------------------------------------------------------------------
(* The steps, one case per action. *)

\* Events and references, in every step of either type.
LEMMA RefsStep ==
    ASSUME IInv, Next
    PROVE  RefInv'
<1>a. RefInv /\ thread \in Threads \cup {Null}
    BY DEF IInv, TypeOK, ObjectTypeOK, RefInv, EventType
<1>u. ASSUME SameOwner, UNCHANGED <<refVars, lastQueuedThread>>
      PROVE  RefInv'
    BY <1>a, <1>u, RefsUnchanged
<1>1. CASE objectType = "standard" /\ WatchNext
  <2>1. CASE \E t \in Threads : StartWatch(t)
      BY <1>u, <2>1 DEF StartWatch, SameOwner, clientVars
  <2>2. ASSUME NEW n, StopWatch(n), SameOwner PROVE RefInv'
    <3>1. CASE startCount > 0 /\ n = 0
        BY <1>a, <2>2, <3>1, RefsRemove DEF StopWatch, Disarm
    <3>2. CASE ~(startCount > 0 /\ n = 0)
        BY <1>u, <2>2, <3>2 DEF StopWatch
    <3> QED
        BY <3>1, <3>2
  <2>3. CASE \E b \in BOOLEAN : StopWatchByOwner(b)
      BY <2>2, <2>3 DEF StopWatchByOwner, SameOwner
  <2>4. CASE FreeWatchdog
      BY <2>2, <2>4 DEF FreeWatchdog, SameOwner
  <2>5. CASE SuspendWatch \/ ResetWatch \/ \E b \in BOOLEAN : ResumeWatch(b)
      BY <1>u, <2>5
         DEF SuspendWatch, ResetWatch, ResumeWatch, SameOwner, clientVars, watchVars
  <2>6. CASE WatchdogDpcCallback
    <3>1. SameOwner
        BY <2>6 DEF WatchdogDpcCallback, clientVars, SameOwner
    <3>2. QueueClientDpc(thread) \/ UNCHANGED <<refVars, lastQueuedThread>>
        BY <2>6 DEF WatchdogDpcCallback
    <3> QED
        BY <1>a, <1>u, <3>1, <3>2, RefsQueue
  <2>7. CASE WatchdogDpcCrash
      BY <1>u, <2>7 DEF WatchdogDpcCrash, SameOwner, watchVars
  <2>8. CASE \E e \in Events : StandardClient(e)
      BY <1>a, <2>8, RefsClient DEF StandardClient
  <2>9. CASE StandardKernel
    <3>1. CASE ExpireTimer \/ Tick
        BY <1>u, <3>1 DEF ExpireTimer, Tick, SameOwner, clientVars, watchVars
    <3> QED
        BY <1>a, <2>9, <3>1, RefsEndFree DEF StandardKernel
  <2> QED
      BY <1>1, <2>1, <2>3, <2>4, <2>5, <2>6, <2>7, <2>8, <2>9 DEF WatchNext
<1>2. CASE objectType = "deferred" /\ DeferredNext
  <2>1. CASE StartDeferredWatch
      BY <1>u, <2>1 DEF StartDeferredWatch, SameOwner, clientVars
  <2>2. ASSUME StopDeferredWatch, SameOwner PROVE RefInv'
    <3>1. CASE state = "started" /\ lastEvent = "timeout"
        BY <1>a, <2>2, <3>1, RefsLastRecovery DEF StopDeferredWatch
    <3>2. CASE state = "started" /\ lastEvent # "timeout"
        BY <1>a, <2>2, <3>2, RefsRemove DEF StopDeferredWatch
    <3>3. CASE state # "started"
        BY <1>u, <2>2, <3>3 DEF StopDeferredWatch
    <3> QED
        BY <3>1, <3>2, <3>3
  <2>3. CASE StopDeferredWatchByOwner
      BY <2>2, <2>3 DEF StopDeferredWatchByOwner, SameOwner
  <2>4. CASE FreeDeferredWatchdog
      BY <2>2, <2>4 DEF FreeDeferredWatchdog, SameOwner
  <2>5. CASE \/ SuspendDeferredWatch \/ ResetDeferredWatch
             \/ \E b \in BOOLEAN : ResumeDeferredWatch(b)
      BY <1>u, <2>5
         DEF SuspendDeferredWatch, ResetDeferredWatch, ResumeDeferredWatch,
             SameOwner, clientVars, watchVars
  <2>6. CASE ExitMonitoredSection \/ \E t \in Threads : EnterMonitoredSection(t)
      BY <1>u, <2>6
         DEF ExitMonitoredSection, Move, EnterMonitoredSection, SameOwner, clientVars, watchVars
  <2>7. CASE DeferredCallback
    <3>1. SameOwner
        BY <2>7
           DEF DeferredCallback, DeferredWatchdogDpcCallback, LookInside,
               Snapshot, LookForProgress, LookAtTime, objectVars, clientVars,
               SameOwner
    <3>2. \/ QueueClientDpc(thread) \/ QueueClientDpc(Null)
          \/ UNCHANGED <<refVars, lastQueuedThread>>
        BY <2>7
           DEF DeferredCallback, DeferredWatchdogDpcCallback, FirstLook,
               SecondLook, NoLook, LookInside, Snapshot, LookForProgress,
               LookAtTime, QueueDeferredEvent, objectVars, watchVars
    <3> QED
        BY <1>a, <1>u, <3>1, <3>2, RefsQueue
  <2>8. CASE \E e \in Events : DeferredClient(e)
      BY <1>a, <2>8, RefsClient DEF DeferredClient
  <2>9. CASE DeferredKernel
    <3>1. CASE ExpireTimer \/ Tick
        BY <1>u, <3>1 DEF ExpireTimer, Tick, SameOwner, clientVars, watchVars
    <3> QED
        BY <1>a, <2>9, <3>1, RefsEndFree DEF DeferredKernel
  <2> QED
      BY <1>2, <2>1, <2>3, <2>4, <2>5, <2>6, <2>7, <2>8, <2>9 DEF DeferredNext
<1> QED
    BY <1>1, <1>2 DEF Next

\* Queueing and removing the client's DPC lose no references.
LEMMA NothingLost ==
    /\ \A t : QueueClientDpc(t) => leaked' = leaked
    /\ RemoveClientDpc => leaked' = leaked
BY DEF QueueClientDpc, RemoveClientDpc, Complete, refVars

\* What the client does to an event queues none, and touches nothing else.
LEMMA ClientQueues ==
    ASSUME RefInv, NEW e \in Events, HandOver(e) \/ EndWork(e) \/ CompleteEvent(e)
    PROVE  /\ Queued' \subseteq Queued /\ UnderWay' \subseteq UnderWay
           /\ leaked' = leaked /\ handlerState' \in {"idle", "busy"} \cup {handlerState}
           /\ UNCHANGED <<objectType, timerVars, timeVars, owner, crashed, watchVars>>
<1>1. CASE HandOver(e) \/ EndWork(e)
  <2>1. PICK s \in {"work", "ending"} : event' = [event EXCEPT ![e].stage = s]
      BY <1>1 DEF HandOver, EndWork
  <2>2. event[e].stage # "none"
      BY <1>1 DEF HandOver, EndWork, Queued
  <2>3. Queued' \subseteq Queued /\ UnderWay' \subseteq UnderWay
      BY <2>1, <2>2 DEF RefInv, EventType, Queued, UnderWay
  <2> QED
      BY <1>1, <2>3 DEF HandOver, EndWork
<1>2. CASE CompleteEvent(e)
  <2>1. event' = [event EXCEPT ![e] = [stage |-> "none", arg |-> Null]]
      BY <1>2 DEF CompleteEvent, Complete
  <2>2. Queued' \subseteq Queued /\ UnderWay' \subseteq UnderWay
      BY <2>1 DEF RefInv, EventType, Queued, UnderWay
  <2> QED
      BY <1>2, <2>2 DEF CompleteEvent, Complete, clientVars
<1> QED
    BY <1>1, <1>2

\* The two parts of the type invariant.
LEMMA Types ==
    /\ IInv => RefInv /\ LocalTypes
    /\ RefInv' /\ LocalTypes' => TypeOK'
<1>1. IInv => RefInv /\ LocalTypes
    BY DEF IInv, TypeOK, ObjectTypeOK, RefInv, EventType, LocalTypes,
       SymTypes, BoolTypes, NumTypes
<1>2. RefInv' /\ LocalTypes' => TypeOK'
    BY DEF TypeOK, ObjectTypeOK, RefInv, EventType, LocalTypes,
       SymTypes, BoolTypes, NumTypes
<1> QED
    BY <1>1, <1>2

\* Types, in the steps of a standard watch.
LEMMA StandardTypes ==
    ASSUME IInv, objectType = "standard", WatchNext, UNCHANGED deferredVars
    PROVE  LocalTypes'
<1>a. RefInv /\ LocalTypes
    BY Types
<1> USE DEF StartWatch, RefreshTime, StopWatchByOwner, StopWatch, Disarm,
       FreeWatchdog, SuspendWatch, ResumeWatch, ResetWatch,
       WatchdogDpcCallback, LookAgain, WatchdogDpcCrash,
       StandardClient, StandardKernel, ExpireTimer, Tick, EndFree,
       FlushQueuedDpcs, WatchNext, refVars, watchVars, clientVars,
       timerVars, timeVars, standardVars, deferredVars, lookVars, sectionVars
<1>1. SymTypes'
    BY <1>a, ClientQueues DEF LocalTypes, SymTypes
<1>2. BoolTypes'
    BY <1>a, ClientQueues DEF LocalTypes, BoolTypes
<1>3. NumTypes'
    BY <1>a, ClientQueues, NothingLost, WatchdogAssumption
       DEF LocalTypes, NumTypes
<1>4. WatchTypeOK'
    BY <1>a, ClientQueues, WatchdogAssumption, WatchAssumption
       DEF LocalTypes, NumTypes, SymTypes, WatchTypeOK
<1>5. DeferredTypeOK'
    BY <1>a DEF LocalTypes, DeferredTypeOK
<1> QED
    BY <1>1, <1>2, <1>3, <1>4, <1>5 DEF LocalTypes

\* Types of the counts, in the steps of a deferred watch.
LEMMA SectionTypes ==
    ASSUME IInv, DeferredNext
    PROVE  DeferredTypeOK'
<1>a. RefInv /\ LocalTypes /\ DeferredTypeOK
    BY Types DEF LocalTypes
<1> USE DeferredWatchAssumption DEF DeferredTypeOK, deferredVars, lookVars, sectionVars
<1>b. ASSUME StopDeferredWatch PROVE DeferredTypeOK'
  <2>1. CASE state = "started"
      BY <1>a, <1>b, <2>1 DEF StopDeferredWatch, ClearCounts
  <2>2. CASE state # "started"
      BY <1>a, <1>b, <2>2 DEF StopDeferredWatch
  <2> QED
      BY <2>1, <2>2
<1>1. CASE StartDeferredWatch
  <2>1. {inCount, outCount, lastInCount, lastOutCount}' \subseteq 0..MaxEnter
      BY <1>1 DEF StartDeferredWatch, ClearCounts
  <2>2. /\ state' \in {"stopped", "started"} /\ trigger' \in 0..2
        /\ inside' \in 0..MaxNest
      BY <1>a, <1>1 DEF StartDeferredWatch, ClearCounts
  <2>3. confused' \in BOOLEAN /\ UNCHANGED lookVars
      BY <1>1 DEF StartDeferredWatch
  <2> QED
      BY <1>a, <2>1, <2>2, <2>3 DEF lookVars
<1>2. CASE StopDeferredWatchByOwner
    BY <1>b, <1>2 DEF StopDeferredWatchByOwner
<1>3. CASE FreeDeferredWatchdog
    BY <1>b, <1>3 DEF FreeDeferredWatchdog
<1>4. CASE SuspendDeferredWatch
    BY <1>a, <1>4 DEF SuspendDeferredWatch
<1>5. CASE ResetDeferredWatch
    BY <1>a, <1>5 DEF ResetDeferredWatch
<1>6. CASE \E b \in BOOLEAN : ResumeDeferredWatch(b)
    BY <1>a, <1>6 DEF ResumeDeferredWatch
<1>7. CASE \E t \in Threads : EnterMonitoredSection(t)
    BY <1>a, <1>7 DEF EnterMonitoredSection, Move
<1>8. CASE ExitMonitoredSection
    BY <1>a, <1>8 DEF ExitMonitoredSection, Move
<1>9. CASE DeferredCallback
  <2>1. CASE DeferredWatchdogDpcCallback
    <3>1. trigger' \in 0..2 /\ dpcAt' \in {"out", "section", "progress"}
        BY <1>a, <2>1
           DEF DeferredWatchdogDpcCallback, FirstLook, SecondLook, NoLook,
               LockFree, QueueDeferredEvent
    <3> QED
        BY <1>a, <2>1, <3>1 DEF DeferredWatchdogDpcCallback
  <2>2. CASE LookInside \/ LookForProgress
      BY <1>a, <2>2 DEF LookInside, LookForProgress
  <2>3. CASE Snapshot
      BY <1>a, <2>3 DEF Snapshot
  <2>4. CASE LookAtTime
    <3>1. trigger' \in 0..2 /\ dpcAt' = "out" /\ slipped' = FALSE
        BY <1>a, <2>4 DEF LookAtTime, QueueDeferredEvent
    <3> QED
        BY <1>a, <2>4, <3>1 DEF LookAtTime
  <2> QED
      BY <1>9, <2>1, <2>2, <2>3, <2>4 DEF DeferredCallback
<1>10. CASE \E e \in Events : DeferredClient(e)
    BY <1>a, <1>10, ClientQueues DEF DeferredClient, ResumeEvents
<1>11. CASE DeferredKernel
    BY <1>a, <1>11 DEF DeferredKernel
<1> QED
    BY <1>1, <1>2, <1>3, <1>4, <1>5, <1>6, <1>7, <1>8, <1>9, <1>10, <1>11
       DEF DeferredNext

\* Types, in the steps of a deferred watch.
LEMMA DeferredTypes ==
    ASSUME IInv, objectType = "deferred", DeferredNext, UNCHANGED standardVars
    PROVE  LocalTypes'
<1>a. RefInv /\ LocalTypes
    BY Types
<1> USE DEF StartDeferredWatch, ClearCounts, StopDeferredWatchByOwner,
       StopDeferredWatch, QueueLastRecovery, FreeDeferredWatchdog,
       SuspendDeferredWatch, ResetDeferredWatch, ResumeDeferredWatch,
       EnterMonitoredSection, ExitMonitoredSection, Move,
       DeferredCallback, DeferredWatchdogDpcCallback, FirstLook,
           SecondLook, NoLook, LookInside, Snapshot, LookForProgress,
           LookAtTime, objectVars,
       QueueDeferredEvent, DeferredClient, ResumeEvents,
       DeferredKernel, ExpireTimer, Tick, EndFree, FlushQueuedDpcs,
       DeferredNext, refVars, watchVars, clientVars, timerVars,
       timeVars, deferredVars, lookVars, sectionVars, standardVars
<1>1. SymTypes'
    BY <1>a, ClientQueues DEF LocalTypes, SymTypes
<1>2. BoolTypes'
    BY <1>a, ClientQueues DEF LocalTypes, BoolTypes
<1>3. NumTypes'
    BY <1>a, ClientQueues, NothingLost, WatchdogAssumption
       DEF LocalTypes, NumTypes
<1>4. WatchTypeOK'
    BY <1>a DEF LocalTypes, WatchTypeOK
<1>5. DeferredTypeOK'
    BY SectionTypes
<1> QED
    BY <1>1, <1>2, <1>3, <1>4, <1>5 DEF LocalTypes

\* The timer, and the quiet after Free, in the steps of a standard watch.
LEMMA StandardStarted ==
    ASSUME IInv, RefInv', objectType = "standard", WatchNext, UNCHANGED deferredVars
    PROVE  StartedInv' /\ FreedIsQuiet'
<1>a. RefInv /\ LocalTypes /\ StartedInv /\ FreedIsQuiet
    BY Types DEF IInv
<1>1. CASE \E t \in Threads : StartWatch(t)
    BY <1>a, <1>1, WatchdogAssumption
       DEF StartWatch, RefreshTime, StartedInv, FreedIsQuiet, LocalTypes,
           SymTypes, BoolTypes, NumTypes, WatchTypeOK, Queued, refVars,
           watchVars, clientVars, timerVars, timeVars, standardVars
<1>2. CASE \E b \in BOOLEAN : StopWatchByOwner(b)
    BY <1>a, <1>2, WatchdogAssumption
       DEF StopWatchByOwner, StopWatch, Disarm, StartedInv, FreedIsQuiet,
           LocalTypes, SymTypes, BoolTypes, NumTypes, WatchTypeOK, Queued,
           refVars, watchVars, clientVars, timerVars, timeVars,
           standardVars
<1>3. CASE FreeWatchdog
    BY <1>a, <1>3, WatchdogAssumption
       DEF FreeWatchdog, StopWatch, Disarm, StartedInv, FreedIsQuiet,
           LocalTypes, SymTypes, BoolTypes, NumTypes, WatchTypeOK, Queued,
           refVars, watchVars, clientVars, timerVars, timeVars,
           standardVars
<1>4. CASE SuspendWatch
    BY <1>a, <1>4, WatchdogAssumption
       DEF SuspendWatch, StartedInv, FreedIsQuiet, LocalTypes, SymTypes,
           BoolTypes, NumTypes, WatchTypeOK, Queued, refVars, watchVars,
           clientVars, timerVars, timeVars, standardVars
<1>5. CASE \E b \in BOOLEAN : ResumeWatch(b)
    BY <1>a, <1>5, WatchdogAssumption
       DEF ResumeWatch, RefreshTime, StartedInv, FreedIsQuiet, LocalTypes,
           SymTypes, BoolTypes, NumTypes, WatchTypeOK, Queued, refVars,
           watchVars, clientVars, timerVars, timeVars, standardVars
<1>6. CASE ResetWatch
    BY <1>a, <1>6, WatchdogAssumption
       DEF ResetWatch, RefreshTime, StartedInv, FreedIsQuiet, LocalTypes,
           SymTypes, BoolTypes, NumTypes, WatchTypeOK, Queued, refVars,
           watchVars, clientVars, timerVars, timeVars, standardVars
<1>7. CASE WatchdogDpcCallback
    BY <1>a, <1>7, WatchdogAssumption
       DEF WatchdogDpcCallback, LookAgain, StartedInv, FreedIsQuiet,
           LocalTypes, SymTypes, BoolTypes, NumTypes, WatchTypeOK, Queued,
           refVars, watchVars, clientVars, timerVars, timeVars,
           standardVars
<1>8. CASE WatchdogDpcCrash
    BY <1>a, <1>8, WatchdogAssumption
       DEF WatchdogDpcCrash, StartedInv, FreedIsQuiet, LocalTypes,
           SymTypes, BoolTypes, NumTypes, WatchTypeOK, Queued, refVars,
           watchVars, clientVars, timerVars, timeVars, standardVars
<1>9. CASE \E e \in Events : StandardClient(e)
    BY <1>a, <1>9, ClientQueues, WatchdogAssumption
       DEF StandardClient, StartedInv, FreedIsQuiet, LocalTypes, SymTypes,
           BoolTypes, NumTypes, WatchTypeOK, Queued, refVars, watchVars,
           clientVars, timerVars, timeVars, standardVars
<1>10. CASE StandardKernel
    BY <1>a, <1>10, WatchdogAssumption
       DEF StandardKernel, ExpireTimer, Tick, EndFree, FlushQueuedDpcs,
           StartedInv, FreedIsQuiet, LocalTypes, SymTypes, BoolTypes,
           NumTypes, WatchTypeOK, Queued, refVars, watchVars, clientVars,
           timerVars, timeVars, standardVars
<1> QED
    BY <1>1, <1>2, <1>3, <1>4, <1>5, <1>6, <1>7, <1>8, <1>9, <1>10
       DEF WatchNext

\* The same of a deferred watch.
LEMMA DeferredStarted ==
    ASSUME IInv, RefInv', objectType = "deferred", DeferredNext, UNCHANGED standardVars
    PROVE  StartedInv' /\ FreedIsQuiet'
<1>a. RefInv /\ LocalTypes /\ StartedInv /\ FreedIsQuiet /\ LookInv
    BY Types DEF IInv
<1>1. CASE StartDeferredWatch
    BY <1>a, <1>1, WatchdogAssumption
       DEF StartDeferredWatch, ClearCounts, StartedInv, FreedIsQuiet,
           LocalTypes, SymTypes, BoolTypes, NumTypes, DeferredTypeOK,
           Queued, refVars, watchVars, clientVars, timerVars, timeVars,
           deferredVars, lookVars, sectionVars
<1>2. CASE StopDeferredWatchByOwner
    BY <1>a, <1>2, WatchdogAssumption
       DEF StopDeferredWatchByOwner, StopDeferredWatch, ClearCounts,
           QueueLastRecovery, StartedInv, FreedIsQuiet, LocalTypes,
           SymTypes, BoolTypes, NumTypes, DeferredTypeOK, Queued, refVars,
           watchVars, clientVars, timerVars, timeVars, deferredVars,
           lookVars, sectionVars
<1>3. CASE FreeDeferredWatchdog
    BY <1>a, <1>3, WatchdogAssumption
       DEF FreeDeferredWatchdog, StopDeferredWatch, ClearCounts,
           QueueLastRecovery, StartedInv, FreedIsQuiet, LocalTypes,
           SymTypes, BoolTypes, NumTypes, DeferredTypeOK, Queued, refVars,
           watchVars, clientVars, timerVars, timeVars, deferredVars,
           lookVars, sectionVars
<1>4. CASE SuspendDeferredWatch
    BY <1>a, <1>4, WatchdogAssumption
       DEF SuspendDeferredWatch, StartedInv, FreedIsQuiet, LocalTypes,
           SymTypes, BoolTypes, NumTypes, DeferredTypeOK, Queued, refVars,
           watchVars, clientVars, timerVars, timeVars, deferredVars,
           lookVars, sectionVars
<1>5. CASE ResetDeferredWatch
    BY <1>a, <1>5, WatchdogAssumption
       DEF ResetDeferredWatch, StartedInv, FreedIsQuiet, LocalTypes,
           SymTypes, BoolTypes, NumTypes, DeferredTypeOK, Queued, refVars,
           watchVars, clientVars, timerVars, timeVars, deferredVars,
           lookVars, sectionVars
<1>6. CASE \E b \in BOOLEAN : ResumeDeferredWatch(b)
    BY <1>a, <1>6, WatchdogAssumption
       DEF ResumeDeferredWatch, StartedInv, FreedIsQuiet, LocalTypes,
           SymTypes, BoolTypes, NumTypes, DeferredTypeOK, Queued, refVars,
           watchVars, clientVars, timerVars, timeVars, deferredVars,
           lookVars, sectionVars
<1>7. CASE \E t \in Threads : EnterMonitoredSection(t)
    BY <1>a, <1>7, WatchdogAssumption
       DEF EnterMonitoredSection, Move, StartedInv, FreedIsQuiet, LocalTypes,
           SymTypes, BoolTypes, NumTypes, DeferredTypeOK, Queued, refVars,
           watchVars, clientVars, timerVars, timeVars, deferredVars,
           lookVars, sectionVars
<1>8. CASE ExitMonitoredSection
    BY <1>a, <1>8, WatchdogAssumption
       DEF ExitMonitoredSection, Move, StartedInv, FreedIsQuiet, LocalTypes,
           SymTypes, BoolTypes, NumTypes, DeferredTypeOK, Queued, refVars,
           watchVars, clientVars, timerVars, timeVars, deferredVars,
           lookVars, sectionVars
<1>9. CASE DeferredCallback
  <2>1. state = "started" \/ (NoLook /\ DeferredWatchdogDpcCallback)
      BY <1>a, <1>9
         DEF LookInv, DeferredCallback, DeferredWatchdogDpcCallback, LookInside,
             Snapshot, LookForProgress, LookAtTime
  <2>2. state' = state /\ owner' = owner /\ timer' = timer
        /\ objectType' = objectType
      BY <1>9
         DEF DeferredCallback, DeferredWatchdogDpcCallback, LookInside,
             Snapshot, LookForProgress, LookAtTime, objectVars, clientVars,
             timerVars
  <2>3. StartedInv'
      BY <1>a, <2>2 DEF StartedInv
  <2>4. CASE state = "started"
      BY <1>a, <2>2, <2>3, <2>4 DEF StartedInv, FreedIsQuiet
  <2>5. CASE NoLook /\ DeferredWatchdogDpcCallback
      BY <1>a, <2>2, <2>3, <2>5
         DEF NoLook, DeferredWatchdogDpcCallback, FreedIsQuiet, Queued, refVars
  <2> QED
      BY <2>1, <2>4, <2>5
<1>10. CASE \E e \in Events : DeferredClient(e)
    BY <1>a, <1>10, ClientQueues, WatchdogAssumption
       DEF DeferredClient, ResumeEvents, StartedInv, FreedIsQuiet,
           LocalTypes, SymTypes, BoolTypes, NumTypes, DeferredTypeOK,
           Queued, refVars, watchVars, clientVars, timerVars, timeVars,
           deferredVars, lookVars, sectionVars
<1>11. CASE DeferredKernel
    BY <1>a, <1>11, WatchdogAssumption
       DEF DeferredKernel, ExpireTimer, Tick, EndFree, FlushQueuedDpcs,
           StartedInv, FreedIsQuiet, LocalTypes, SymTypes, BoolTypes,
           NumTypes, DeferredTypeOK, Queued, refVars, watchVars,
           clientVars, timerVars, timeVars, deferredVars, lookVars, sectionVars
<1> QED
    BY <1>1, <1>2, <1>3, <1>4, <1>5, <1>6, <1>7, <1>8, <1>9, <1>10, <1>11
       DEF DeferredNext

\* Run time, in the steps of a standard watch.
LEMMA StandardMeasured ==
    ASSUME IInv, RefInv', objectType = "standard", WatchNext, UNCHANGED deferredVars
    PROVE  MeasuredInv' /\ CountsInv'
<1>a. RefInv /\ LocalTypes /\ StartedInv /\ MeasuredInv /\ CountsInv
    BY Types DEF IInv
<1>1. CASE \E t \in Threads : StartWatch(t)
    BY <1>a, <1>1, WatchdogAssumption
       DEF StartWatch, RefreshTime, MeasuredInv, Measuring, CountsInv, StartedInv,
           LocalTypes, SymTypes, BoolTypes, NumTypes, WatchTypeOK,
           watchVars, clientVars, timerVars, timeVars, standardVars
<1>2. CASE \E b \in BOOLEAN : StopWatchByOwner(b)
    BY <1>a, <1>2, WatchdogAssumption
       DEF StopWatchByOwner, StopWatch, Disarm, MeasuredInv, Measuring, CountsInv,
           StartedInv, LocalTypes, SymTypes, BoolTypes, NumTypes,
           WatchTypeOK, watchVars, clientVars, timerVars, timeVars,
           standardVars
<1>3. CASE FreeWatchdog
    BY <1>a, <1>3, WatchdogAssumption
       DEF FreeWatchdog, StopWatch, Disarm, MeasuredInv, Measuring, CountsInv,
           StartedInv, LocalTypes, SymTypes, BoolTypes, NumTypes,
           WatchTypeOK, watchVars, clientVars, timerVars, timeVars,
           standardVars
<1>4. CASE SuspendWatch
    BY <1>a, <1>4, WatchdogAssumption
       DEF SuspendWatch, MeasuredInv, Measuring, CountsInv, StartedInv, LocalTypes,
           SymTypes, BoolTypes, NumTypes, WatchTypeOK, watchVars,
           clientVars, timerVars, timeVars, standardVars
<1>5. CASE \E b \in BOOLEAN : ResumeWatch(b)
    BY <1>a, <1>5, WatchdogAssumption
       DEF ResumeWatch, RefreshTime, MeasuredInv, Measuring, CountsInv, StartedInv,
           LocalTypes, SymTypes, BoolTypes, NumTypes, WatchTypeOK,
           watchVars, clientVars, timerVars, timeVars, standardVars
<1>6. CASE ResetWatch
    BY <1>a, <1>6, WatchdogAssumption
       DEF ResetWatch, RefreshTime, MeasuredInv, Measuring, CountsInv, StartedInv,
           LocalTypes, SymTypes, BoolTypes, NumTypes, WatchTypeOK,
           watchVars, clientVars, timerVars, timeVars, standardVars
<1>7. CASE WatchdogDpcCallback
    BY <1>a, <1>7, WatchdogAssumption
       DEF WatchdogDpcCallback, LookAgain, MeasuredInv, Measuring, CountsInv,
           StartedInv, LocalTypes, SymTypes, BoolTypes, NumTypes,
           WatchTypeOK, watchVars, clientVars, timerVars, timeVars,
           standardVars
<1>8. CASE WatchdogDpcCrash
    BY <1>a, <1>8, WatchdogAssumption
       DEF WatchdogDpcCrash, MeasuredInv, Measuring, CountsInv, StartedInv,
           LocalTypes, SymTypes, BoolTypes, NumTypes, WatchTypeOK,
           watchVars, clientVars, timerVars, timeVars, standardVars
<1>9. CASE \E e \in Events : StandardClient(e)
    BY <1>a, <1>9, ClientQueues, WatchdogAssumption
       DEF StandardClient, MeasuredInv, Measuring, CountsInv, StartedInv, LocalTypes,
           SymTypes, BoolTypes, NumTypes, WatchTypeOK, watchVars,
           clientVars, timerVars, timeVars, standardVars
<1>10. CASE StandardKernel
    BY <1>a, <1>10, WatchdogAssumption
       DEF StandardKernel, ExpireTimer, Tick, EndFree, FlushQueuedDpcs,
           MeasuredInv, Measuring, CountsInv, StartedInv, LocalTypes, SymTypes,
           BoolTypes, NumTypes, WatchTypeOK, watchVars, clientVars,
           timerVars, timeVars, standardVars
<1> QED
    BY <1>1, <1>2, <1>3, <1>4, <1>5, <1>6, <1>7, <1>8, <1>9, <1>10
       DEF WatchNext

\* Run time and counts, in the steps of a deferred watch.
LEMMA DeferredMeasured ==
    ASSUME IInv, RefInv', objectType = "deferred", DeferredNext, UNCHANGED standardVars
    PROVE  MeasuredInv' /\ CountsInv'
<1>a. RefInv /\ LocalTypes /\ MeasuredInv /\ CountsInv
    BY Types DEF IInv
<1>1. CASE StartDeferredWatch
    BY <1>a, <1>1, WatchdogAssumption
       DEF StartDeferredWatch, ClearCounts, MeasuredInv, Measuring, CountsInv,
           Progress, LocalTypes, SymTypes, BoolTypes, NumTypes,
           DeferredTypeOK, watchVars, clientVars, timerVars, timeVars,
           deferredVars, lookVars, sectionVars
<1>2. CASE StopDeferredWatchByOwner
    BY <1>a, <1>2, WatchdogAssumption
       DEF StopDeferredWatchByOwner, StopDeferredWatch, ClearCounts,
           QueueLastRecovery, MeasuredInv, Measuring, CountsInv, Progress,
           LocalTypes, SymTypes, BoolTypes, NumTypes, DeferredTypeOK,
           watchVars, clientVars, timerVars, timeVars, deferredVars,
           lookVars, sectionVars
<1>3. CASE FreeDeferredWatchdog
    BY <1>a, <1>3, WatchdogAssumption
       DEF FreeDeferredWatchdog, StopDeferredWatch, ClearCounts,
           QueueLastRecovery, MeasuredInv, Measuring, CountsInv, Progress,
           LocalTypes, SymTypes, BoolTypes, NumTypes, DeferredTypeOK,
           watchVars, clientVars, timerVars, timeVars, deferredVars,
           lookVars, sectionVars
<1>4. CASE SuspendDeferredWatch
    BY <1>a, <1>4, WatchdogAssumption
       DEF SuspendDeferredWatch, MeasuredInv, Measuring, CountsInv, Progress,
           LocalTypes, SymTypes, BoolTypes, NumTypes, DeferredTypeOK,
           watchVars, clientVars, timerVars, timeVars, deferredVars,
           lookVars, sectionVars
<1>5. CASE ResetDeferredWatch
  <2>1. confused' <=> confused \/ inside > 0
      BY <1>5 DEF ResetDeferredWatch
  <2>2. MeasuredInv'
      BY <1>a, <1>5
         DEF ResetDeferredWatch, LockFree, lookVars, MeasuredInv, Measuring
  <2>3. CASE confused'
      BY <2>2, <2>3 DEF CountsInv
  <2>4. CASE ~confused'
      BY <1>a, <1>5, <2>1, <2>2, <2>4
         DEF ResetDeferredWatch, CountsInv, LocalTypes, DeferredTypeOK
  <2> QED
      BY <2>3, <2>4
<1>6. CASE \E b \in BOOLEAN : ResumeDeferredWatch(b)
    BY <1>a, <1>6, WatchdogAssumption
       DEF ResumeDeferredWatch, MeasuredInv, Measuring, CountsInv, Progress,
           LocalTypes, SymTypes, BoolTypes, NumTypes, DeferredTypeOK,
           watchVars, clientVars, timerVars, timeVars, deferredVars,
           lookVars, sectionVars
<1>7. CASE \E t \in Threads : EnterMonitoredSection(t)
    BY <1>a, <1>7, WatchdogAssumption
       DEF EnterMonitoredSection, Move, MeasuredInv, Measuring, CountsInv, Progress,
           LocalTypes, SymTypes, BoolTypes, NumTypes, DeferredTypeOK,
           watchVars, clientVars, timerVars, timeVars, deferredVars,
           lookVars, sectionVars
<1>8. CASE ExitMonitoredSection
    BY <1>a, <1>8, WatchdogAssumption
       DEF ExitMonitoredSection, Move, MeasuredInv, Measuring, CountsInv, Progress,
           LocalTypes, SymTypes, BoolTypes, NumTypes, DeferredTypeOK,
           watchVars, clientVars, timerVars, timeVars, deferredVars,
           lookVars, sectionVars
<1>9. CASE DeferredCallback
    BY <1>a, <1>9, WatchdogAssumption
       DEF DeferredCallback, DeferredWatchdogDpcCallback, FirstLook,
           SecondLook, NoLook, LookInside, Snapshot, LookForProgress,
           LookAtTime, objectVars, QueueDeferredEvent, MeasuredInv, Measuring, CountsInv, Progress,
           LocalTypes, SymTypes, BoolTypes, NumTypes, DeferredTypeOK,
           watchVars, clientVars, timerVars, timeVars, deferredVars,
           lookVars, sectionVars
<1>10. CASE \E e \in Events : DeferredClient(e)
    BY <1>a, <1>10, ClientQueues, WatchdogAssumption
       DEF DeferredClient, ResumeEvents, MeasuredInv, Measuring, CountsInv, Progress,
           LocalTypes, SymTypes, BoolTypes, NumTypes, DeferredTypeOK,
           watchVars, clientVars, timerVars, timeVars, deferredVars,
           lookVars, sectionVars
<1>11. CASE DeferredKernel
    BY <1>a, <1>11, WatchdogAssumption
       DEF DeferredKernel, ExpireTimer, Tick, EndFree, FlushQueuedDpcs,
           MeasuredInv, Measuring, CountsInv, Progress, LocalTypes, SymTypes,
           BoolTypes, NumTypes, DeferredTypeOK, watchVars, clientVars,
           timerVars, timeVars, deferredVars, lookVars, sectionVars
<1> QED
    BY <1>1, <1>2, <1>3, <1>4, <1>5, <1>6, <1>7, <1>8, <1>9, <1>10, <1>11
       DEF DeferredNext

-----------------------------------------------------------------------------
(* What the timer's DPC saw. *)

\* The DPC of a deferred watch is not running in a standard one.
LEMMA StandardLook ==
    ASSUME IInv, objectType = "standard", WatchNext, UNCHANGED deferredVars
    PROVE  LookInv'
<1>1. dpcAt = "out"
    BY DEF IInv, LookInv
<1> QED
    BY <1>1 DEF LookInv, deferredVars, lookVars

\* What the DPC saw still holds, or is known to have changed.
LEMMA DeferredLook ==
    ASSUME IInv, objectType = "deferred", DeferredNext
    PROVE  LookInv'
<1>a. RefInv /\ LocalTypes /\ LookInv /\ MeasuredInv
    BY Types DEF IInv
<1>b. objectType' = objectType
    BY <1>a, ClientQueues
       DEF StartDeferredWatch, StopDeferredWatchByOwner, StopDeferredWatch,
           FreeDeferredWatchdog, SuspendDeferredWatch, ResetDeferredWatch,
           ResumeDeferredWatch, EnterMonitoredSection, ExitMonitoredSection,
           DeferredCallback, DeferredWatchdogDpcCallback, LookInside, Snapshot,
           LookForProgress, LookAtTime, DeferredClient, DeferredKernel,
           ExpireTimer, Tick, EndFree, objectVars, DeferredNext
<1>c. ASSUME dpcAt' = "out"
      PROVE  LookInv'
    BY <1>c DEF LookInv
<1>d. ASSUME UNCHANGED <<dpcAt, slipped, state, inCount, outCount, lastInCount,
                         lastOutCount>>
      PROVE  LookInv'
    BY <1>a, <1>b, <1>d DEF LookInv, Progress
<1>1. CASE \/ StartDeferredWatch \/ StopDeferredWatchByOwner
           \/ FreeDeferredWatchdog \/ ResetDeferredWatch
    BY <1>c, <1>1
       DEF StartDeferredWatch, StopDeferredWatchByOwner, StopDeferredWatch,
           FreeDeferredWatchdog, ResetDeferredWatch, LockFree, lookVars
<1>2. CASE SuspendDeferredWatch \/ \E b \in BOOLEAN : ResumeDeferredWatch(b)
    BY <1>d, <1>2
       DEF SuspendDeferredWatch, ResumeDeferredWatch, deferredVars, lookVars,
           sectionVars
<1>3. ASSUME Move, state' = state, UNCHANGED <<lastInCount, lastOutCount>>,
             \/ inCount' = inCount + 1 /\ outCount' = outCount
             \/ outCount' = outCount + 1 /\ inCount' = inCount
      PROVE  LookInv'
  <2>1. dpcAt = "progress" => Progress'
      BY <1>a, <1>3
         DEF MeasuredInv, Measuring, LookInv, Progress, LocalTypes,
             DeferredTypeOK
  <2> QED
      BY <1>a, <1>b, <1>3, <2>1 DEF LookInv, Move
<1>4. CASE ExitMonitoredSection \/ \E t \in Threads : EnterMonitoredSection(t)
    BY <1>3, <1>4 DEF ExitMonitoredSection, EnterMonitoredSection
<1>5. CASE DeferredCallback
  <2>1. CASE DeferredWatchdogDpcCallback
    <3>1. UNCHANGED <<state, slipped, inCount, outCount, lastInCount,
                      lastOutCount>>
        BY <2>1 DEF DeferredWatchdogDpcCallback, sectionVars
    <3>2. CASE NoLook
        BY <1>d, <3>1, <3>2 DEF NoLook
    <3>3. CASE state = "started" /\ FirstLook
        BY <1>b, <3>1, <3>3 DEF FirstLook, LookInv
    <3>4. CASE state = "started" /\ SecondLook
        BY <1>b, <1>c, <3>1, <3>4 DEF SecondLook, LookInv
    <3> QED
        BY <2>1, <3>2, <3>3, <3>4 DEF DeferredWatchdogDpcCallback
  <2>2. CASE LookInside
      BY <1>a, <1>b, <1>c, <2>2 DEF LookInside, LookInv
  <2>3. CASE Snapshot \/ LookAtTime
      BY <1>c, <2>3 DEF Snapshot, LookAtTime
  <2>4. CASE LookForProgress
      BY <1>a, <1>b, <2>4 DEF LookForProgress, LookInv, Progress, sectionVars
  <2> QED
      BY <1>5, <2>1, <2>2, <2>3, <2>4 DEF DeferredCallback
<1>6. CASE \E e \in Events : DeferredClient(e)
    BY <1>d, <1>6 DEF DeferredClient, deferredVars, lookVars, sectionVars
<1>7. CASE DeferredKernel
    BY <1>d, <1>7 DEF DeferredKernel, deferredVars, lookVars, sectionVars
<1> QED
    BY <1>1, <1>2, <1>4, <1>5, <1>6, <1>7 DEF DeferredNext

-----------------------------------------------------------------------------
(* The theorems. *)

\* The invariant holds at the beginning.
LEMMA InitIInv == Init => IInv
<1> SUFFICES ASSUME Init PROVE IInv
    OBVIOUS
<1>1. TypeOK
  <2>1. ObjectTypeOK
    <3>1. SymTypes
        BY DEF Init, ObjectInit, SymTypes
    <3>2. BoolTypes
        BY DEF Init, ObjectInit, BoolTypes
    <3>3. NumTypes /\ referenceCount \in Nat
        BY WatchdogAssumption DEF Init, ObjectInit, NumTypes
    <3>4. /\ threadRefs \in [Threads -> Nat]
          /\ event \in [Events -> EventType]
          /\ lastQueuedThread \in Threads \cup {Null}
        BY DEF Init, ObjectInit, EventType
    <3> QED
        BY <3>1, <3>2, <3>3, <3>4
           DEF ObjectTypeOK, SymTypes, BoolTypes, NumTypes, EventType
  <2>2. WatchTypeOK
      BY WatchdogAssumption, WatchAssumption DEF Init, WatchInit, WatchTypeOK
  <2>3. DeferredTypeOK
    <3>1. confused \in BOOLEAN /\ state \in {"stopped", "started"}
        BY DEF Init, DeferredInit
    <3>2. /\ {inCount, outCount, lastInCount, lastOutCount} \subseteq 0..MaxEnter
          /\ trigger \in 0..2 /\ inside \in 0..MaxNest
        BY DeferredWatchAssumption DEF Init, DeferredInit
    <3>3. dpcAt = "out" /\ slipped = FALSE
        BY DEF Init, DeferredInit
    <3> QED
        BY <3>1, <3>2, <3>3 DEF DeferredTypeOK
  <2> QED
      BY <2>1, <2>2, <2>3 DEF TypeOK
<1>2. UnderWay = {} /\ Queued = {} /\ \A t \in Threads : About(t) = {}
    BY DEF Init, ObjectInit, UnderWay, Queued, About
<1>3. ReferencesExact
    BY <1>2, FS_EmptySet DEF Init, ObjectInit, ReferencesExact
<1> QED
    BY <1>1, <1>2, <1>3, WatchdogAssumption
       DEF Init, ObjectInit, WatchInit, DeferredInit, IInv, QueueInv,
           FreedIsQuiet, StartedInv, LookInv, MeasuredInv, Measuring, CountsInv

\* Every step preserves the invariant.
LEMMA NextIInv == IInv /\ [Next]_vars => IInv'
<1> SUFFICES ASSUME IInv, [Next]_vars PROVE IInv'
    OBVIOUS
<1>1. CASE UNCHANGED vars
    BY <1>1 DEF vars, objectVars, refVars, timerVars, timeVars, clientVars,
                watchVars, standardVars, deferredVars, lookVars, sectionVars,
                IInv, LookInv, TypeOK, ObjectTypeOK, WatchTypeOK,
                DeferredTypeOK, QueueInv, ReferencesExact, FreedIsQuiet,
                StartedInv, MeasuredInv, Measuring, CountsInv, Progress, UnderWay, Queued, About
<1>2. CASE Next
  <2>1. RefInv'
      BY <1>2, RefsStep
  <2>2. CASE objectType = "standard" /\ WatchNext /\ UNCHANGED deferredVars
      BY <2>1, <2>2, StandardTypes, StandardStarted, StandardMeasured,
         StandardLook, Types
         DEF IInv, RefInv
  <2>3. CASE objectType = "deferred" /\ DeferredNext /\ UNCHANGED standardVars
      BY <2>1, <2>3, DeferredTypes, DeferredStarted, DeferredMeasured,
         DeferredLook, Types
         DEF IInv, RefInv
  <2> QED
      BY <1>2, <2>2, <2>3 DEF Next
<1> QED
    BY <1>1, <1>2

\* The inductive invariant holds in every reachable state of a watchdog.
THEOREM Inductive == Spec => []IInv
BY InitIInv, NextIInv, PTL DEF Spec

\* Every variable has its type.
THEOREM TypeCorrect == Spec => []TypeOK
<1>1. IInv => TypeOK
    BY DEF IInv
<1> QED
    BY <1>1, Inductive, PTL

\* The watchdog, and each thread, is referenced once for each event under way
\* that needs it, and the watchdog by its owner.
THEOREM ReferencesAlwaysExact == Spec => []ReferencesExact
<1>1. IInv => ReferencesExact
    BY DEF IInv
<1> QED
    BY <1>1, Inductive, PTL

\* A watchdog that was freed has no timer set, no DPC of its timer queued and no
\* event in the queue.
THEOREM FreedAlwaysQuiet == Spec => []FreedIsQuiet
<1>1. IInv => FreedIsQuiet
    BY DEF IInv
<1> QED
    BY <1>1, Inductive, PTL

\* A step raises no event but by queueing the client's DPC.
LEMMA RaisesQueue ==
    ASSUME IInv, Next, Raises, lastEvent' = "timeout"
    PROVE  \/ WatchdogDpcCallback /\ dueTime' = 0 /\ objectType = "standard"
           \/ LookAtTime /\ ran >= Period /\ objectType = "deferred"
<1>a. RefInv
    BY Types
<1>b. ~UNCHANGED <<event, lastEvent>>
    BY DEF Raises, UnderWay
<1>c. ASSUME NEW e \in Events, HandOver(e) \/ EndWork(e) \/ CompleteEvent(e)
      PROVE  FALSE
  <2>1. UnderWay' = UnderWay /\ lastEvent' = lastEvent
      BY <1>a, <1>c, ClientQueues DEF Raises, watchVars
  <2> QED
      BY <2>1 DEF Raises
<1>d. ASSUME RemoveClientDpc, lastEvent' = lastEvent PROVE FALSE
  <2>1. UnderWay' \subseteq UnderWay
      BY <1>a, <1>d
         DEF RemoveClientDpc, Complete, refVars, UnderWay, Queued, RefInv, EventType
  <2> QED
      BY <1>d, <2>1 DEF Raises
<1>1. CASE objectType = "standard" /\ WatchNext
  <2>1. CASE WatchdogDpcCallback
      BY <1>b, <1>1, <2>1 DEF WatchdogDpcCallback, refVars
  <2>2. CASE FreeWatchdog \/ \E b \in BOOLEAN : StopWatchByOwner(b)
      BY <1>b, <1>d, <2>2
         DEF FreeWatchdog, StopWatchByOwner, StopWatch, Disarm, refVars
  <2>3. CASE \E e \in Events : StandardClient(e)
      BY <1>c, <2>3 DEF StandardClient
  <2> QED
      BY <1>b, <1>1, <2>1, <2>2, <2>3
         DEF WatchNext, StartWatch, SuspendWatch, ResumeWatch, ResetWatch,
             WatchdogDpcCrash, StandardKernel, ExpireTimer, Tick, EndFree,
             refVars, watchVars
<1>2. CASE objectType = "deferred" /\ DeferredNext
  <2>1. CASE DeferredCallback
    <3>1. CASE DeferredWatchdogDpcCallback
        BY <1>b, <1>2, <3>1
           DEF DeferredWatchdogDpcCallback, FirstLook, SecondLook, NoLook,
               QueueDeferredEvent, refVars
    <3>2. CASE LookInside \/ Snapshot \/ LookForProgress
        BY <1>b, <3>2
           DEF LookInside, Snapshot, LookForProgress, objectVars, refVars,
               watchVars
    <3>3. CASE LookAtTime
        BY <1>b, <1>2, <3>3 DEF LookAtTime, refVars
    <3> QED
        BY <2>1, <3>1, <3>2, <3>3 DEF DeferredCallback
  <2>2. CASE FreeDeferredWatchdog \/ StopDeferredWatchByOwner
      BY <1>b, <1>d, <2>2
         DEF FreeDeferredWatchdog, StopDeferredWatchByOwner, StopDeferredWatch,
             QueueLastRecovery, refVars
  <2>3. CASE \E e \in Events : DeferredClient(e)
      BY <1>c, <2>3 DEF DeferredClient
  <2> QED
      BY <1>b, <1>2, <2>1, <2>2, <2>3
         DEF DeferredNext, StartDeferredWatch, SuspendDeferredWatch,
             ResumeDeferredWatch, ResetDeferredWatch, EnterMonitoredSection,
             ExitMonitoredSection, DeferredKernel, ExpireTimer, Tick, EndFree,
             refVars, watchVars
<1> QED
    BY <1>1, <1>2 DEF Next

\* A timeout is raised only about a thread that ran for the whole period since
\* the section or the measurement began and, for a deferred watch, is still in
\* the section or has moved since the DPC saw that it made no progress.
THEOREM TimeoutsEarned == Spec => TimeoutEarned
<1> DEFINE Earned == \/ /\ spent = Period
                        /\ objectType = "deferred" /\ ~confused => inside > 0
                     \/ objectType = "deferred" /\ slipped
<1>1. ASSUME IInv, [Next]_vars, Raises, lastEvent' = "timeout"
      PROVE  Earned
  <2>a. LocalTypes /\ StartedInv /\ MeasuredInv /\ CountsInv /\ LookInv
      BY <1>1, Types DEF IInv
  <2>b. Next
    <3>1. ~UNCHANGED <<event, lastEvent>>
        BY <1>1 DEF Raises, UnderWay
    <3> QED
        BY <1>1, <3>1 DEF vars, objectVars, refVars, watchVars
  <2>1. CASE WatchdogDpcCallback /\ dueTime' = 0 /\ objectType = "standard"
      BY <2>a, <2>1, WatchdogAssumption
         DEF WatchdogDpcCallback, StartedInv, MeasuredInv, LocalTypes, NumTypes,
             WatchTypeOK
  <2>2. CASE LookAtTime /\ ran >= Period /\ objectType = "deferred"
    <3>1. CASE slipped
        BY <2>2, <3>1
    <3>2. CASE ~slipped
      <4>1. ~Progress /\ inCount # outCount /\ state = "started" /\ Measuring
          BY <2>a, <2>2, <3>2 DEF LookAtTime, LookInv, Measuring
      <4>2. spent = Period
          BY <2>a, <2>2, <4>1, WatchdogAssumption
             DEF MeasuredInv, LocalTypes, NumTypes
      <4>3. ~confused => inside > 0
          BY <2>a, <2>2, <4>1 DEF CountsInv, LocalTypes, DeferredTypeOK
      <4> QED
          BY <4>2, <4>3
    <3> QED
        BY <3>1, <3>2
  <2> QED
      BY <1>1, <2>b, <2>1, <2>2, RaisesQueue
<1>2. IInv /\ [Next]_vars => [Raises /\ lastEvent' = "timeout" => Earned]_vars
    BY <1>1
<1> QED
    BY <1>2, Inductive, PTL DEF Spec, TimeoutEarned
=============================================================================
