-------------------------- MODULE SerialWaitProofs --------------------------
(***************************************************************************)
(* Proofs about SerialWait for any number of requests and threads and any  *)
(* set of events: the inductive invariant IInv, the safety properties that *)
(* are its conjuncts, that no event is lost, and that the mask queue       *)
(* implements IrpQueue.                                                    *)
(*                                                                         *)
(* Each action has a lemma <action>Step.  What taking the next request     *)
(* from the queue and ending the current wait do is proved once, in        *)
(* TakeNextFacts and EndingFacts.                                          *)
(***************************************************************************)
EXTENDS SerialWait, QueueLemmas

\* The thread that runs SerialStartMask, when it takes the next request: the
\* head of the queue leaves it and is started, or nobody is in SerialStartMask.
LEMMA TakeNextFacts ==
    ASSUME IInv, NEW t \in Threads, pc[t] # "idle",
           NEW r \in [Irps -> {"none", "queued", "wait"}],
           TakeNext(t, r)
    PROVE  /\ queue' \in Seq(Irps) /\ IsInjective(queue')
           /\ currentMask' \in Irps \cup {None}
           /\ currentMask' # None => currentMask' \in Range(queue)
           /\ queue' # <<>> => currentMask' # None
           /\ \A i \in Irps : i \in Range(queue') <=>
                                  i \in Range(queue) /\ i # currentMask'
           /\ routine' \in [Irps -> {"none", "queued", "wait"}]
           /\ \A i \in Irps :
                  routine'[i] = IF i = currentMask' THEN "none" ELSE r[i]
           /\ pc' \in [Threads -> {"idle", "start", "give", "next"}]
           /\ \A u \in Threads : pc'[u] =
                  IF u = t /\ currentMask' # None THEN "start" ELSE "idle"
<1>1. /\ queue \in Seq(Irps) /\ IsInjective(queue)
      /\ pc \in [Threads -> {"idle", "start", "give", "next"}]
      /\ \A u \in Threads : u # t => pc[u] = "idle"
      /\ None \notin Irps
  BY SerialWaitAssumption DEF IInv, TypeOK, QueueInv, StartMaskAsserts
<1>2. CASE queue = <<>>
  <2>1. \A i : i \notin Range(queue)
    BY <1>2 DEF Range
  <2>2. queue' = queue /\ currentMask' = None /\ routine' = r /\ Go(t, "idle")
    BY <1>2 DEF TakeNext
  <2>. QED  BY <1>1, <1>2, <2>1, <2>2 DEF Go
<1>3. CASE queue # <<>>
  <2>1. /\ Head(queue) \in Irps
        /\ Head(queue) \in Range(queue)
        /\ Tail(queue) \in Seq(Irps)
        /\ IsInjective(Tail(queue))
        /\ \A y : y \in Range(Tail(queue)) <=> y \in Range(queue) /\ y # Head(queue)
    BY <1>1, <1>3, HeadEntries
  <2>2. /\ currentMask' = Head(queue) /\ queue' = Tail(queue)
        /\ routine' = [r EXCEPT ![Head(queue)] = "none"]
        /\ Go(t, "start")
    BY <1>3 DEF TakeNext
  <2>. QED  BY <1>1, <2>1, <2>2 DEF Go
<1>. QED  BY <1>2, <1>3

\* The current wait gives up its reference h, the ISR's unless the wait is
\* grabbed.  It ends, or it stays with the ISR's reference for the queued DPC.
LEMMA EndingFacts ==
    ASSUME IInv, currentWait # None, NEW h, NEW grab \in BOOLEAN, NEW st,
           TryToCompleteCurrent(h, grab, st),
           \/ h = "isr" /\ dpcQueued
           \/ h = "cancel" /\ grab /\ routine[currentWait] = "wait"
    PROVE  /\ currentWait \in Irps
           /\ ~location'
           /\ routine' = [routine EXCEPT ![currentWait] = "none"]
           /\ cancel' = [cancel EXCEPT ![currentWait] = @ \/ h = "cancel"]
           /\ \/ /\ currentWait' = None
                 /\ Complete(currentWait, st)
                 /\ ~dpcQueued'
                 /\ h = "cancel" => location
              \/ /\ h = "cancel" /\ dpcQueued'
                 /\ currentWait' = currentWait
                 /\ refs' = {"isr"}
                 /\ UNCHANGED <<status, completions>>
           /\ refs' \subseteq RefTypes
           /\ UNCHANGED <<told, queueVars, eventVars, pc>>
<1>. DEFINE left == {r \in refs \ {h} :
                        /\ r = "isr" => ~(grab /\ location)
                        /\ r = "cancel" => routine[currentWait] = "none"}
<1>1. /\ currentWait \in Irps
      /\ refs \subseteq {"isr", "cancel"}
      /\ "isr" \in refs
      /\ location \/ dpcQueued
      /\ ~(location /\ dpcQueued)
      /\ routine[currentWait] = "wait" <=> "cancel" \in refs
      /\ location \in BOOLEAN /\ dpcQueued \in BOOLEAN
  BY DEF IInv, TypeOK, RefsMatchHolders, RefTypes, Irps
<1>2. "cancel" \notin left
  BY <1>1
<1>3. "isr" \in left <=> h = "cancel" /\ ~location
  BY <1>1
<1>4. left = {} \/ left = {"isr"}
  BY <1>1, <1>2
<1>5. /\ location' = (location /\ ~grab)
      /\ dpcQueued' = (dpcQueued /\ h # "isr")
      /\ refs' = left
      /\ routine' = [routine EXCEPT ![currentWait] = "none"]
      /\ cancel' = [cancel EXCEPT ![currentWait] = @ \/ h = "cancel"]
      /\ IF left = {} THEN Complete(currentWait, st) /\ currentWait' = None
                      ELSE UNCHANGED <<completions, status, currentWait>>
      /\ UNCHANGED <<told, queueVars, eventVars, pc>>
  BY DEF TryToCompleteCurrent
<1>. HIDE DEF left
<1>6. ~location'
  BY <1>1, <1>5
<1>7. CASE left = {}
  BY <1>1, <1>3, <1>5, <1>6, <1>7 DEF RefTypes
<1>8. CASE left = {"isr"}
  BY <1>1, <1>3, <1>5, <1>6, <1>8 DEF RefTypes
<1>. QED  BY <1>4, <1>7, <1>8

-----------------------------------------------------------------------------
(* One lemma per action: it keeps the invariant. *)

\* A refused request was in nobody's hands.
LEMMA RefuseAtDispatchStep ==
    ASSUME IInv, NEW i \in Irps, RefuseAtDispatch(i) PROVE IInv'
<1>. USE SerialWaitAssumption
     DEF RefuseAtDispatch, Complete, Fresh, AtPlace, queueVars, waitVars, eventVars, irpVars
<1>1. TypeOK'
  BY DEF IInv, TypeOK
<1>2. StartMaskAsserts'
  BY DEF IInv, TypeOK, StartMaskAsserts
<1>3. RefsMatchHolders'
  BY DEF IInv, TypeOK, RefsMatchHolders
<1>4. NoUseAfterCompletion'
  BY DEF IInv, TypeOK, NoUseAfterCompletion, PlaceInv, QueueInv
<1>5. CancelNotMissed'
  BY DEF IInv, TypeOK, CancelNotMissed
<1>6. WaitHearsAtOnce'
  BY DEF IInv, TypeOK, WaitHearsAtOnce
<1>7. QueueInv'
  BY DEF IInv, TypeOK, QueueInv
<1>8. PlaceInv'
  BY DEF IInv, TypeOK, PlaceInv
<1>. QED  BY <1>1, <1>2, <1>3, <1>4, <1>5, <1>6, <1>7, <1>8 DEF IInv

\* A request that starts has SerialStartMask to itself.
LEMMA StartAtDispatchStep ==
    ASSUME IInv, NEW t \in Threads, NEW i \in Irps, StartAtDispatch(t, i) PROVE IInv'
<1>. USE SerialWaitAssumption
     DEF StartAtDispatch, Go, Fresh, AtPlace, queueVars, waitVars, eventVars, irpVars
<1>1. TypeOK'
  BY DEF IInv, TypeOK
<1>2. StartMaskAsserts'
  BY DEF IInv, TypeOK, StartMaskAsserts
<1>3. RefsMatchHolders'
  BY DEF IInv, TypeOK, RefsMatchHolders
<1>4. NoUseAfterCompletion'
  BY DEF IInv, TypeOK, NoUseAfterCompletion, PlaceInv
<1>5. CancelNotMissed'
  BY DEF IInv, TypeOK, CancelNotMissed
<1>6. WaitHearsAtOnce'
  BY DEF IInv, TypeOK, WaitHearsAtOnce
<1>7. QueueInv'
  BY DEF IInv, TypeOK, QueueInv
<1>8. PlaceInv'
  BY DEF IInv, TypeOK, StartMaskAsserts, PlaceInv
<1>. QED  BY <1>1, <1>2, <1>3, <1>4, <1>5, <1>6, <1>7, <1>8 DEF IInv

\* A request that is cancelled at dispatch was in nobody's hands.
LEMMA CancelledAtDispatchStep ==
    ASSUME IInv, NEW i \in Irps, CancelledAtDispatch(i) PROVE IInv'
<1>. USE SerialWaitAssumption
     DEF CancelledAtDispatch, Complete, Fresh, AtPlace, queueVars, waitVars, eventVars, irpVars
<1>1. TypeOK'
  BY DEF IInv, TypeOK
<1>2. StartMaskAsserts'
  BY DEF IInv, TypeOK, StartMaskAsserts
<1>3. RefsMatchHolders'
  BY DEF IInv, TypeOK, RefsMatchHolders
<1>4. NoUseAfterCompletion'
  BY DEF IInv, TypeOK, NoUseAfterCompletion, PlaceInv, QueueInv
<1>5. CancelNotMissed'
  BY DEF IInv, TypeOK, CancelNotMissed
<1>6. WaitHearsAtOnce'
  BY DEF IInv, TypeOK, WaitHearsAtOnce
<1>7. QueueInv'
  BY DEF IInv, TypeOK, QueueInv
<1>8. PlaceInv'
  BY DEF IInv, TypeOK, PlaceInv
<1>. QED  BY <1>1, <1>2, <1>3, <1>4, <1>5, <1>6, <1>7, <1>8 DEF IInv

\* The new mask leaves no wait with the ISR.
LEMMA FinishOldWaitStep ==
    ASSUME IInv, NEW t \in Threads, FinishOldWait(t) PROVE IInv'
<1>. USE SerialWaitAssumption
     DEF FinishOldWait, SetMask, Go, Fresh, AtPlace, queueVars, waitVars, eventVars, irpVars
<1>1. TypeOK'
  BY DEF IInv, TypeOK
<1>2. StartMaskAsserts'
  BY DEF IInv, TypeOK, StartMaskAsserts
<1>3. RefsMatchHolders'
  BY DEF IInv, TypeOK, RefsMatchHolders
<1>4. NoUseAfterCompletion'
  BY DEF IInv, TypeOK, NoUseAfterCompletion
<1>5. CancelNotMissed'
  BY DEF IInv, TypeOK, CancelNotMissed
<1>6. WaitHearsAtOnce'
  BY DEF IInv, TypeOK, WaitHearsAtOnce
<1>7. QueueInv'
  BY DEF IInv, TypeOK, QueueInv
<1>8. PlaceInv'
  BY DEF IInv, TypeOK, PlaceInv
<1>. QED  BY <1>1, <1>2, <1>3, <1>4, <1>5, <1>6, <1>7, <1>8 DEF IInv

\* The check only decides where the thread goes on.
LEMMA CheckWaitStep ==
    ASSUME IInv, NEW t \in Threads, CheckWait(t) PROVE IInv'
<1>. USE SerialWaitAssumption
     DEF CheckWait, Go, Fresh, AtPlace, queueVars, waitVars, eventVars, irpVars
<1>1. TypeOK'
  BY DEF IInv, TypeOK
<1>2. StartMaskAsserts'
  BY DEF IInv, TypeOK, StartMaskAsserts, RefsMatchHolders
<1>3. RefsMatchHolders'
  BY DEF IInv, TypeOK, RefsMatchHolders
<1>4. NoUseAfterCompletion'
  BY DEF IInv, TypeOK, NoUseAfterCompletion
<1>5. CancelNotMissed'
  BY DEF IInv, TypeOK, CancelNotMissed
<1>6. WaitHearsAtOnce'
  BY DEF IInv, TypeOK, WaitHearsAtOnce
<1>7. QueueInv'
  BY DEF IInv, TypeOK, QueueInv
<1>8. PlaceInv'
  BY DEF IInv, TypeOK, PlaceInv
<1>. QED  BY <1>1, <1>2, <1>3, <1>4, <1>5, <1>6, <1>7, <1>8 DEF IInv

\* A cancelled wait is not given to the ISR.
LEMMA WaitFoundCancelledStep ==
    ASSUME IInv, NEW t \in Threads, WaitFoundCancelled(t) PROVE IInv'
<1>. USE SerialWaitAssumption
     DEF WaitFoundCancelled, Go, Fresh, AtPlace, queueVars, waitVars, eventVars, irpVars
<1>1. TypeOK'
  BY DEF IInv, TypeOK
<1>2. StartMaskAsserts'
  BY DEF IInv, TypeOK, StartMaskAsserts
<1>3. RefsMatchHolders'
  BY DEF IInv, TypeOK, RefsMatchHolders
<1>4. NoUseAfterCompletion'
  BY DEF IInv, TypeOK, NoUseAfterCompletion
<1>5. CancelNotMissed'
  BY DEF IInv, TypeOK, CancelNotMissed
<1>6. WaitHearsAtOnce'
  BY DEF IInv, TypeOK, WaitHearsAtOnce
<1>7. QueueInv'
  BY DEF IInv, TypeOK, QueueInv
<1>8. PlaceInv'
  BY DEF IInv, TypeOK, PlaceInv
<1>. QED  BY <1>1, <1>2, <1>3, <1>4, <1>5, <1>6, <1>7, <1>8 DEF IInv

\* The Cancel flag is set where there is no cancel routine.
LEMMA FlagCancelStep ==
    ASSUME IInv, NEW i \in Irps, FlagCancel(i) PROVE IInv'
<1>. USE SerialWaitAssumption
     DEF FlagCancel, Fresh, AtPlace, queueVars, waitVars, eventVars, irpVars
<1>1. TypeOK'
  BY DEF IInv, TypeOK
<1>2. StartMaskAsserts'
  BY DEF IInv, TypeOK, StartMaskAsserts
<1>3. RefsMatchHolders'
  BY DEF IInv, TypeOK, RefsMatchHolders
<1>4. NoUseAfterCompletion'
  BY DEF IInv, TypeOK, NoUseAfterCompletion
<1>5. CancelNotMissed'
  BY DEF IInv, TypeOK, CancelNotMissed
<1>6. WaitHearsAtOnce'
  BY DEF IInv, TypeOK, WaitHearsAtOnce
<1>7. QueueInv'
  BY DEF IInv, TypeOK, QueueInv
<1>8. PlaceInv'
  BY DEF IInv, TypeOK, PlaceInv
<1>. QED  BY <1>1, <1>2, <1>3, <1>4, <1>5, <1>6, <1>7, <1>8 DEF IInv

\* An event goes to the wait the ISR knows, or to the history.
LEMMA RecordStep ==
    ASSUME IInv, NEW e \in isrMask, Record(e), writing' \in BOOLEAN, emptied' \in BOOLEAN PROVE IInv'
<1>. USE SerialWaitAssumption
     DEF Record, Fresh, AtPlace, queueVars, waitVars, eventVars, irpVars
<1>1. TypeOK'
  <2>1. e \in Events /\ history \cup {e} \subseteq isrMask
    BY DEF IInv, TypeOK
  <2>2. told' \in [Irps -> SUBSET Events]
    <3>1. told \in [Irps -> SUBSET Events] /\ history \cup {e} \subseteq Events
      BY <2>1 DEF IInv, TypeOK
    <3>. QED  BY <3>1
  <2>3. history' \subseteq isrMask'
    BY <2>1
  <2>. QED  BY <2>2, <2>3 DEF IInv, TypeOK
<1>2. StartMaskAsserts'
  BY DEF IInv, TypeOK, StartMaskAsserts
<1>3. RefsMatchHolders'
  BY DEF IInv, TypeOK, RefsMatchHolders
<1>4. NoUseAfterCompletion'
  BY DEF IInv, TypeOK, NoUseAfterCompletion
<1>5. CancelNotMissed'
  BY DEF IInv, TypeOK, CancelNotMissed
<1>6. WaitHearsAtOnce'
  BY DEF IInv, TypeOK, WaitHearsAtOnce
<1>7. QueueInv'
  BY DEF IInv, TypeOK, QueueInv
<1>8. PlaceInv'
  BY DEF IInv, TypeOK, PlaceInv
<1>. QED  BY <1>1, <1>2, <1>3, <1>4, <1>5, <1>6, <1>7, <1>8 DEF IInv

\* A request that comes to a busy queue is its last entry.
LEMMA QueueAtDispatchStep ==
    ASSUME IInv, NEW i \in Irps, QueueAtDispatch(i) PROVE IInv'
<1>. USE SerialWaitAssumption
     DEF QueueAtDispatch, Fresh, AtPlace, queueVars, waitVars, eventVars, irpVars
<1>0. /\ queue' \in Seq(Irps) /\ queue' # <<>> /\ IsInjective(queue')
      /\ \A j : j \in Range(queue') <=> j \in Range(queue) \/ j = i
  <2>1. i \notin Range(queue) /\ queue \in Seq(Irps) /\ IsInjective(queue)
    BY DEF IInv, TypeOK, QueueInv, PlaceInv
  <2>. QED  BY <2>1, AppendEntries
<1>1. TypeOK'
  BY <1>0 DEF IInv, TypeOK
<1>2. StartMaskAsserts'
  BY <1>0 DEF IInv, TypeOK, StartMaskAsserts
<1>3. RefsMatchHolders'
  BY <1>0 DEF IInv, TypeOK, RefsMatchHolders, PlaceInv
<1>4. NoUseAfterCompletion'
  BY <1>0 DEF IInv, TypeOK, NoUseAfterCompletion, PlaceInv
<1>5. CancelNotMissed'
  BY <1>0 DEF IInv, TypeOK, CancelNotMissed
<1>6. WaitHearsAtOnce'
  BY <1>0 DEF IInv, TypeOK, WaitHearsAtOnce
<1>7. QueueInv'
  BY <1>0 DEF IInv, TypeOK, QueueInv, PlaceInv
<1>8. PlaceInv'
  BY <1>0 DEF IInv, TypeOK, PlaceInv
<1>. QED  BY <1>1, <1>2, <1>3, <1>4, <1>5, <1>6, <1>7, <1>8 DEF IInv

\* Withdrawing a request leaves the others in the queue.
LEMMA CancelQueuedIrpStep ==
    ASSUME IInv, NEW n \in DOMAIN queue, CancelQueuedIrp(n) PROVE IInv'
<1>. USE SerialWaitAssumption
     DEF CancelQueuedIrp, Complete, Fresh, AtPlace, queueVars, waitVars, eventVars, irpVars
<1>0. /\ queue' \in Seq(Irps) /\ IsInjective(queue')
      /\ queue # <<>>
      /\ queue[n] \in Irps /\ routine[queue[n]] = "queued"
      /\ \A j : j \in Range(queue') <=> j \in Range(queue) /\ j # queue[n]
  <2>1. queue \in Seq(Irps) /\ IsInjective(queue) /\ n \in 1..Len(queue)
    BY LenProperties DEF IInv, TypeOK, QueueInv
  <2>2. queue # <<>>
    BY <2>1, EmptySeq
  <2>. QED  BY <2>1, <2>2, RemoveEntries DEF IInv, QueueInv
<1>1. TypeOK'
  BY <1>0 DEF IInv, TypeOK
<1>2. StartMaskAsserts'
  BY <1>0 DEF IInv, TypeOK, StartMaskAsserts
<1>3. RefsMatchHolders'
  BY <1>0 DEF IInv, TypeOK, RefsMatchHolders, PlaceInv
<1>4. NoUseAfterCompletion'
  BY <1>0 DEF IInv, TypeOK, NoUseAfterCompletion, PlaceInv, QueueInv
<1>5. CancelNotMissed'
  BY <1>0 DEF IInv, TypeOK, CancelNotMissed
<1>6. WaitHearsAtOnce'
  BY <1>0 DEF IInv, TypeOK, WaitHearsAtOnce
<1>7. QueueInv'
  BY <1>0 DEF IInv, TypeOK, QueueInv, PlaceInv
<1>8. PlaceInv'
  BY <1>0 DEF IInv, TypeOK, PlaceInv, QueueInv
<1>. QED  BY <1>1, <1>2, <1>3, <1>4, <1>5, <1>6, <1>7, <1>8 DEF IInv

\* The request that is completed has left; the next was in the queue.
LEMMA GetNextIrpStep ==
    ASSUME IInv, NEW t \in Threads, GetNextIrp(t) PROVE IInv'
<1>. USE SerialWaitAssumption
     DEF GetNextIrp, Complete, Fresh, AtPlace, queueVars, waitVars, eventVars, irpVars
<1>0. /\ currentMask \in Irps
      /\ completions[currentMask] = 0
      /\ routine[currentMask] = "none"
      /\ currentMask # currentWait /\ ~Fresh(currentMask)
      /\ told[currentMask] = {}
  BY DEF IInv, TypeOK, StartMaskAsserts, PlaceInv
<1>a. /\ queue' \in Seq(Irps) /\ IsInjective(queue')
      /\ currentMask' \in Irps \cup {None}
      /\ currentMask' # None => currentMask' \in Range(queue)
      /\ queue' # <<>> => currentMask' # None
      /\ \A i \in Irps : i \in Range(queue') <=>
                             i \in Range(queue) /\ i # currentMask'
      /\ routine' \in [Irps -> {"none", "queued", "wait"}]
      /\ \A i \in Irps :
             routine'[i] = IF i = currentMask' THEN "none" ELSE routine[i]
      /\ pc' \in [Threads -> {"idle", "start", "give", "next"}]
      /\ \A u \in Threads : pc'[u] =
             IF u = t /\ currentMask' # None THEN "start" ELSE "idle"
  BY TakeNextFacts DEF IInv, TypeOK
<1>b. /\ currentMask' # None => routine[currentMask'] = "queued"
      /\ currentWait # None =>
             /\ currentWait \in Irps /\ currentWait # currentMask'
             /\ routine'[currentWait] = routine[currentWait]
  BY <1>a DEF IInv, TypeOK, QueueInv, PlaceInv, Irps
<1>c. /\ completions' \in [Irps -> Nat]
      /\ status' = status
  BY <1>0 DEF IInv, TypeOK
<1>1. TypeOK'
  BY <1>0, <1>a, <1>b, <1>c DEF IInv, TypeOK
<1>2. StartMaskAsserts'
  BY <1>0, <1>a, <1>b, <1>c DEF IInv, TypeOK, StartMaskAsserts
<1>3. RefsMatchHolders'
  BY <1>0, <1>a, <1>b, <1>c DEF IInv, TypeOK, RefsMatchHolders, PlaceInv
<1>4. NoUseAfterCompletion'
  BY <1>0, <1>a, <1>b, <1>c DEF IInv, TypeOK, NoUseAfterCompletion, PlaceInv, QueueInv
<1>5. CancelNotMissed'
  BY <1>0, <1>a, <1>b, <1>c DEF IInv, TypeOK, CancelNotMissed
<1>6. WaitHearsAtOnce'
  BY <1>0, <1>a, <1>b, <1>c DEF IInv, TypeOK, WaitHearsAtOnce
<1>7. QueueInv'
  BY <1>0, <1>a, <1>b, <1>c DEF IInv, TypeOK, QueueInv, PlaceInv
<1>8. PlaceInv'
  <2>1. currentMask # currentMask' /\ routine'[currentMask] = "none"
    BY <1>0, <1>a, <1>b
  <2>2. \A i \in Irps :
            /\ i # currentMask => completions'[i] = completions[i]
            /\ routine'[i] = "queued" => routine[i] = "queued"
            /\ routine[i] = "none" => routine'[i] = "none"
    BY <1>a DEF IInv, TypeOK
  <2>3. \A i \in Irps : Fresh(i) \/ routine'[i] = "queued" \/ i \in {currentMask', currentWait}
            => completions'[i] = 0
    BY <1>0, <1>b, <2>1, <2>2 DEF IInv, PlaceInv
  <2>4. \A i \in Irps : Fresh(i) => routine'[i] = "none" /\ i \notin {currentMask', currentWait}
    BY <1>b, <2>2 DEF IInv, PlaceInv
  <2>5. \A i \in Irps : told[i] # {} /\ completions'[i] = 0
            => i = currentWait /\ ~location
    BY <1>0, <2>2 DEF IInv, PlaceInv
  <2>6. currentMask' # None => routine'[currentMask'] = "none" /\ currentMask' # currentWait
    BY <1>a, <1>b
  <2>7. currentWait # None => routine'[currentWait] # "queued"
    BY <1>b DEF IInv, PlaceInv
  <2>8. \A u \in Threads : pc'[u] # "give"
    BY <1>a
  <2>. QED  BY <1>c, <2>3, <2>4, <2>5, <2>6, <2>7, <2>8 DEF PlaceInv
<1>. QED  BY <1>1, <1>2, <1>3, <1>4, <1>5, <1>6, <1>7, <1>8 DEF IInv

\* The wait is the current wait instead of the current mask request.
LEMMA GiveWaitStep ==
    ASSUME IInv, NEW t \in Threads, GiveWait(t) PROVE IInv'
<1>. USE SerialWaitAssumption
     DEF GiveWait, HandToIsr, Fresh, AtPlace, RefTypes, queueVars, waitVars, eventVars, irpVars
<1>0. /\ currentMask \in Waits /\ currentMask \in Irps
      /\ completions[currentMask] = 0
      /\ routine[currentMask] = "none"
      /\ ~Fresh(currentMask)
      /\ currentWait = None /\ ~location /\ ~dpcQueued
      /\ \A i \in Irps : routine[i] # "wait"
  BY DEF IInv, TypeOK, StartMaskAsserts, PlaceInv, RefsMatchHolders, Irps
<1>a. /\ queue' \in Seq(Irps) /\ IsInjective(queue')
      /\ currentMask' \in Irps \cup {None}
      /\ currentMask' # None => currentMask' \in Range(queue)
      /\ queue' # <<>> => currentMask' # None
      /\ \A i \in Irps : i \in Range(queue') <=>
                             i \in Range(queue) /\ i # currentMask'
      /\ routine' \in [Irps -> {"none", "queued", "wait"}]
      /\ \A i \in Irps : routine'[i] =
             IF i = currentMask' THEN "none"
             ELSE [routine EXCEPT ![currentMask] = "wait"][i]
      /\ pc' \in [Threads -> {"idle", "start", "give", "next"}]
      /\ \A u \in Threads : pc'[u] =
             IF u = t /\ currentMask' # None THEN "start" ELSE "idle"
  BY TakeNextFacts DEF IInv, TypeOK
<1>b. currentMask' # None =>
          routine[currentMask'] = "queued" /\ currentMask' # currentMask
  BY <1>0, <1>a DEF IInv, QueueInv
<1>c. /\ currentWait' = currentMask /\ currentMask # currentMask'
      /\ location' <=> history = {}
      /\ dpcQueued' <=> history # {}
      /\ routine'[currentMask] = "wait"
      /\ \A i \in Irps : i # currentMask' /\ i # currentMask =>
             routine'[i] = routine[i]
  <2>1. currentWait' = currentMask /\ currentMask # currentMask'
    BY <1>0, <1>b
  <2>2. (location' <=> history = {}) /\ (dpcQueued' <=> history # {})
    OBVIOUS
  <2>3. routine \in [Irps -> {"none", "queued", "wait"}]
    BY DEF IInv, TypeOK
  <2>. QED  BY <1>0, <1>a, <2>1, <2>2, <2>3
<1>1. TypeOK'
  BY <1>0, <1>a, <1>b, <1>c DEF IInv, TypeOK
<1>2. StartMaskAsserts'
  BY <1>0, <1>a, <1>b, <1>c DEF IInv, TypeOK, StartMaskAsserts
<1>3. RefsMatchHolders'
  <2>1. \A i \in Irps : routine'[i] = "wait" => i = currentMask
    BY <1>0, <1>a, <1>c
  <2>. QED  BY <1>0, <1>c, <2>1 DEF RefsMatchHolders
<1>4. NoUseAfterCompletion'
  BY <1>0, <1>a, <1>b, <1>c DEF IInv, TypeOK, NoUseAfterCompletion, PlaceInv, QueueInv
<1>5. CancelNotMissed'
  BY <1>0, <1>a, <1>b, <1>c DEF IInv, TypeOK, CancelNotMissed
<1>6. WaitHearsAtOnce'
  BY <1>0, <1>a, <1>b, <1>c DEF IInv, TypeOK, WaitHearsAtOnce
<1>7. QueueInv'
  BY <1>0, <1>a, <1>b, <1>c DEF IInv, TypeOK, QueueInv, PlaceInv
<1>8. PlaceInv'
  <2>1. \A i \in Irps :
            /\ routine'[i] = "queued" => routine[i] = "queued"
            /\ i # currentMask => told'[i] = told[i]
            /\ i # currentMask /\ routine[i] = "none" => routine'[i] = "none"
    BY <1>0, <1>a, <1>b, <1>c DEF IInv, TypeOK
  <2>2. told'[currentMask] # {} => ~location'
    BY <1>0, <1>c DEF IInv, TypeOK
  <2>3. \A i \in Irps : Fresh(i) \/ routine'[i] = "queued" \/ i \in {currentMask', currentMask}
            => completions[i] = 0
    BY <1>0, <1>b, <2>1 DEF IInv, PlaceInv
  <2>4. \A i \in Irps : Fresh(i) => routine'[i] = "none" /\ i \notin {currentMask', currentMask}
    BY <1>0, <1>b, <2>1 DEF IInv, PlaceInv
  <2>5. \A i \in Irps : told'[i] # {} /\ completions[i] = 0
            => i = currentMask /\ ~location'
    BY <1>0, <2>1, <2>2 DEF IInv, PlaceInv
  <2>6. currentMask' # None => routine'[currentMask'] = "none" /\ currentMask' # currentMask
    BY <1>a, <1>b
  <2>7. routine'[currentMask] # "queued"
    BY <1>c
  <2>8. \A u \in Threads : pc'[u] # "give"
    BY <1>a
  <2>. QED  BY <1>c, <2>3, <2>4, <2>5, <2>6, <2>7, <2>8 DEF PlaceInv
<1>. QED  BY <1>1, <1>2, <1>3, <1>4, <1>5, <1>6, <1>7, <1>8 DEF IInv

\* The two ways in which the current wait loses a reference.
LEMMA EndingStep ==
    ASSUME IInv, CompleteWaitDpc \/ CancelWait PROVE IInv'
<1>. USE SerialWaitAssumption
     DEF Complete, Fresh, AtPlace, queueVars, eventVars
<1>1. currentWait # None
  BY DEF CompleteWaitDpc, CancelWait, IInv, RefsMatchHolders
<1>2. PICK h, st :
          /\ currentWait \in Irps
          /\ ~location'
          /\ routine' = [routine EXCEPT ![currentWait] = "none"]
          /\ cancel' = [cancel EXCEPT ![currentWait] = @ \/ h = "cancel"]
          /\ \/ /\ currentWait' = None
                /\ Complete(currentWait, st)
                /\ ~dpcQueued'
                /\ h = "cancel" => location
             \/ /\ h = "cancel" /\ dpcQueued'
                /\ currentWait' = currentWait
                /\ refs' = {"isr"}
                /\ UNCHANGED <<status, completions>>
          /\ refs' \subseteq RefTypes
          /\ st \in {"success", "cancelled"}
          /\ UNCHANGED <<told, queueVars, eventVars, pc>>
  <2>1. CASE CompleteWaitDpc
    BY <1>1, <2>1, EndingFacts DEF CompleteWaitDpc
  <2>2. CASE CancelWait
    BY <1>1, <2>2, EndingFacts DEF CancelWait
  <2>. QED  BY <2>1, <2>2
<1>3. /\ location' \in BOOLEAN /\ dpcQueued' \in BOOLEAN
      /\ \A i \in Irps : cancel'[i] \in BOOLEAN
      /\ cancel' \in [Irps -> BOOLEAN]
  BY <1>2 DEF IInv, TypeOK, CompleteWaitDpc, CancelWait, TryToCompleteCurrent
<1>4. /\ \A i \in Irps : i # currentWait =>
             /\ routine'[i] = routine[i]
             /\ cancel'[i] = cancel[i]
             /\ completions'[i] = completions[i]
      /\ routine'[currentWait] = "none"
      /\ completions[currentWait] = 0 /\ ~Fresh(currentWait)
      /\ routine[currentWait] # "queued"
      /\ currentMask # currentWait
  BY <1>1, <1>2 DEF IInv, TypeOK, PlaceInv
<1>5. TypeOK'
  <2>1. completions' \in [Irps -> Nat]
    BY <1>2 DEF IInv, TypeOK
  <2>2. status' \in [Irps -> {"new", "pending", "success", "cancelled", "invalid"}]
    BY <1>2 DEF IInv, TypeOK
  <2>3. routine' \in [Irps -> {"none", "queued", "wait"}]
    BY <1>2 DEF IInv, TypeOK
  <2>4. currentWait' \in Waits \cup {None}
    BY <1>2 DEF IInv, TypeOK
  <2>. QED  BY <1>2, <1>3, <2>1, <2>2, <2>3, <2>4 DEF IInv, TypeOK
<1>6. StartMaskAsserts'
  BY <1>2, <1>1 DEF IInv, TypeOK, StartMaskAsserts
<1>7. RefsMatchHolders'
  BY <1>1, <1>2, <1>4 DEF IInv, TypeOK, RefsMatchHolders
<1>8. NoUseAfterCompletion'
  BY <1>1, <1>2, <1>4 DEF IInv, TypeOK, NoUseAfterCompletion, QueueInv
<1>9. CancelNotMissed'
  BY <1>4 DEF IInv, TypeOK, CancelNotMissed
<1>10. WaitHearsAtOnce'
  BY <1>2 DEF WaitHearsAtOnce
<1>11. QueueInv'
  BY <1>2, <1>4 DEF IInv, QueueInv
<1>12. PlaceInv'
  BY <1>1, <1>2, <1>4 DEF IInv, TypeOK, PlaceInv
<1>. QED
  BY <1>5, <1>6, <1>7, <1>8, <1>9, <1>10, <1>11, <1>12 DEF IInv

\* The end of a write reports TXEMPTY or changes nothing but itself.
LEMMA EndWriteStep ==
    ASSUME IInv, EndWrite PROVE IInv'
<1>1. writing' \in BOOLEAN /\ emptied' \in BOOLEAN
  BY DEF EndWrite, IInv, TypeOK
<1>2. CASE TxEmpty \in isrMask /\ emptied
  BY <1>1, <1>2, RecordStep DEF EndWrite
<1>3. CASE ~(TxEmpty \in isrMask /\ emptied)
  BY <1>1, <1>3
  DEF EndWrite, IInv, TypeOK, StartMaskAsserts, RefsMatchHolders, Fresh, AtPlace,
      NoUseAfterCompletion, CancelNotMissed, WaitHearsAtOnce, QueueInv, PlaceInv,
      irpVars, queueVars, waitVars
<1>. QED  BY <1>2, <1>3

-----------------------------------------------------------------------------
(* The theorems. *)

\* The invariant holds at first,
LEMMA InitIInv == Init => IInv
<1>. SUFFICES ASSUME Init PROVE IInv
  OBVIOUS
<1>. USE SerialWaitAssumption DEF Init
<1>1. queue \in Seq(Irps) /\ DOMAIN queue = {}
  BY EmptySeq
<1>2. IsInjective(queue) /\ Range(queue) = {}
  BY <1>1 DEF IsInjective, Range
<1>3. TypeOK
  BY <1>1 DEF TypeOK
<1>4. StartMaskAsserts /\ RefsMatchHolders /\ CancelNotMissed /\ WaitHearsAtOnce
  BY DEF StartMaskAsserts, RefsMatchHolders, CancelNotMissed, WaitHearsAtOnce
<1>5. NoUseAfterCompletion /\ QueueInv
  BY <1>2 DEF NoUseAfterCompletion, QueueInv
<1>6. PlaceInv
  BY DEF PlaceInv, Fresh, AtPlace
<1>. QED  BY <1>3, <1>4, <1>5, <1>6 DEF IInv

\* and every step keeps it.
LEMMA NextIInv == IInv /\ [Next]_vars => IInv'
<1>. SUFFICES ASSUME IInv, [Next]_vars PROVE IInv'
  OBVIOUS
<1>1. CASE \E i \in Irps : \/ RefuseAtDispatch(i) \/ QueueAtDispatch(i)
                           \/ CancelledAtDispatch(i) \/ FlagCancel(i)
  BY <1>1, RefuseAtDispatchStep, QueueAtDispatchStep, CancelledAtDispatchStep,
     FlagCancelStep
<1>2. CASE \E n \in DOMAIN queue : CancelQueuedIrp(n)
  BY <1>2, CancelQueuedIrpStep
<1>3. CASE \E t \in Threads, i \in Irps : StartAtDispatch(t, i)
  BY <1>3, StartAtDispatchStep
<1>4. CASE \E t \in Threads : Work(t)
  BY <1>4, FinishOldWaitStep, CheckWaitStep, WaitFoundCancelledStep, GiveWaitStep,
     GetNextIrpStep DEF Work
<1>5. CASE \E e \in Events : Event(e)
  <2>1. PICK e \in Events : Event(e)
    BY <1>5
  <2>2. writing' \in BOOLEAN /\ emptied' \in BOOLEAN
    BY <2>1 DEF Event, IInv, TypeOK
  <2>. QED  BY <2>1, <2>2, RecordStep DEF Event
<1>6. CASE Transmit \/ UNCHANGED vars
  <2>1. /\ UNCHANGED <<irpVars, queueVars, waitVars, isrMask, history, pc>>
        /\ emptied' \in BOOLEAN /\ writing' \in BOOLEAN
    BY <1>6 DEF Transmit, vars, eventVars, IInv, TypeOK
  <2>. USE <2>1 DEF irpVars, queueVars, waitVars
  <2>2. TypeOK'
    BY DEF IInv, TypeOK
  <2>3. StartMaskAsserts' /\ RefsMatchHolders' /\ CancelNotMissed' /\ WaitHearsAtOnce'
    BY DEF IInv, StartMaskAsserts, RefsMatchHolders, CancelNotMissed,
           WaitHearsAtOnce, AtPlace
  <2>4. NoUseAfterCompletion' /\ QueueInv' /\ PlaceInv'
    BY DEF IInv, NoUseAfterCompletion, QueueInv, PlaceInv, Fresh, AtPlace
  <2>. QED  BY <2>2, <2>3, <2>4 DEF IInv
<1>7. CASE EndWrite
  BY <1>7, EndWriteStep
<1>8. CASE CompleteWaitDpc \/ CancelWait
  BY <1>8, EndingStep
<1>. QED
  BY <1>1, <1>2, <1>3, <1>4, <1>5, <1>6, <1>7, <1>8 DEF Next

\* IInv holds in every reachable state, whatever the requests, threads and
\* events.
THEOREM Inductive == Spec => []IInv
  BY InitIInv, NextIInv, PTL DEF Spec

\* The history never holds an event the mask does not ask for, and every field
\* has its values (waitmask.c:572-576).
THEOREM TypeCorrect == Spec => []TypeOK
<1>1. IInv => TypeOK
  BY DEF IInv
<1>. QED  BY <1>1, Inductive, PTL

\* The ASSERTs of SerialStartMask hold: it is never run twice at a time, and
\* the wait it gives to the ISR finds neither a location nor a wait.
THEOREM AssertsHold == Spec => []StartMaskAsserts
<1>1. IInv => StartMaskAsserts
  BY DEF IInv
<1>. QED  BY <1>1, Inductive, PTL

\* The reference mask of the current wait says who can still reach it.
THEOREM ReferencesExact == Spec => []RefsMatchHolders
<1>1. IInv => RefsMatchHolders
  BY DEF IInv
<1>. QED  BY <1>1, Inductive, PTL

\* A completed request is completed once and out of everybody's reach.
THEOREM CompletedIsGone == Spec => []NoUseAfterCompletion
<1>1. IInv => NoUseAfterCompletion
  BY DEF IInv
<1>. QED  BY <1>1, Inductive, PTL

\* No request keeps its cancel routine once its Cancel flag is set.
THEOREM CancelNeverMissed == Spec => []CancelNotMissed
<1>1. IInv => CancelNotMissed
  BY DEF IInv
<1>. QED  BY <1>1, Inductive, PTL

\* The history is empty while the ISR knows a wait.
THEOREM WaitAlwaysHears == Spec => []WaitHearsAtOnce
<1>1. IInv => WaitHearsAtOnce
  BY DEF IInv
<1>. QED  BY <1>1, Inductive, PTL

-----------------------------------------------------------------------------
(* No event is lost. *)

\* What is owed stays owed while it stays in the history, and while the waits
\* that were told are neither told anew nor completed.
LEMMA OwedKept ==
    ASSUME \A e \in history \ history' :
               \E w \in Waits : completions'[w] = 0 /\ e \in told'[w],
           \A w \in Waits : told[w] # {} /\ completions[w] = 0 =>
               completions'[w] = 0 /\ told'[w] = told[w]
    PROVE  Owed \subseteq Owed'
  BY DEF Owed

\* The step that completes a request that was told of nothing.
LEMMA OwedAfterComplete ==
    ASSUME IInv, NEW i \in Irps, NEW st, Complete(i, st), told[i] = {},
           UNCHANGED <<told, history>>
    PROVE  Owed \subseteq Owed'
<1>1. \A w \in Waits : told[w] # {} => completions'[w] = completions[w]
  BY DEF Complete, IInv, TypeOK, Irps
<1>. QED  BY <1>1, OwedKept

\* Everything recorded reaches the wait that is answered with it.
LEMMA OwedAfterAnswer ==
    ASSUME IInv, NEW w \in Waits, completions[w] = 0, told[w] = {},
           NEW E \in SUBSET Events, history \subseteq E,
           told' = [told EXCEPT ![w] = E], UNCHANGED completions
    PROVE  Owed \subseteq Owed'
<1>1. told'[w] = E /\ \A v \in Waits : v # w => told'[v] = told[v]
  BY DEF IInv, TypeOK, Irps
<1>. QED  BY <1>1, OwedKept

\* A step that leaves the history and the waits alone.
LEMMA OwedUnchanged ==
    ASSUME UNCHANGED <<told, history, completions>> PROVE Owed' = Owed
  BY DEF Owed

\* An event that is recorded is owed, and none is forgotten.
LEMMA RecordOwes ==
    ASSUME IInv, NEW e \in isrMask, Record(e) PROVE Owed \subseteq Owed'
<1>1. CASE location
  <2>1. /\ currentWait \in Waits /\ completions[currentWait] = 0
        /\ told[currentWait] = {}
        /\ history \cup {e} \in SUBSET Events
    BY <1>1, SerialWaitAssumption DEF IInv, TypeOK, RefsMatchHolders, PlaceInv, Irps
  <2>. QED  BY <1>1, <2>1, OwedAfterAnswer DEF Record
<1>2. CASE ~location
  BY <1>2, OwedKept DEF Record
<1>. QED  BY <1>1, <1>2

\* What ends the wait with a status other than success told it nothing.
LEMMA EndingOwes ==
    ASSUME IInv, CompleteWaitDpc \/ CancelWait, NEW e \in Owed \ Owed'
    PROVE  \E w \in Waits : /\ completions'[w] > completions[w]
                           /\ status'[w] = "success"
                           /\ e \in told[w]
<1>1. currentWait # None /\ currentWait \in Waits /\ currentWait \in Irps
  BY DEF CompleteWaitDpc, CancelWait, IInv, TypeOK, RefsMatchHolders, Irps
<1>2. CASE CompleteWaitDpc
  <2>1. Complete(currentWait, "success") /\ UNCHANGED <<told, history>>
    BY <1>1, <1>2, EndingFacts DEF CompleteWaitDpc, eventVars
  <2>2. e \in told[currentWait]
    BY <2>1, <1>1, OwedKept DEF Complete, IInv, TypeOK, Irps, Owed
  <2>. QED  BY <1>1, <2>1, <2>2 DEF Complete, IInv, TypeOK
<1>3. CASE CancelWait
  <2>1. /\ UNCHANGED <<told, history>>
        /\ \/ Complete(currentWait, "cancelled") /\ location
           \/ UNCHANGED completions
    BY <1>1, <1>3, EndingFacts DEF CancelWait, eventVars
  <2>2. CASE Complete(currentWait, "cancelled") /\ location
    <3>1. told[currentWait] = {}
      BY <1>1, <2>2 DEF IInv, PlaceInv
    <3>. QED  BY <1>1, <2>1, <2>2, <3>1, OwedAfterComplete
  <2>3. CASE UNCHANGED completions
    BY <2>1, <2>3, OwedUnchanged
  <2>. QED  BY <2>1, <2>2, <2>3
<1>. QED  BY <1>2, <1>3

\* What is owed no more was masked out or told to a wait.
LEMMA NextOwes ==
    ASSUME IInv, [Next]_vars, NEW e \in Owed \ Owed'
    PROVE  \/ e \notin isrMask'
           \/ \E w \in Waits : /\ completions'[w] > completions[w]
                               /\ status'[w] = "success"
                               /\ e \in told[w]
<1>. DEFINE Goal == \/ e \notin isrMask'
                    \/ \E w \in Waits : /\ completions'[w] > completions[w]
                                        /\ status'[w] = "success"
                                        /\ e \in told[w]
<1>. SUFFICES Goal
  OBVIOUS
<1>. HIDE DEF Goal
<1>a. ASSUME Owed \subseteq Owed' PROVE Goal
  BY <1>a
<1>1. ASSUME NEW i \in Irps, RefuseAtDispatch(i) \/ CancelledAtDispatch(i)
      PROVE  Goal
  <2>1. told[i] = {}
    BY <1>1 DEF RefuseAtDispatch, CancelledAtDispatch, IInv, PlaceInv
  <2>. QED
    BY <1>a, <1>1, <2>1, OwedAfterComplete
    DEF RefuseAtDispatch, CancelledAtDispatch, eventVars
<1>2. ASSUME NEW n \in DOMAIN queue, CancelQueuedIrp(n)  PROVE Goal
  <2>1. queue[n] \in Irps /\ routine[queue[n]] = "queued"
    <3>1. queue \in Seq(Irps) /\ IsInjective(queue) /\ n \in 1..Len(queue)
      BY LenProperties DEF IInv, TypeOK, QueueInv
    <3>. QED  BY <3>1, RemoveEntries DEF IInv, QueueInv
  <2>2. told[queue[n]] = {}
    BY <2>1, SerialWaitAssumption DEF IInv, PlaceInv
  <2>. QED
    BY <1>a, <1>2, <2>1, <2>2, OwedAfterComplete DEF CancelQueuedIrp, eventVars
<1>3. ASSUME NEW t \in Threads, GetNextIrp(t)  PROVE Goal
  <2>1. currentMask \in Irps /\ told[currentMask] = {}
    BY <1>3 DEF GetNextIrp, AtPlace, IInv, TypeOK, StartMaskAsserts, PlaceInv
  <2>. QED
    BY <1>a, <1>3, <2>1, OwedAfterComplete DEF GetNextIrp, eventVars
<1>4. ASSUME NEW t \in Threads, GiveWait(t)  PROVE Goal
  <2>1. /\ currentMask \in Waits /\ completions[currentMask] = 0
        /\ told[currentMask] = {} /\ history \in SUBSET Events
    BY <1>4 DEF GiveWait, AtPlace, IInv, TypeOK, StartMaskAsserts, PlaceInv, Irps
  <2>. QED
    BY <1>a, <1>4, <2>1, OwedAfterAnswer DEF GiveWait, HandToIsr
<1>5. ASSUME NEW t \in Threads, FinishOldWait(t)  PROVE Goal
  <2>1. PICK m : /\ isrMask' = m /\ history' = history \cap m
                 /\ UNCHANGED <<told, completions>>
    BY <1>5 DEF FinishOldWait, SetMask
  <2>2. e \in history /\ e \notin history'
    BY <2>1 DEF Owed
  <2>. QED  BY <2>1, <2>2 DEF Goal
<1>6. ASSUME \/ \E i \in Irps : QueueAtDispatch(i) \/ FlagCancel(i)
             \/ \E t \in Threads, i \in Irps : StartAtDispatch(t, i)
             \/ \E t \in Threads : CheckWait(t) \/ WaitFoundCancelled(t)
             \/ Transmit \/ UNCHANGED vars
      PROVE  Goal
  <2>1. UNCHANGED <<told, history, completions>>
    BY <1>6
    DEF QueueAtDispatch, FlagCancel, StartAtDispatch, CheckWait, WaitFoundCancelled,
        Transmit, vars, irpVars, eventVars
  <2>. QED  BY <1>a, <2>1, OwedUnchanged
<1>7. ASSUME NEW f \in Events, Event(f)  PROVE Goal
  BY <1>a, <1>7, RecordOwes DEF Event
<1>8. CASE EndWrite
  <2>1. CASE TxEmpty \in isrMask /\ emptied
    BY <1>a, <1>8, <2>1, RecordOwes DEF EndWrite
  <2>2. CASE ~(TxEmpty \in isrMask /\ emptied)
    BY <1>a, <1>8, <2>2, OwedUnchanged DEF EndWrite, irpVars
  <2>. QED  BY <2>1, <2>2
<1>9. CASE CompleteWaitDpc \/ CancelWait
  BY <1>9, EndingOwes DEF Goal
<1>. QED
  BY <1>1, <1>2, <1>3, <1>4, <1>5, <1>6, <1>7, <1>8, <1>9 DEF Next, Work

\* An event that was recorded is reported by a wait that ends with success,
\* unless a new mask leaves it out (waitmask.c:568-574), whatever masks, waits,
\* cancels and completions come in between.
THEOREM EventsNeverLost == Spec => NoEventLost
<1>1. IInv /\ [Next]_vars =>
          [\A e \in Owed \ Owed' :
              \/ e \notin isrMask'
              \/ \E w \in Waits : /\ completions'[w] > completions[w]
                                  /\ status'[w] = "success"
                                  /\ e \in told[w]]_vars
  BY NextOwes
<1>. QED  BY <1>1, Inductive, PTL DEF Spec, NoEventLost

-----------------------------------------------------------------------------
(* The mask queue implements IrpQueue. *)

\* One request departs and the others do not.
LEMMA OneDeparts ==
    ASSUME NEW i \in Irps, ~Left(i), Left(i)',
           \A j \in Irps : j # i => (Left(j)' <=> Left(j))
    PROVE  Departures' = [Departures EXCEPT ![i] = @ + 1]
<1>1. Departures' = [j \in Irps |-> IF Left(j)' THEN 1 ELSE 0]
  BY DEF Departures
<1>2. [Departures EXCEPT ![i] = @ + 1] =
          [j \in Irps |-> IF j = i THEN 1 ELSE IF Left(j) THEN 1 ELSE 0]
  <2>1. Departures[i] + 1 = 1
    BY DEF Departures
  <2>2. [Departures EXCEPT ![i] = @ + 1] =
            [j \in Irps |-> IF j = i THEN Departures[i] + 1 ELSE Departures[j]]
    BY DEF Departures
  <2>3. \A j \in Irps : Departures[j] = IF Left(j) THEN 1 ELSE 0
    BY DEF Departures
  <2>. HIDE DEF Departures
  <2>. QED  BY <2>1, <2>2, <2>3
<1>. QED  BY <1>1, <1>2

\* If nobody leaves the queue, its departures stay what they are,
LEMMA NobodyDeparts ==
    ASSUME \A j \in Irps : Left(j)' <=> Left(j)
    PROVE  Departures' = Departures
  BY DEF Departures

\* and if the queue stays as it is, the abstract queue stutters.
LEMMA SameQueueStutters ==
    ASSUME UNCHANGED <<currentMask, queue>>,
           \A i \in Irps : Fresh(i)' <=> Fresh(i)
    PROVE  UNCHANGED MaskQueue!vars
  BY NobodyDeparts DEF Left, Range, MaskQueue!vars

\* The current request departs, completed or as the current wait, and the
\* oldest one in the queue takes its place.
LEMMA TakeNextFinishes ==
    ASSUME IInv, NEW t \in Threads, pc[t] # "idle",
           NEW r \in [Irps -> {"none", "queued", "wait"}],
           TakeNext(t, r),
           \A i \in Irps : Fresh(i)' <=> Fresh(i)
    PROVE  MaskQueue!Next
<1>1. /\ currentMask \in Irps /\ currentMask # None
      /\ ~Fresh(currentMask) /\ routine[currentMask] = "none"
  BY DEF IInv, TypeOK, StartMaskAsserts, PlaceInv
<1>2. /\ \A i \in Irps : i \in Range(queue') <=>
                             i \in Range(queue) /\ i # currentMask'
      /\ currentMask' # None => currentMask' \in Range(queue)
  BY TakeNextFacts
<1>3. currentMask \notin Range(queue) /\ None \notin Irps
  BY <1>1, SerialWaitAssumption DEF IInv, QueueInv
<1>0. PICK m \in Irps : m = currentMask
  BY <1>1
<1>4. ~Left(m) /\ Left(m)'
  BY <1>0, <1>1, <1>2, <1>3 DEF Left
<1>5. \A j \in Irps : j # m => (Left(j)' <=> Left(j))
  BY <1>0, <1>2, <1>3 DEF Left
<1>6. Departures' = [Departures EXCEPT ![m] = @ + 1]
  BY <1>4, <1>5, OneDeparts
<1>7. MaskQueue!Finish
  BY <1>0, <1>1, <1>6 DEF MaskQueue!Finish, MaskQueue!Complete, TakeNext
<1>. QED  BY <1>7 DEF MaskQueue!Next

\* A request that goes neither to the queue nor past it is new to the queue.
LEMMA FreshInQueue ==
    ASSUME IInv, NEW i \in Irps, Fresh(i)
    PROVE  MaskQueue!Fresh(i) /\ ~Left(i)
<1>1. i # currentMask /\ i \notin Range(queue)
  BY DEF IInv, PlaceInv, QueueInv
<1>2. ~Left(i) /\ Departures[i] = 0
  BY DEF Left, Departures
<1>. QED  BY <1>1, <1>2 DEF MaskQueue!Fresh, MaskQueue!Range, Range

\* Every step is one of the abstract queue or a stutter.
LEMMA NextRefines ==
    ASSUME IInv, [Next]_vars
    PROVE  MaskQueue!Next \/ UNCHANGED MaskQueue!vars
<1>. DEFINE Goal == MaskQueue!Next \/ UNCHANGED MaskQueue!vars
<1>. SUFFICES Goal
  OBVIOUS
<1>a. ASSUME UNCHANGED <<currentMask, queue>>,
             \A i \in Irps : Fresh(i)' <=> Fresh(i)
      PROVE  Goal
  BY <1>a, SameQueueStutters
<1>b. status \in [Irps -> {"new", "pending", "success", "cancelled", "invalid"}]
  BY DEF IInv, TypeOK
<1>1. ASSUME NEW i \in Irps, RefuseAtDispatch(i) \/ CancelledAtDispatch(i)
      PROVE  Goal
  <2>1. /\ Fresh(i) /\ UNCHANGED <<currentMask, queue>>
        /\ ~Fresh(i)' /\ \A j \in Irps : j # i => (Fresh(j)' <=> Fresh(j))
    BY <1>1, <1>b DEF RefuseAtDispatch, CancelledAtDispatch, Complete, Fresh, queueVars
  <2>2. MaskQueue!Fresh(i) /\ ~Left(i) /\ i # currentMask /\ i \notin Range(queue)
    BY <2>1, FreshInQueue DEF IInv, PlaceInv, QueueInv
  <2>3. Departures' = [Departures EXCEPT ![i] = @ + 1]
    BY <2>1, <2>2, OneDeparts DEF Left
  <2>4. MaskQueue!Refuse(i)
    BY <2>1, <2>2, <2>3 DEF MaskQueue!Refuse, MaskQueue!Complete
  <2>. QED  BY <2>4 DEF MaskQueue!Next
<1>2. ASSUME NEW i \in Irps, QueueAtDispatch(i)  PROVE Goal
  <2>1. /\ Fresh(i) /\ queue' = Append(queue, i) /\ currentMask' = currentMask
        /\ ~Fresh(i)' /\ \A j \in Irps : j # i => (Fresh(j)' <=> Fresh(j))
    BY <1>2, <1>b DEF QueueAtDispatch, Fresh
  <2>2. MaskQueue!Fresh(i) /\ ~Left(i) /\ i \notin Range(queue)
    BY <2>1, FreshInQueue DEF IInv, PlaceInv, QueueInv
  <2>3. \A y : y \in Range(queue') <=> y \in Range(queue) \/ y = i
    BY <2>1, <2>2, AppendEntries DEF IInv, TypeOK, QueueInv
  <2>4. Departures' = Departures
    BY <2>1, <2>2, <2>3, NobodyDeparts DEF Left
  <2>5. currentMask # None
    BY <1>2 DEF QueueAtDispatch, IInv, QueueInv
  <2>6. MaskQueue!Wait(i)
    BY <2>1, <2>2, <2>4, <2>5 DEF MaskQueue!Wait
  <2>. QED  BY <2>6 DEF MaskQueue!Next
<1>3. ASSUME NEW t \in Threads, NEW i \in Irps, StartAtDispatch(t, i)  PROVE Goal
  <2>1. /\ Fresh(i) /\ queue = <<>> /\ currentMask = None
        /\ currentMask' = i /\ queue' = queue
        /\ ~Fresh(i)' /\ \A j \in Irps : j # i => (Fresh(j)' <=> Fresh(j))
    BY <1>3, <1>b DEF StartAtDispatch, Fresh
  <2>2. MaskQueue!Fresh(i) /\ ~Left(i)
    BY <2>1, FreshInQueue
  <2>3. Departures' = Departures
    BY <2>1, <2>2, NobodyDeparts, SerialWaitAssumption DEF Left
  <2>4. MaskQueue!Start(i)
    BY <2>1, <2>2, <2>3 DEF MaskQueue!Start
  <2>. QED  BY <2>4 DEF MaskQueue!Next
<1>4. ASSUME NEW n \in DOMAIN queue, CancelQueuedIrp(n)  PROVE Goal
  <2>1. /\ queue[n] \in Irps /\ queue[n] \in Range(queue)
        /\ \A y : y \in Range(RemoveAt(queue, n)) <=> y \in Range(queue) /\ y # queue[n]
    <3>1. queue \in Seq(Irps) /\ IsInjective(queue) /\ n \in 1..Len(queue)
      BY LenProperties DEF IInv, TypeOK, QueueInv
    <3>. QED  BY <3>1, RemoveEntries
  <2>0. PICK i \in Irps : i = queue[n]
    BY <2>1
  <2>2. /\ queue' = RemoveAt(queue, n) /\ currentMask' = currentMask
        /\ ~Fresh(i)'
        /\ \A j \in Irps : j # i => (Fresh(j)' <=> Fresh(j))
    BY <1>4, <1>b, <2>0 DEF CancelQueuedIrp, Complete, Fresh
  <2>3. i # currentMask /\ ~Left(i)
    BY <2>0, <2>1, SerialWaitAssumption DEF IInv, QueueInv, PlaceInv, Left
  <2>4. Departures' = [Departures EXCEPT ![i] = @ + 1]
    BY <2>0, <2>1, <2>2, <2>3, OneDeparts DEF Left
  <2>5. MaskQueue!Withdraw(n)
    BY <2>0, <2>2, <2>4 DEF MaskQueue!Withdraw, MaskQueue!Complete, MaskQueue!RemoveAt,
                      RemoveAt
  <2>. QED  BY <2>5 DEF MaskQueue!Next
<1>5. ASSUME NEW t \in Threads, GetNextIrp(t)  PROVE Goal
  <2>1. \A i \in Irps : Fresh(i)' <=> Fresh(i)
    BY <1>5, <1>b DEF GetNextIrp, Complete, Fresh
  <2>2. pc[t] # "idle" /\ TakeNext(t, routine)
    BY <1>5 DEF GetNextIrp, AtPlace
  <2>. QED  BY <2>1, <2>2, TakeNextFinishes DEF IInv, TypeOK
<1>6. ASSUME NEW t \in Threads, GiveWait(t)  PROVE Goal
  <2>1. \A i \in Irps : Fresh(i)' <=> Fresh(i)
    BY <1>6 DEF GiveWait, Fresh
  <2>2. /\ pc[t] # "idle"
        /\ TakeNext(t, [routine EXCEPT ![currentMask] = "wait"])
    BY <1>6 DEF GiveWait, AtPlace
  <2>3. [routine EXCEPT ![currentMask] = "wait"] \in
            [Irps -> {"none", "queued", "wait"}]
    BY DEF IInv, TypeOK
  <2>. QED  BY <2>1, <2>2, <2>3, TakeNextFinishes
<1>7. ASSUME NEW t \in Threads,
             FinishOldWait(t) \/ CheckWait(t) \/ WaitFoundCancelled(t)
      PROVE  Goal
  <2>1. currentMask \in Irps /\ ~Fresh(currentMask)
    BY <1>7, SerialWaitAssumption
    DEF FinishOldWait, SetMask, CheckWait, WaitFoundCancelled, AtPlace,
        IInv, TypeOK, StartMaskAsserts, PlaceInv
  <2>2. /\ UNCHANGED <<currentMask, queue>>
        /\ \A i \in Irps : Fresh(i)' <=> Fresh(i)
    BY <1>7, <1>b, <2>1
    DEF FinishOldWait, SetMask, CheckWait, WaitFoundCancelled, Fresh, queueVars
  <2>. QED  BY <1>a, <2>2
<1>8. CASE CompleteWaitDpc \/ CancelWait
  <2>1. currentWait # None /\ currentWait \in Irps /\ ~Fresh(currentWait)
    BY <1>8 DEF CompleteWaitDpc, CancelWait, IInv, TypeOK, RefsMatchHolders,
                PlaceInv, Irps
  <2>2. UNCHANGED <<currentMask, queue>> /\ \A i \in Irps : Fresh(i)' <=> Fresh(i)
    BY <1>8, <1>b, <2>1
    DEF CompleteWaitDpc, CancelWait, TryToCompleteCurrent, Complete, Fresh, queueVars
  <2>. QED  BY <1>a, <2>2
<1>9. ASSUME \/ \E i \in Irps : FlagCancel(i)
             \/ \E e \in Events : Event(e)
             \/ Transmit \/ EndWrite \/ UNCHANGED vars
      PROVE  Goal
  <2>1. UNCHANGED <<status, currentMask, queue>>
    BY <1>9
    DEF FlagCancel, Event, Transmit, EndWrite, Record, vars, irpVars, queueVars
  <2>. QED  BY <1>a, <2>1 DEF Fresh
<1>. HIDE DEF Goal
<1>. QED
  BY <1>1, <1>2, <1>3, <1>4, <1>5, <1>6, <1>7, <1>8, <1>9 DEF Next, Work

\* Masks and waits are worked on in the order they came, one at a time, and a
\* withdrawn one leaves the others in order.
THEOREM Refinement == Spec => ImplementsIrpQueue
<1>1. Init => MaskQueue!Init
  BY DEF Init, MaskQueue!Init, Departures, Left, Fresh
<1>2. IInv /\ [Next]_vars => [MaskQueue!Next]_(MaskQueue!vars)
  BY NextRefines
<1>. QED
  BY Inductive, <1>1, <1>2, PTL DEF Spec, ImplementsIrpQueue, MaskQueue!Spec
=============================================================================
