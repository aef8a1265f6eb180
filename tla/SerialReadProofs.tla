-------------------------- MODULE SerialReadProofs --------------------------
(***************************************************************************)
(* Proofs about SerialRead for any number of requests, threads and         *)
(* processors: its inductive invariant IInv, the safety properties that    *)
(* follow from it, and that it implements IrpQueue.                        *)
(*                                                                         *)
(* Each conjunct of IInv has a lemma <conjunct>Step with one step per      *)
(* action.  What the ways of ending a read have in common is proved once,  *)
(* in EndingStep; likewise for withdrawing a queued request (WithdrawStep),*)
(* for giving a read to the ISR (SwitchFacts) and for the copies out of    *)
(* the interrupt buffer (CopyFacts).                                       *)
(*                                                                         *)
(* Two invariants are proved on top of IInv.  For DpcCount, CountStep     *)
(* sorts the steps into seven kinds, and CountSteps counts each.  For the  *)
(* outcome of a read, StarterOutcome, OutcomeKeptStep and EndingOutcome    *)
(* cover a context that starts or completes it, a step that has nothing to *)
(* do with it, and SerialTryToCompleteCurrent; OutcomeStep is their use.   *)
(***************************************************************************)
EXTENDS SerialRead, QueueLemmas, FiniteSetTheorems, SequenceTheorems, TLAPS

\* The requests of a sequence are its entries.
LEMMA RangeEntries ==
    ASSUME NEW q \in Seq(Irps), NEW i
    PROVE  i \in Range(q) <=> \E n \in 1..Len(q) : q[n] = i
  BY LenProperties DEF Range

\* A set of timers has a natural size, so DpcCount stays an integer.
LEMMA TimerCount ==
    ASSUME NEW T \in SUBSET Timers
    PROVE  Cardinality(T) \in Nat
<1>1. IsFiniteSet({"total"}) /\ IsFiniteSet({"total"} \cup {"interval"})
  BY FS_Singleton, FS_AddElement
<1>2. Timers = {"total"} \cup {"interval"}
  BY DEF Timers
<1>. QED  BY <1>1, <1>2, FS_Subset, FS_CardinalityType

\* A read sets timers and nothing else.
LEMMA TimersForType ==
    ASSUME NEW t PROVE TimersFor(t) \in SUBSET Timers
  BY DEF TimersFor

-----------------------------------------------------------------------------
(* Facts shared by the steps. *)

\* What the references say when a DPC routine or a cancel routine enters
\* SerialTryToCompleteCurrent: the read is there, nobody is starting it, and
\* no source is armed afterwards.
LEMMA EndingFacts ==
    ASSUME IInv,
           NEW c \in Contexts, NEW h \in RefTypes, NEW s \in Statuses,
           NEW sync \in BOOLEAN,
           TryToCompleteCurrent(c, h, s, sync),
           h \in Sources => Handling(c, h),
           h = "cancel" => current # None /\ routine[current] = "current",
           ~sync => h = "isr"
    PROVE  /\ current \in Irps
           /\ \A d \in Contexts : ~Starting(d)
           /\ armed' = [x \in Sources |-> FALSE]
           /\ armed["isr"] => sync
<1>. USE DEF RefTypes, Sources, Timers
<1>1. ASSUME h \in Sources PROVE Holds(h)
  BY <1>1 DEF Holds
<1>2. current # None /\ \A d \in Contexts : ~Starting(d)
  <2>1. CASE h \in Sources
    BY <1>1, <2>1 DEF IInv, RefsMatchHolders
  <2>2. CASE h = "cancel"
    BY <2>2 DEF IInv, StarterInv
  <2>. QED  BY <2>1, <2>2
<1>3. armed["isr"] => sync
  BY DEF IInv, SourceInv
<1>4. current \in Irps
  BY <1>2 DEF IInv, TypeOK
<1>5. armed' = [x \in Sources |-> FALSE]
  BY <1>3 DEF TryToCompleteCurrent, ReferencesLeft, IInv, TypeOK
<1>. QED  BY <1>2, <1>3, <1>4, <1>5

\* The step leaves well-typed values and an unfinished read that is not in the
\* user buffer.
LEMMA EndingType ==
    ASSUME IInv,
           NEW c \in Contexts, NEW h \in RefTypes, NEW s \in Statuses,
           NEW sync \in BOOLEAN,
           TryToCompleteCurrent(c, h, s, sync),
           current \in Irps,
           lastCount' \in ReadComplete..MaxLen,
           lock' \in Contexts \cup {None},
           cancel' \in [Irps -> BOOLEAN]
    PROVE  TypeOK'
<1>. USE SerialReadAssumption
     DEF TryToCompleteCurrent, ReferencesLeft, IInv, TypeOK, queueVars
<1>1. refs' \in [Irps -> SUBSET RefTypes]
  OBVIOUS
<1>2. routine' \in [Irps -> {"none", "queued", "current"}]
  OBVIOUS
<1>3. info' \in [Irps -> 0..MaxLen] /\ userSlot' \in 0..MaxLen
  OBVIOUS
<1>4. status' \in [Irps -> Statuses] /\ count' \in 0..BufferSize
  OBVIOUS
<1>5. armed' \in [Sources -> BOOLEAN] /\ dpcQueued' \in [Dpcs -> BOOLEAN]
  OBVIOUS
<1>6. dpcCount' \in Int
  <2>1. {t \in Timers : armed[t]} \in SUBSET Timers
    OBVIOUS
  <2>. QED  BY <2>1, TimerCount DEF CancelTimers
<1>7. pc' \in [Contexts -> Places]
  BY DEF Go, Back, Places
<1>8. UNCHANGED <<length, completions, queue, current, needed, readByIsr,
                  job, copied, timeouts>>
  OBVIOUS
<1>. QED  BY <1>1, <1>2, <1>3, <1>4, <1>5, <1>6, <1>7, <1>8 DEF TypeOK

\* When a read ends, the lengths stay as they should be.
LEMMA EndingLength ==
    ASSUME IInv,
           NEW c \in Contexts, NEW h \in RefTypes, NEW s \in Statuses,
           NEW sync \in BOOLEAN,
           TryToCompleteCurrent(c, h, s, sync),
           current \in Irps,
           \A d \in Contexts : ~Starting(d),
           armed' = [x \in Sources |-> FALSE]
    PROVE  LengthInv'
<1>1. \A i \in Irps : Fresh(i)' => Fresh(i) /\ i # current
  BY DEF TryToCompleteCurrent, ReferencesLeft, queueVars, Fresh
<1>2. \A i \in Irps :
          (routine[i] = "queued")' => routine[i] = "queued" /\ i # current
  BY DEF TryToCompleteCurrent, ReferencesLeft, IInv, TypeOK, QueueInv
<1>3. \A i \in Irps : i # current => info'[i] = info[i]
  BY DEF TryToCompleteCurrent, ReferencesLeft, IInv, TypeOK
<1>4. \A d \in Contexts : pc'[d] \notin {"start", "copied"}
  BY DEF TryToCompleteCurrent, ReferencesLeft, IInv, TypeOK, Starting, Go, Back
<1>5. ~armed'["isr"]
  BY DEF Sources
<1>. QED
  BY <1>1, <1>2, <1>3, <1>4, <1>5 DEF IInv, LengthInv, IntervalMarkCurrent


\* What a reference that ReferencesLeft keeps is.
LEMMA LeftMember ==
    ASSUME NEW h, NEW grabbed, NEW r
    PROVE  r \in ReferencesLeft(h, grabbed) <=>
               /\ r \in refs[current] /\ r # h
               /\ r = "isr" => ~grabbed
               /\ r = "cancel" => routine[current] = "none"
               /\ r \in Timers => ~armed[r]
  BY DEF ReferencesLeft

\* Whoever is left in the mask is on its way: its DPC is queued or running on
\* another processor.
LEMMA EndingRefs ==
    ASSUME IInv,
           NEW c \in Contexts, NEW h \in RefTypes, NEW s \in Statuses,
           NEW sync \in BOOLEAN,
           TryToCompleteCurrent(c, h, s, sync),
           h \in Sources => Handling(c, h),
           \A x \in Sources : Handling(c, x) => x = h,
           ~sync => h = "isr",
           current \in Irps,
           \A d \in Contexts : ~Starting(d),
           armed' = [x \in Sources |-> FALSE]
    PROVE  RefsMatchHolders'
<1>. DEFINE left == ReferencesLeft(h, sync /\ armed["isr"])
<1>0. /\ refs \in [Irps -> SUBSET RefTypes]
      /\ routine \in [Irps -> {"none", "queued", "current"}]
      /\ pc \in [Contexts -> Places]
      /\ current # None
  BY SerialReadAssumption DEF IInv, TypeOK
<1>1. /\ refs'[current] = left
      /\ routine'[current] = "none"
      /\ current' = current
      /\ dpcQueued' = dpcQueued
      /\ job' = job
      /\ pc' = [pc EXCEPT ![c] = IF left = {} THEN "next" ELSE Back(c)]
  BY <1>0 DEF TryToCompleteCurrent, Go, queueVars
<1>2. \A x \in Sources : Holds(x) <=> x \in refs[current]
  BY <1>0 DEF IInv, RefsMatchHolders
<1>3. routine[current] = "current" <=> "cancel" \in refs[current]
  BY <1>0 DEF IInv, RefsMatchHolders
<1>4. \A x \in Sources : x \in left =>
          /\ x # h /\ x \in refs[current] /\ ~armed[x]
  <2>. SUFFICES ASSUME NEW x \in Sources, x \in left
                PROVE  x # h /\ x \in refs[current] /\ ~armed[x]
    OBVIOUS
  <2>1. /\ x # h /\ x \in refs[current]
        /\ x = "isr" => ~(sync /\ armed["isr"])
        /\ x \in Timers => ~armed[x]
    BY LeftMember
  <2>2. sync \/ h = "isr"
    OBVIOUS
  <2>3. x = "isr" \/ x \in Timers
    BY DEF Sources
  <2>. QED  BY <2>1, <2>2, <2>3
<1>5. \A x \in Sources :
          x # h /\ x \in refs[current] /\ ~armed[x] => x \in left
  BY DEF ReferencesLeft, Sources, Timers
<1>6. "cancel" \notin left
  <2>1. "cancel" \in left =>
            "cancel" \in refs[current] /\ routine[current] = "none"
    BY LeftMember
  <2>. QED  BY <1>3, <2>1
<1>. HIDE DEF left
<1>7. /\ pc'[c] \notin {"dpc", "expired"}
      /\ \A d \in Contexts : d # c => pc'[d] = pc[d]
  BY <1>0, <1>1 DEF Back
<1>8. \A x \in Sources : Holds(x)' <=> x \in left
  <2>. SUFFICES ASSUME NEW x \in Sources PROVE Holds(x)' <=> x \in left
    OBVIOUS
  <2>1. ASSUME dpcQueued[x] PROVE x # h /\ ~armed[x] /\ x \in refs[current]
    BY <1>2, <2>1 DEF IInv, SourceInv, Holds
  <2>2. ASSUME NEW d \in Contexts, d # c, Handling(d, x)
        PROVE  x # h /\ ~armed[x] /\ x \in refs[current]
    BY <1>2, <2>2 DEF IInv, SourceInv, Holds
  <2>3. Holds(x)' => x \in left
    BY <1>1, <1>5, <1>7, <2>1, <2>2 DEF Holds, Handling
  <2>4. ASSUME x \in left PROVE Holds(x)'
    <3>1. dpcQueued[x] \/ \E d \in Contexts : d # c /\ Handling(d, x)
      BY <1>2, <1>4, <2>4 DEF Holds
    <3>. QED  BY <1>1, <1>7, <3>1 DEF Holds, Handling
  <2>. QED  BY <2>3, <2>4
<1>9. CASE left = {}
  <2>1. Starting(c)'
    BY <1>0, <1>1, <1>9 DEF Starting
  <2>. QED  BY <1>8, <1>9, <2>1 DEF RefsMatchHolders
<1>10. CASE left # {}
  <2>1. \A d \in Contexts : ~Starting(d)'
    BY <1>0, <1>1, <1>10 DEF Starting, Back
  <2>. QED  BY <1>0, <1>1, <1>6, <1>8, <1>10, <2>1 DEF RefsMatchHolders
<1>. QED  BY <1>9, <1>10
\* The six ways into SerialTryToCompleteCurrent.
Ends(c) == \/ CompleteRead(c) \/ ReadTimeout(c)
           \/ IntervalAfterEnd(c) \/ IntervalKill(c)
           \/ KillCurrent(c)
           \/ \E i \in Irps : CancelCurrentIrp(c, i)

\* Whoever ends a read does so through SerialTryToCompleteCurrent.
LEMMA EndingStep ==
    ASSUME IInv, NEW c \in Contexts, Ends(c)
    PROVE  /\ \E h \in RefTypes, s \in Statuses, sync \in BOOLEAN :
                  TryToCompleteCurrent(c, h, s, sync)
           /\ current \in Irps
           /\ \A d \in Contexts : ~Starting(d)
           /\ armed' = [x \in Sources |-> FALSE]
           /\ TypeOK'
           /\ LengthInv'
           /\ RefsMatchHolders'
<1>. DEFINE Try(h, s, sync) == TryToCompleteCurrent(c, h, s, sync)
            Goal == /\ \E h \in RefTypes, s \in Statuses, sync \in BOOLEAN :
                           Try(h, s, sync)
                    /\ current \in Irps
                    /\ \A d \in Contexts : ~Starting(d)
                    /\ armed' = [x \in Sources |-> FALSE]
                    /\ TypeOK'
                    /\ LengthInv'
                    /\ RefsMatchHolders'
<1>. SUFFICES Goal
  OBVIOUS
<1>1. ASSUME NEW h \in RefTypes, NEW s \in Statuses, NEW sync \in BOOLEAN,
             Try(h, s, sync),
             h \in Sources => Handling(c, h),
             \A x \in Sources : Handling(c, x) => x = h,
             h = "cancel" => current # None /\ routine[current] = "current",
             ~sync => h = "isr",
             lastCount' \in ReadComplete..MaxLen,
             lock' \in Contexts \cup {None},
             cancel' \in [Irps -> BOOLEAN]
      PROVE  Goal
  <2>1. /\ current \in Irps
        /\ \A d \in Contexts : ~Starting(d)
        /\ armed' = [x \in Sources |-> FALSE]
    BY <1>1, EndingFacts
  <2>2. TypeOK'
    BY <1>1, <2>1, EndingType
  <2>3. LengthInv'
    BY <1>1, <2>1, EndingLength
  <2>4. RefsMatchHolders'
    BY <1>1, <2>1, EndingRefs
  <2>. QED  BY <1>1, <2>1, <2>2, <2>3, <2>4
<1>2. /\ lastCount \in ReadComplete..MaxLen
      /\ lock \in Contexts \cup {None}
      /\ cancel \in [Irps -> BOOLEAN]
      /\ \A m \in {ReadCancelled, ReadTotal, ReadComplete} :
             m \in ReadComplete..MaxLen
  BY SerialReadAssumption
  DEF IInv, TypeOK, ReadCancelled, ReadTotal, ReadComplete
<1>. USE DEF Sources, RefTypes, Timers, Statuses, Handling
<1>. HIDE DEF Try, Goal
<1>3. CASE CompleteRead(c)
  <2>1. Try("isr", "success", FALSE)
    BY <1>3 DEF CompleteRead, Try
  <2>. QED  BY <1>1, <1>2, <1>3, <2>1 DEF CompleteRead, Runs, AtPlace
<1>4. CASE ReadTimeout(c)
  <2>1. Try("total", "timeout", TRUE)
    BY <1>4 DEF ReadTimeout, Try
  <2>. QED  BY <1>1, <1>2, <1>4, <2>1 DEF ReadTimeout, Runs, AtPlace
<1>5. CASE IntervalAfterEnd(c)
  <2>1. lastCount \in {ReadCancelled, ReadTotal, ReadComplete}
    BY <1>2, <1>5
    DEF IntervalAfterEnd, ReadCancelled, ReadTotal, ReadComplete
  <2>2. \E s \in Statuses : Try("interval", s, TRUE)
    BY <1>5, <2>1
    DEF IntervalAfterEnd, Try, ReadCancelled, ReadTotal, ReadComplete
  <2>. QED  BY <1>1, <1>2, <1>5, <2>2 DEF IntervalAfterEnd, Runs, AtPlace
<1>6. CASE IntervalKill(c)
  <2>1. Try("interval", "timeout", TRUE)
    BY <1>6 DEF IntervalKill, Try
  <2>2. Handling(c, "interval")
    BY <1>6 DEF IntervalKill, AtPlace, IInv, ContextInv
  <2>. QED  BY <1>1, <1>2, <1>6, <2>1, <2>2 DEF IntervalKill
<1>7. ASSUME CancelCurrentRead(c), current # None,
             pc[c] \notin {"dpc", "expired"},
             routine[current] = "current"
      PROVE  Goal
  <2>1. Try("cancel", "cancelled", TRUE)
    BY <1>7 DEF CancelCurrentRead, Try
  <2>2. cancel' \in [Irps -> BOOLEAN]
    BY <1>2, <1>7 DEF CancelCurrentRead
  <2>. QED  BY <1>1, <1>2, <1>7, <2>1, <2>2 DEF CancelCurrentRead
<1>8. CASE KillCurrent(c)
  <2>1. current \in Irps /\ routine[current] \in {"queued", "current"}
    BY <1>8 DEF KillCurrent, IInv, TypeOK
  <2>2. routine[current] = "current"
    BY <2>1 DEF IInv, QueueInv
  <2>. QED  BY <1>7, <1>8, <2>1, <2>2 DEF KillCurrent, AtPlace
<1>9. CASE \E i \in Irps : CancelCurrentIrp(c, i)
  <2>1. PICK i \in Irps : CancelCurrentIrp(c, i)
    BY <1>9
  <2>2. i = current /\ routine[current] = "current"
    BY <2>1 DEF CancelCurrentIrp, IInv, QueueInv
  <2>. QED  BY <1>7, <2>1, <2>2, SerialReadAssumption
            DEF CancelCurrentIrp, AtPlace
<1>. QED  BY <1>3, <1>4, <1>5, <1>6, <1>8, <1>9 DEF Ends

\* Withdrawing the request at position n of the queue.
LEMMA WithdrawFacts ==
    ASSUME IInv, NEW n \in 1..Len(queue), CancelQueued(n)
    PROVE  /\ queue[n] \in Irps
           /\ queue[n] # current
           /\ queue' \in Seq(Irps)
           /\ Len(queue') = Len(queue) - 1
           /\ \A m \in 1..Len(queue) - 1 :
                  queue'[m] = IF m < n THEN queue[m] ELSE queue[m + 1]
<1>1. queue \in Seq(Irps)
  BY DEF IInv, TypeOK
<1>2. queue[n] \in Irps
  BY <1>1, LenProperties
<1>3. queue[n] # current
  BY <1>2 DEF IInv, QueueInv
<1>. QED  BY <1>1, <1>2, <1>3, RemoveAtShifts DEF CancelQueued

\* Giving a read to the ISR: before, nobody held it; after, exactly the ISR,
\* the cancel routine and the chosen timers do, and nobody is starting it.
LEMMA SwitchFacts ==
    ASSUME IInv, NEW c \in Contexts, SwitchToUser(c)
    PROVE  /\ current \in Irps
           /\ \A s \in Sources : ~Holds(s)
           /\ \A d \in Contexts : ~Starting(d)'
           /\ \E T \in SUBSET Timers :
                  /\ armed' = [x \in Sources |-> x \in {"isr"} \cup T]
                  /\ refs' = [refs EXCEPT
                              ![current] = {"isr", "cancel"} \cup T]
<1>1. Starting(c)
  BY DEF SwitchToUser, SecondCopy, AtPlace, Starting
<1>2. current \in Irps
  BY <1>1 DEF IInv, StarterInv, TypeOK
<1>3. \A s \in Sources : ~Holds(s) /\ ~armed[s]
  BY <1>1 DEF IInv, RefsMatchHolders, Holds
<1>4. \A d \in Contexts : ~Starting(d)'
  BY <1>1 DEF SwitchToUser, Go, Back, Starting, IInv, StarterInv, TypeOK
<1>5. PICK T \in SUBSET Timers : T = TimersFor(timeouts[c])
  BY TimersForType
<1>6. armed' = [x \in Sources |-> x \in {"isr"} \cup T]
  BY <1>3, <1>5 DEF SwitchToUser
<1>7. refs' = [refs EXCEPT ![current] = {"isr", "cancel"} \cup T]
  BY <1>5 DEF SwitchToUser
<1>. QED  BY <1>2, <1>3, <1>4, <1>6, <1>7

\* The second copy takes no more than there is and no more than is wanted.
LEMMA CopyFacts ==
    ASSUME IInv, NEW c \in Contexts, SecondCopy(c)
    PROVE  /\ Starting(c) /\ current \in Irps
           /\ timeouts[c] \in TimeoutSettings
           /\ copied[c] <= count
           /\ info[current] + needed = length[current]
           /\ Wanted(c) \in 1..needed
           /\ Got(c) \in 0..Wanted(c)
           /\ Got(c) <= count - copied[c]
           /\ CrunchDownToOne(timeouts[c]) => info[current] = 0
<1>1. Starting(c) /\ pc[c] = "copied"
  BY DEF SecondCopy, AtPlace, Starting
<1>2. current \in Irps
  BY <1>1 DEF IInv, StarterInv, TypeOK
<1>3. /\ timeouts[c] \in TimeoutSettings
      /\ info[current] + needed = length[current]
      /\ copied[c] <= count
  BY <1>1 DEF IInv, LengthInv
<1>4. needed \in 1..MaxLen
  BY SerialReadAssumption DEF SecondCopy, Satisfied, IInv, TypeOK
<1>5. CrunchDownToOne(timeouts[c]) => info[current] = 0
  <2>1. ASSUME CrunchDownToOne(timeouts[c]) PROVE Os2ssReturn(timeouts[c])
    BY <2>1 DEF CrunchDownToOne, Os2ssReturn, ReturnWithWhatsPresent
  <2>. QED  BY <2>1 DEF SecondCopy, Satisfied
<1>6. Wanted(c) \in 1..needed
  BY <1>4, SerialReadAssumption DEF Wanted
<1>7. count - copied[c] \in Nat
  BY <1>3, SerialReadAssumption DEF IInv, TypeOK
<1>8. Got(c) \in 0..Wanted(c) /\ Got(c) <= count - copied[c]
  BY <1>4, <1>6, <1>7, SerialReadAssumption DEF Got, Lesser
<1>. QED  BY <1>1, <1>2, <1>3, <1>5, <1>6, <1>8


\* Withdrawing a queued request keeps the queue consistent, the counts and
\* the types.
LEMMA WithdrawStep ==
    ASSUME IInv, NEW n \in 1..Len(queue), CancelQueued(n)
    PROVE  /\ QueueInv'
           /\ UNCHANGED <<pc, copied, timeouts>> => LengthInv'
           /\ UNCHANGED contextVars => TypeOK'
<1>. DEFINE i == queue[n]
<1>0. /\ routine \in [Irps -> {"none", "queued", "current"}]
      /\ completions \in [Irps -> Nat]
      /\ queue \in Seq(Irps)
      /\ current \in Irps \cup {None}
      /\ info \in [Irps -> 0..MaxLen]
      /\ cancel \in [Irps -> BOOLEAN]
      /\ status \in [Irps -> Statuses]
  BY DEF IInv, TypeOK
<1>1. /\ i \in Irps /\ i # current
      /\ queue' \in Seq(Irps)
      /\ Len(queue') = Len(queue) - 1
      /\ \A m \in 1..Len(queue) - 1 :
             queue'[m] = IF m < n THEN queue[m] ELSE queue[m + 1]
  BY WithdrawFacts
<1>2. /\ routine' = [routine EXCEPT ![i] = "none"]
      /\ completions' = [completions EXCEPT ![i] = @ + 1]
      /\ info' = [info EXCEPT ![i] = 0]
      /\ cancel' = [cancel EXCEPT ![i] = TRUE]
      /\ status' = [status EXCEPT ![i] = "cancelled"]
      /\ UNCHANGED <<refs, length, current, bufferVars, sourceVars>>
  BY DEF CancelQueued, Refuse, Complete
<1>3. /\ Len(queue) \in Nat
      /\ routine[i] = "queued" /\ completions[i] = 0 /\ current # None
  BY <1>0, <1>1, LenProperties, EmptySeq DEF IInv, QueueInv
<1>. HIDE DEF i
<1>4. \A m \in 1..Len(queue') : \E k \in 1..Len(queue) :
          queue'[m] = queue[k] /\ k # n /\ (k = IF m < n THEN m ELSE m + 1)
  BY <1>1, <1>3
<1>5. \A k \in 1..Len(queue) : k # n =>
          \E m \in 1..Len(queue') : queue'[m] = queue[k]
  <2>. SUFFICES ASSUME NEW k \in 1..Len(queue), k # n
                PROVE  \E m \in 1..Len(queue') : queue'[m] = queue[k]
    OBVIOUS
  <2>1. CASE k < n
    BY <2>1, <1>1, <1>3
  <2>2. CASE k > n
    <3>1. k - 1 \in 1..Len(queue') /\ ~(k - 1 < n) /\ (k - 1) + 1 = k
      BY <2>2, <1>1, <1>3
    <3>. QED  BY <3>1, <1>1
  <2>. QED  BY <2>1, <2>2, <1>3
<1>6. QueueInv'
  <2>1. \A m, k \in 1..Len(queue') : queue'[m] = queue'[k] => m = k
    BY <1>1, <1>3, <1>4 DEF IInv, QueueInv
  <2>2. \A m \in 1..Len(queue') : routine'[queue'[m]] = "queued"
    <3>. SUFFICES ASSUME NEW m \in 1..Len(queue')
                  PROVE  routine'[queue'[m]] = "queued"
      OBVIOUS
    <3>1. PICK k \in 1..Len(queue) : queue'[m] = queue[k] /\ k # n
      BY <1>4
    <3>2. queue[k] # i /\ queue[k] \in Irps /\ routine[queue[k]] = "queued"
      BY <1>0, <3>1, LenProperties DEF IInv, QueueInv, i
    <3>. QED  BY <1>0, <1>2, <3>1, <3>2
  <2>3. \A j \in Irps : routine'[j] = "queued" =>
            /\ j # current'
            /\ completions'[j] = 0
            /\ \E m \in 1..Len(queue') : queue'[m] = j
    <3>. SUFFICES ASSUME NEW j \in Irps, routine'[j] = "queued"
                  PROVE  /\ j # current'
                         /\ completions'[j] = 0
                         /\ \E m \in 1..Len(queue') : queue'[m] = j
      OBVIOUS
    <3>1. j # i /\ routine[j] = "queued"
      BY <1>0, <1>1, <1>2
    <3>2. PICK k \in 1..Len(queue) : queue[k] = j
      BY <3>1 DEF IInv, QueueInv
    <3>3. \E m \in 1..Len(queue') : queue'[m] = j
      BY <3>1, <3>2, <1>5 DEF i
    <3>. QED  BY <1>0, <1>2, <3>1, <3>3 DEF IInv, QueueInv
  <2>. i \in Irps /\ i # current
    BY <1>1
  <2>4. \A j \in Irps : routine'[j] = "current" => j = current'
    BY <1>0, <1>2 DEF IInv, QueueInv
  <2>7. \A j \in Irps : j # current' => refs'[j] = {}
    BY <1>2 DEF IInv, QueueInv
  <2>6. \A j \in Irps : completions'[j] \in {0, 1}
    BY <1>0, <1>2, <1>3 DEF IInv, QueueInv
  <2>5. current' # None /\ completions'[current'] = 0
    BY <1>0, <1>2, <1>3 DEF IInv, QueueInv
  <2>. QED  BY <2>1, <2>2, <2>3, <2>4, <2>5, <2>6, <2>7, Zenon
     DEF QueueInv
<1>7. ASSUME UNCHANGED <<pc, copied, timeouts>>
      PROVE  LengthInv'
  <2>1. \A j \in Irps : Fresh(j)' \/ routine'[j] = "queued" => info'[j] = 0
    <3>. SUFFICES ASSUME NEW j \in Irps, Fresh(j)' \/ routine'[j] = "queued",
                         j # i
                  PROVE  info[j] = 0
      BY <1>0, <1>1, <1>2
    <3>1. CASE routine'[j] = "queued"
      BY <1>0, <1>2, <3>1 DEF IInv, LengthInv
    <3>2. CASE Fresh(j)'
      <4>1. j # current /\ completions[j] = 0
        BY <3>2, <1>0, <1>1, <1>2 DEF Fresh
      <4>2. \A m \in 1..Len(queue') : queue'[m] # j
        BY <3>2, <1>1, RangeEntries DEF Fresh
      <4>3. \A k \in 1..Len(queue) : queue[k] # j
        BY <4>2, <1>5 DEF i
      <4>4. Fresh(j)
        BY <1>0, <4>1, <4>3, RangeEntries DEF Fresh
      <4>. QED  BY <4>4 DEF IInv, LengthInv
    <3>. QED  BY <3>1, <3>2
  <2>2. \A c \in Contexts : pc[c] \in {"start", "copied"} =>
            info'[current] = info[current]
    BY <1>0, <1>1, <1>2
  <2>. QED
    BY <1>2, <1>7, <2>1, <2>2, <1>1, <1>0, SerialReadAssumption
    DEF IInv, LengthInv, IntervalMarkCurrent, bufferVars, sourceVars
<1>8. ASSUME UNCHANGED contextVars PROVE TypeOK'
  <2>1. /\ routine' \in [Irps -> {"none", "queued", "current"}]
        /\ cancel' \in [Irps -> BOOLEAN]
    BY <1>0, <1>1, <1>2
  <2>2. completions' \in [Irps -> Nat] /\ info' \in [Irps -> 0..MaxLen]
    <3>1. 0 \in 0..MaxLen /\ completions[i] + 1 \in Nat
      BY <1>0, <1>1, SerialReadAssumption
    <3>. QED  BY <3>1, <1>0, <1>2
  <2>3. status' \in [Irps -> Statuses]
    BY <1>0, <1>1, <1>2 DEF Statuses
  <2>. QED
    BY <1>1, <1>2, <1>8, <2>1, <2>2, <2>3
    DEF IInv, TypeOK, bufferVars, sourceVars, contextVars
<1>. QED  BY <1>6, <1>7, <1>8

\* A request that is fresh after another was queued was fresh before.
LEMMA AppendFresh ==
    ASSUME queue \in Seq(Irps), NEW i \in Irps,
           queue' = Append(queue, i),
           UNCHANGED <<completions, current>>
    PROVE  \A j \in Irps : Fresh(j)' => Fresh(j)
<1>1. /\ queue' \in Seq(Irps)
      /\ Len(queue') = Len(queue) + 1
      /\ \A n \in 1..Len(queue) : queue'[n] = queue[n]
  BY AppendProperties
<1>2. Len(queue) \in Nat
  BY LenProperties
<1>3. \A j \in Irps : (\E n \in 1..Len(queue) : queue[n] = j)
                      => \E n \in 1..Len(queue') : queue'[n] = j
  BY <1>1, <1>2
<1>4. \A j \in Irps : j \in Range(queue) => j \in Range(queue')
  BY <1>1, <1>3, RangeEntries
<1>. QED  BY <1>4 DEF Fresh

\* The head of a queue that is not empty is queued and nothing else.
LEMMA HeadFacts ==
    ASSUME IInv, queue # <<>>
    PROVE  /\ Head(queue) \in Irps
           /\ Head(queue) # current
           /\ routine[Head(queue)] = "queued"
           /\ completions[Head(queue)] = 0
           /\ Tail(queue) \in Seq(Irps)
           /\ \A j \in Irps : j # Head(queue) /\ j \notin Range(Tail(queue))
                              => j \notin Range(queue)
<1>1. queue \in Seq(Irps)
  BY DEF IInv, TypeOK
<1>2. Len(queue) \in Nat /\ Len(queue) >= 1
  BY <1>1, LenProperties, EmptySeq
<1>3. 1 \in 1..Len(queue) /\ Head(queue) = queue[1] /\ queue[1] \in Irps
  BY <1>1, <1>2, HeadTailProperties, LenProperties
<1>4. /\ routine[queue[1]] = "queued"
      /\ queue[1] # current /\ completions[queue[1]] = 0
  BY <1>3 DEF IInv, QueueInv
<1>5. /\ Tail(queue) \in Seq(Irps)
      /\ Len(Tail(queue)) = Len(queue) - 1
      /\ \A n \in 1..Len(queue) - 1 : Tail(queue)[n] = queue[n + 1]
  BY <1>1, HeadTailProperties
<1>6. ASSUME NEW j \in Irps, j # queue[1],
             NEW n \in 1..Len(queue), queue[n] = j
      PROVE  \E m \in 1..Len(Tail(queue)) : Tail(queue)[m] = j
  <2>1. n - 1 \in 1..Len(queue) - 1 /\ (n - 1) + 1 = n
    BY <1>2, <1>6
  <2>. QED  BY <2>1, <1>5, <1>6
<1>. QED  BY <1>1, <1>3, <1>4, <1>5, <1>6, RangeEntries

\* SerialGetNextIrp runs for a current read that nobody else can reach.
LEMMA FinishFacts ==
    ASSUME IInv, NEW c \in Contexts, FinishCurrent(c)
    PROVE  /\ current \in Irps
           /\ ~armed["isr"]
           /\ \A d \in Contexts : Starting(d) => d = c
<1>1. Starting(c)
  BY DEF FinishCurrent, AtPlace, Starting
<1>2. current \in Irps /\ \A d \in Contexts : Starting(d) => d = c
  BY <1>1 DEF IInv, StarterInv, TypeOK
<1>3. ~armed["isr"]
  BY <1>1 DEF IInv, RefsMatchHolders, Holds, Sources
<1>. QED  BY <1>2, <1>3

\* Completing the current request makes no other request fresh.
LEMMA FinishFresh ==
    ASSUME IInv, NEW c \in Contexts, FinishCurrent(c),
           \A j \in Irps : j # current' /\ j \notin Range(queue')
                           => j \notin Range(queue)
    PROVE  \A j \in Irps : Fresh(j)' => Fresh(j)
<1>1. /\ completions \in [Irps -> Nat] /\ current \in Irps
      /\ completions' = [completions EXCEPT ![current] = @ + 1]
  BY FinishFacts DEF IInv, TypeOK, FinishCurrent, Complete
<1>2. completions'[current] # 0
  BY <1>1
<1>3. \A j \in Irps : j # current => completions'[j] = completions[j]
  BY <1>1
<1>. QED  BY <1>2, <1>3 DEF Fresh

\* After the second copy the counters are within their bounds.
LEMMA CopyTypes ==
    ASSUME IInv, NEW c \in Contexts, SecondCopy(c)
    PROVE  /\ current \in Irps
           /\ needed' \in 0..MaxLen /\ count' \in 0..BufferSize
           /\ info' \in [Irps -> 0..MaxLen] /\ length' \in [Irps -> 0..MaxLen]
           /\ copied' \in [Contexts -> 0..MaxLen]
           /\ info[current] + Got(c) \in 0..MaxLen
<1>1. /\ current \in Irps /\ copied[c] <= count
      /\ info[current] + needed = length[current]
      /\ Wanted(c) \in 1..needed
      /\ Got(c) \in 0..Wanted(c) /\ Got(c) <= count - copied[c]
  BY CopyFacts
<1>2. /\ MaxLen \in Nat \ {0} /\ BufferSize \in Nat \ {0}
      /\ needed \in 0..MaxLen /\ count \in 0..BufferSize
      /\ info \in [Irps -> 0..MaxLen] /\ length \in [Irps -> 0..MaxLen]
      /\ copied \in [Contexts -> 0..MaxLen]
  BY SerialReadAssumption DEF IInv, TypeOK
<1>3. needed' \in 0..MaxLen
  BY <1>1, <1>2 DEF SecondCopy
<1>4. count' \in 0..BufferSize
  BY <1>1, <1>2 DEF SecondCopy
<1>5. info[current] + Got(c) \in 0..MaxLen
  BY <1>1, <1>2
<1>6. info' \in [Irps -> 0..MaxLen]
  BY <1>1, <1>2, <1>5 DEF SecondCopy
<1>7. length' \in [Irps -> 0..MaxLen]
  BY <1>1, <1>2 DEF SecondCopy
<1>8. copied' \in [Contexts -> 0..MaxLen]
  BY <1>2 DEF SecondCopy
<1>. QED  BY <1>1, <1>3, <1>4, <1>5, <1>6, <1>7, <1>8

-----------------------------------------------------------------------------
(* The conjuncts of IInv, one lemma each. *)

\* No step leaves a cancelled request with a cancel routine nobody called.
LEMMA CancelNotMissedStep == IInv /\ [Next]_vars => CancelNotMissed'
<1>. SUFFICES ASSUME IInv, [Next]_vars PROVE CancelNotMissed'
  OBVIOUS
<1>. USE
     DEF CancelNotMissed, irpVars, queueVars, bufferVars, sourceVars,
         contextVars
<1>0. /\ cancel \in [Irps -> BOOLEAN]
      /\ routine \in [Irps -> {"none", "queued", "current"}]
      /\ queue \in Seq(Irps)
      /\ current \in Irps \cup {None}
  BY DEF IInv, TypeOK
<1>1. CASE UNCHANGED vars
  BY <1>1 DEF IInv, vars
<1>2. ASSUME NEW i \in Irps, RefuseAtDispatch(i) PROVE CancelNotMissed'
  BY <1>0, <1>2 DEF IInv, RefuseAtDispatch, Refuse, Complete
<1>3. ASSUME NEW i \in Irps, QueueAtDispatch(i) PROVE CancelNotMissed'
  BY <1>0, <1>3 DEF IInv, QueueAtDispatch, Arrive
<1>4. ASSUME NEW i \in Irps, CancelledAtDispatch(i) PROVE CancelNotMissed'
  BY <1>0, <1>4 DEF IInv, CancelledAtDispatch, Arrive, Refuse, Complete
<1>5. ASSUME NEW i \in Irps, CancelQueuedIrp(i) PROVE CancelNotMissed'
  BY <1>0, <1>5 DEF IInv, CancelQueuedIrp, CancelQueued, Refuse, Complete
<1>6. ASSUME NEW i \in Irps, FlagCancel(i) PROVE CancelNotMissed'
  BY <1>0, <1>6 DEF IInv, FlagCancel
<1>7. ASSUME NEW c \in Threads, NEW i \in Irps, StartAtDispatch(c, i)
      PROVE CancelNotMissed'
  BY <1>0, <1>7 DEF IInv, StartAtDispatch, Arrive, AtPlace, Go
<1>8. ASSUME NEW c \in Threads, NEW i \in Irps, CancelCurrentIrp(c, i)
      PROVE CancelNotMissed'
  BY <1>0, <1>8
  DEF IInv, CancelCurrentIrp, CancelCurrentRead, TryToCompleteCurrent,
      ReferencesLeft, CancelTimers, AtPlace, Go, Back
<1>9. ASSUME NEW c \in Threads, KillAll(c) PROVE CancelNotMissed'
  BY <1>0, <1>9 DEF IInv, KillAll, AtPlace, Go
<1>10. ASSUME NEW c \in Contexts, ResizeBuffer(c) PROVE CancelNotMissed'
  BY <1>0, <1>10 DEF IInv, ResizeBuffer, AtPlace, Go
<1>11. ASSUME NEW c \in Contexts, StartCopy(c) PROVE CancelNotMissed'
  BY <1>0, <1>11 DEF IInv, StartCopy, AtPlace, Go, CancelTimers, Lesser
<1>12. ASSUME NEW c \in Contexts, FinishAtOnce(c) PROVE CancelNotMissed'
  BY <1>0, <1>12 DEF IInv, FinishAtOnce, AtPlace, Go, Satisfied
<1>13. ASSUME NEW c \in Contexts, FinishCancelled(c) PROVE CancelNotMissed'
  BY <1>0, <1>13 DEF IInv, FinishCancelled, AtPlace, Go, Satisfied
<1>14. ASSUME NEW c \in Contexts, FinishAtSwitch(c) PROVE CancelNotMissed'
  BY <1>0, <1>14
  DEF IInv, FinishAtSwitch, SecondCopy, Wanted, Got, AtPlace, Go,
      Satisfied, Lesser
<1>15. ASSUME NEW c \in Contexts, SwitchToUser(c) PROVE CancelNotMissed'
  BY <1>0, <1>15
  DEF IInv, SwitchToUser, SecondCopy, Wanted, Got, AtPlace, Go, Back,
      Satisfied, Lesser, SetTimers
<1>16. ASSUME NEW c \in Contexts, GetNextIrp(c) PROVE CancelNotMissed'
  BY <1>0, <1>16 DEF IInv, GetNextIrp, FinishCurrent, AtPlace, Go, Complete
<1>17. ASSUME NEW c \in Contexts, GetNoIrp(c) PROVE CancelNotMissed'
  BY <1>0, <1>17 DEF IInv, GetNoIrp, FinishCurrent, AtPlace, Go, Back, Complete
<1>18. ASSUME NEW c \in Contexts, CompleteRead(c) PROVE CancelNotMissed'
  BY <1>0, <1>18
  DEF IInv, CompleteRead, Runs, TryToCompleteCurrent, ReferencesLeft,
      CancelTimers, AtPlace, Go, Back
<1>19. ASSUME NEW c \in Contexts, ReadTimeout(c) PROVE CancelNotMissed'
  BY <1>0, <1>19
  DEF IInv, ReadTimeout, Runs, TryToCompleteCurrent, ReferencesLeft,
      CancelTimers, AtPlace, Go, Back
<1>20. ASSUME NEW c \in Contexts, IntervalAfterEnd(c) PROVE CancelNotMissed'
  BY <1>0, <1>20
  DEF IInv, IntervalAfterEnd, Runs, TryToCompleteCurrent, ReferencesLeft,
      CancelTimers, AtPlace, Go, Back
<1>21. ASSUME NEW c \in Contexts, IntervalRearm(c) PROVE CancelNotMissed'
  BY <1>0, <1>21 DEF IInv, IntervalRearm, Runs, SetTimers, AtPlace, Go
<1>22. ASSUME NEW c \in Contexts, IntervalExpired(c) PROVE CancelNotMissed'
  BY <1>0, <1>22 DEF IInv, IntervalExpired, Runs, AtPlace, Go
<1>23. ASSUME NEW c \in Contexts, IntervalKill(c) PROVE CancelNotMissed'
  BY <1>0, <1>23
  DEF IInv, IntervalKill, TryToCompleteCurrent, ReferencesLeft,
      CancelTimers, AtPlace, Go, Back
<1>24. ASSUME NEW c \in Contexts, DpcEpilogue(c) PROVE CancelNotMissed'
  BY <1>0, <1>24 DEF IInv, DpcEpilogue, AtPlace, Go
<1>25. ASSUME NEW c \in Contexts, KillQueued(c) PROVE CancelNotMissed'
  BY <1>0, <1>25 DEF IInv, KillQueued, AtPlace, CancelQueued, Refuse, Complete
<1>26. ASSUME NEW c \in Contexts, KillCurrent(c) PROVE CancelNotMissed'
  BY <1>0, <1>26
  DEF IInv, KillCurrent, AtPlace, CancelCurrentRead, TryToCompleteCurrent,
      ReferencesLeft, CancelTimers, Go, Back
<1>27. ASSUME NEW c \in Contexts, KillDone(c) PROVE CancelNotMissed'
  BY <1>0, <1>27, SerialReadAssumption DEF IInv, KillDone
<1>28. ASSUME NEW t \in Timers, Expire(t) PROVE CancelNotMissed'
  BY <1>0, <1>28 DEF IInv, Expire
<1>29. ASSUME NEW c \in Cpus, NEW d \in Dpcs, Deliver(c, d)
      PROVE CancelNotMissed'
  BY <1>0, <1>29 DEF IInv, Deliver, AtPlace, Go
<1>30. ASSUME PutCharInUserBuffer PROVE CancelNotMissed'
  BY <1>0, <1>30 DEF IInv, PutCharInUserBuffer, InsertQueueDpc
<1>31. ASSUME PutCharInInterruptBuffer PROVE CancelNotMissed'
  BY <1>0, <1>31 DEF IInv, PutCharInInterruptBuffer
<1>32. ASSUME ReportError PROVE CancelNotMissed'
  BY <1>0, <1>32 DEF IInv, ReportError, InsertQueueDpc
<1>33. ASSUME PurgeInterruptBuffer PROVE CancelNotMissed'
  BY <1>0, <1>33 DEF IInv, PurgeInterruptBuffer, AtPlace
<1>. QED
  BY <1>1, <1>2, <1>3, <1>4, <1>5, <1>6, <1>7, <1>8, <1>9, <1>10, <1>11, <1>12,
     <1>13, <1>14, <1>15, <1>16, <1>17, <1>18, <1>19, <1>20, <1>21, <1>22,
     <1>23, <1>24, <1>25, <1>26, <1>27, <1>28, <1>29, <1>30, <1>31, <1>32,
     <1>33
  DEF Next, Work, StartRead, IntervalReadTimeout, Dispatch

\* Every step leaves each processor and thread where its job allows, and the
\* lock with the interval timer alone.
LEMMA ContextInvStep == IInv /\ [Next]_vars => ContextInv'
<1>. SUFFICES ASSUME IInv, [Next]_vars PROVE ContextInv'
  OBVIOUS
<1>. USE SerialReadAssumption
     DEF ContextInv, Contexts, Sources, Timers, Dpcs, contextVars
<1>0. /\ pc \in [Contexts -> Places]
      /\ job \in [Contexts -> Dpcs \cup {None}]
      /\ lock \in Contexts \cup {None}
  BY DEF IInv, TypeOK
<1>1. CASE UNCHANGED vars
  BY <1>1 DEF IInv, vars
<1>2. ASSUME NEW i \in Irps, RefuseAtDispatch(i) PROVE ContextInv'
  BY <1>0, <1>2 DEF IInv, RefuseAtDispatch, Refuse, Complete
<1>3. ASSUME NEW i \in Irps, QueueAtDispatch(i) PROVE ContextInv'
  BY <1>0, <1>3 DEF IInv, QueueAtDispatch, Arrive
<1>4. ASSUME NEW i \in Irps, CancelledAtDispatch(i) PROVE ContextInv'
  BY <1>0, <1>4 DEF IInv, CancelledAtDispatch, Arrive, Refuse, Complete
<1>5. ASSUME NEW i \in Irps, CancelQueuedIrp(i) PROVE ContextInv'
  BY <1>0, <1>5 DEF IInv, CancelQueuedIrp, CancelQueued, Refuse, Complete
<1>6. ASSUME NEW i \in Irps, FlagCancel(i) PROVE ContextInv'
  BY <1>0, <1>6 DEF IInv, FlagCancel
<1>7. ASSUME NEW c \in Threads, NEW i \in Irps, StartAtDispatch(c, i)
      PROVE ContextInv'
  BY <1>0, <1>7 DEF IInv, StartAtDispatch, Arrive, AtPlace, Go
<1>8. ASSUME NEW c \in Threads, NEW i \in Irps, CancelCurrentIrp(c, i)
      PROVE ContextInv'
  BY <1>0, <1>8
  DEF IInv, CancelCurrentIrp, CancelCurrentRead, TryToCompleteCurrent,
      ReferencesLeft, CancelTimers, AtPlace, Go, Back
<1>9. ASSUME NEW c \in Threads, KillAll(c) PROVE ContextInv'
  BY <1>0, <1>9 DEF IInv, KillAll, AtPlace, Go
<1>10. ASSUME NEW c \in Contexts, ResizeBuffer(c) PROVE ContextInv'
  BY <1>0, <1>10 DEF IInv, ResizeBuffer, AtPlace, Go
<1>11. ASSUME NEW c \in Contexts, StartCopy(c) PROVE ContextInv'
  BY <1>0, <1>11 DEF IInv, StartCopy, AtPlace, Go, CancelTimers, Lesser
<1>12. ASSUME NEW c \in Contexts, FinishAtOnce(c) PROVE ContextInv'
  BY <1>0, <1>12 DEF IInv, FinishAtOnce, AtPlace, Go, Satisfied
<1>13. ASSUME NEW c \in Contexts, FinishCancelled(c) PROVE ContextInv'
  BY <1>0, <1>13 DEF IInv, FinishCancelled, AtPlace, Go, Satisfied
<1>14. ASSUME NEW c \in Contexts, FinishAtSwitch(c) PROVE ContextInv'
  BY <1>0, <1>14
  DEF IInv, FinishAtSwitch, SecondCopy, Wanted, Got, AtPlace, Go,
      Satisfied, Lesser
<1>15. ASSUME NEW c \in Contexts, SwitchToUser(c) PROVE ContextInv'
  BY <1>0, <1>15
  DEF IInv, SwitchToUser, SecondCopy, Wanted, Got, AtPlace, Go, Back,
      Satisfied, Lesser, SetTimers
<1>16. ASSUME NEW c \in Contexts, GetNextIrp(c) PROVE ContextInv'
  BY <1>0, <1>16 DEF IInv, GetNextIrp, FinishCurrent, AtPlace, Go, Complete
<1>17. ASSUME NEW c \in Contexts, GetNoIrp(c) PROVE ContextInv'
  BY <1>0, <1>17 DEF IInv, GetNoIrp, FinishCurrent, AtPlace, Go, Back, Complete
<1>18. ASSUME NEW c \in Contexts, CompleteRead(c) PROVE ContextInv'
  BY <1>0, <1>18
  DEF IInv, CompleteRead, Runs, TryToCompleteCurrent, ReferencesLeft,
      CancelTimers, AtPlace, Go, Back
<1>19. ASSUME NEW c \in Contexts, ReadTimeout(c) PROVE ContextInv'
  BY <1>0, <1>19
  DEF IInv, ReadTimeout, Runs, TryToCompleteCurrent, ReferencesLeft,
      CancelTimers, AtPlace, Go, Back
<1>20. ASSUME NEW c \in Contexts, IntervalAfterEnd(c) PROVE ContextInv'
  BY <1>0, <1>20
  DEF IInv, IntervalAfterEnd, Runs, TryToCompleteCurrent, ReferencesLeft,
      CancelTimers, AtPlace, Go, Back
<1>21. ASSUME NEW c \in Contexts, IntervalRearm(c) PROVE ContextInv'
  BY <1>0, <1>21 DEF IInv, IntervalRearm, Runs, SetTimers, AtPlace, Go
<1>22. ASSUME NEW c \in Contexts, IntervalExpired(c) PROVE ContextInv'
  BY <1>0, <1>22 DEF IInv, IntervalExpired, Runs, AtPlace, Go
<1>23. ASSUME NEW c \in Contexts, IntervalKill(c) PROVE ContextInv'
  BY <1>0, <1>23
  DEF IInv, IntervalKill, TryToCompleteCurrent, ReferencesLeft,
      CancelTimers, AtPlace, Go, Back
<1>24. ASSUME NEW c \in Contexts, DpcEpilogue(c) PROVE ContextInv'
  BY <1>0, <1>24 DEF IInv, DpcEpilogue, AtPlace, Go
<1>25. ASSUME NEW c \in Contexts, KillQueued(c) PROVE ContextInv'
  BY <1>0, <1>25 DEF IInv, KillQueued, AtPlace, CancelQueued, Refuse, Complete
<1>26. ASSUME NEW c \in Contexts, KillCurrent(c) PROVE ContextInv'
  BY <1>0, <1>26
  DEF IInv, KillCurrent, AtPlace, CancelCurrentRead, TryToCompleteCurrent,
      ReferencesLeft, CancelTimers, Go, Back
<1>27. ASSUME NEW c \in Contexts, KillDone(c) PROVE ContextInv'
  BY <1>0, <1>27 DEF IInv, KillDone, AtPlace, Go, Back
<1>28. ASSUME NEW t \in Timers, Expire(t) PROVE ContextInv'
  BY <1>0, <1>28 DEF IInv, Expire
<1>29. ASSUME NEW c \in Cpus, NEW d \in Dpcs, Deliver(c, d) PROVE ContextInv'
  BY <1>0, <1>29 DEF IInv, Deliver, AtPlace, Go
<1>30. ASSUME PutCharInUserBuffer PROVE ContextInv'
  BY <1>0, <1>30 DEF IInv, PutCharInUserBuffer, InsertQueueDpc
<1>31. ASSUME PutCharInInterruptBuffer PROVE ContextInv'
  BY <1>0, <1>31 DEF IInv, PutCharInInterruptBuffer
<1>32. ASSUME ReportError PROVE ContextInv'
  BY <1>0, <1>32 DEF IInv, ReportError, InsertQueueDpc
<1>33. ASSUME PurgeInterruptBuffer PROVE ContextInv'
  BY <1>0, <1>33 DEF IInv, PurgeInterruptBuffer, AtPlace
<1>. QED
  BY <1>1, <1>2, <1>3, <1>4, <1>5, <1>6, <1>7, <1>8, <1>9, <1>10, <1>11, <1>12,
     <1>13, <1>14, <1>15, <1>16, <1>17, <1>18, <1>19, <1>20, <1>21, <1>22,
     <1>23, <1>24, <1>25, <1>26, <1>27, <1>28, <1>29, <1>30, <1>31, <1>32,
     <1>33
  DEF Next, Work, StartRead, IntervalReadTimeout, Dispatch

\* Every step leaves a source with at most one of: armed, queued, handled.
LEMMA SourceInvStep == IInv /\ [Next]_vars => SourceInv'
<1>. SUFFICES ASSUME IInv, [Next]_vars PROVE SourceInv'
  OBVIOUS
<1>. USE SerialReadAssumption
     DEF SourceInv, ContextInv, Handling, Contexts, Sources, Timers, Dpcs,
         sourceVars, contextVars
<1>0. /\ pc \in [Contexts -> Places]
      /\ job \in [Contexts -> Dpcs \cup {None}]
      /\ armed \in [Sources -> BOOLEAN]
      /\ dpcQueued \in [Dpcs -> BOOLEAN]
  BY DEF IInv, TypeOK
<1>1. CASE UNCHANGED vars
  BY <1>1 DEF IInv, vars
<1>2. ASSUME NEW i \in Irps, RefuseAtDispatch(i) PROVE SourceInv'
  BY <1>0, <1>2 DEF IInv, RefuseAtDispatch, Refuse, Complete
<1>3. ASSUME NEW i \in Irps, QueueAtDispatch(i) PROVE SourceInv'
  BY <1>0, <1>3 DEF IInv, QueueAtDispatch, Arrive
<1>4. ASSUME NEW i \in Irps, CancelledAtDispatch(i) PROVE SourceInv'
  BY <1>0, <1>4 DEF IInv, CancelledAtDispatch, Arrive, Refuse, Complete
<1>5. ASSUME NEW i \in Irps, CancelQueuedIrp(i) PROVE SourceInv'
  BY <1>0, <1>5 DEF IInv, CancelQueuedIrp, CancelQueued, Refuse, Complete
<1>6. ASSUME NEW i \in Irps, FlagCancel(i) PROVE SourceInv'
  BY <1>0, <1>6 DEF IInv, FlagCancel
<1>7. ASSUME NEW c \in Threads, NEW i \in Irps, StartAtDispatch(c, i)
      PROVE SourceInv'
  BY <1>0, <1>7 DEF IInv, StartAtDispatch, Arrive, AtPlace, Go
<1>8. ASSUME NEW c \in Threads, NEW i \in Irps, CancelCurrentIrp(c, i)
      PROVE SourceInv'
  BY <1>0, <1>8
  DEF IInv, CancelCurrentIrp, CancelCurrentRead, TryToCompleteCurrent,
      ReferencesLeft, CancelTimers, AtPlace, Go, Back
<1>9. ASSUME NEW c \in Threads, KillAll(c) PROVE SourceInv'
  BY <1>0, <1>9 DEF IInv, KillAll, AtPlace, Go
<1>10. ASSUME NEW c \in Contexts, ResizeBuffer(c) PROVE SourceInv'
  BY <1>0, <1>10 DEF IInv, ResizeBuffer, AtPlace, Go
<1>11. ASSUME NEW c \in Contexts, StartCopy(c) PROVE SourceInv'
  BY <1>0, <1>11 DEF IInv, StartCopy, AtPlace, Go, CancelTimers, Lesser
<1>12. ASSUME NEW c \in Contexts, FinishAtOnce(c) PROVE SourceInv'
  BY <1>0, <1>12 DEF IInv, FinishAtOnce, AtPlace, Go, Satisfied
<1>13. ASSUME NEW c \in Contexts, FinishCancelled(c) PROVE SourceInv'
  BY <1>0, <1>13 DEF IInv, FinishCancelled, AtPlace, Go, Satisfied
<1>14. ASSUME NEW c \in Contexts, FinishAtSwitch(c) PROVE SourceInv'
  BY <1>0, <1>14
  DEF IInv, FinishAtSwitch, SecondCopy, Wanted, Got, AtPlace, Go,
      Satisfied, Lesser
<1>15. ASSUME NEW c \in Contexts, SwitchToUser(c) PROVE SourceInv'
  <2>1. \A s \in Sources : ~dpcQueued[s]
    BY <1>15, SwitchFacts DEF Holds
  <2>2. \A s \in Sources, d \in Contexts : ~Handling(d, s)'
    <3>1. \A s \in Sources, d \in Contexts : ~Handling(d, s)
      BY <1>15, SwitchFacts DEF Holds
    <3>. QED  BY <1>0, <3>1, <1>15 DEF SwitchToUser, SecondCopy, Go, Back
  <2>. QED  BY <2>1, <2>2, <1>15 DEF SwitchToUser, SecondCopy
<1>16. ASSUME NEW c \in Contexts, GetNextIrp(c) PROVE SourceInv'
  BY <1>0, <1>16 DEF IInv, GetNextIrp, FinishCurrent, AtPlace, Go, Complete
<1>17. ASSUME NEW c \in Contexts, GetNoIrp(c) PROVE SourceInv'
  BY <1>0, <1>17 DEF IInv, GetNoIrp, FinishCurrent, AtPlace, Go, Back, Complete
<1>18. ASSUME NEW c \in Contexts, CompleteRead(c) PROVE SourceInv'
  BY <1>0, <1>18
  DEF IInv, CompleteRead, Runs, TryToCompleteCurrent, ReferencesLeft,
      CancelTimers, AtPlace, Go, Back
<1>19. ASSUME NEW c \in Contexts, ReadTimeout(c) PROVE SourceInv'
  BY <1>0, <1>19
  DEF IInv, ReadTimeout, Runs, TryToCompleteCurrent, ReferencesLeft,
      CancelTimers, AtPlace, Go, Back
<1>20. ASSUME NEW c \in Contexts, IntervalAfterEnd(c) PROVE SourceInv'
  BY <1>0, <1>20
  DEF IInv, IntervalAfterEnd, Runs, TryToCompleteCurrent, ReferencesLeft,
      CancelTimers, AtPlace, Go, Back
<1>21. ASSUME NEW c \in Contexts, IntervalRearm(c) PROVE SourceInv'
  BY <1>0, <1>21 DEF IInv, IntervalRearm, Runs, SetTimers, AtPlace, Go
<1>22. ASSUME NEW c \in Contexts, IntervalExpired(c) PROVE SourceInv'
  BY <1>0, <1>22 DEF IInv, IntervalExpired, Runs, AtPlace, Go
<1>23. ASSUME NEW c \in Contexts, IntervalKill(c) PROVE SourceInv'
  BY <1>0, <1>23
  DEF IInv, IntervalKill, TryToCompleteCurrent, ReferencesLeft,
      CancelTimers, AtPlace, Go, Back
<1>24. ASSUME NEW c \in Contexts, DpcEpilogue(c) PROVE SourceInv'
  BY <1>0, <1>24 DEF IInv, DpcEpilogue, AtPlace, Go
<1>25. ASSUME NEW c \in Contexts, KillQueued(c) PROVE SourceInv'
  BY <1>0, <1>25 DEF IInv, KillQueued, AtPlace, CancelQueued, Refuse, Complete
<1>26. ASSUME NEW c \in Contexts, KillCurrent(c) PROVE SourceInv'
  BY <1>0, <1>26
  DEF IInv, KillCurrent, AtPlace, CancelCurrentRead, TryToCompleteCurrent,
      ReferencesLeft, CancelTimers, Go, Back
<1>27. ASSUME NEW c \in Contexts, KillDone(c) PROVE SourceInv'
  BY <1>0, <1>27 DEF IInv, KillDone, AtPlace, Go, Back
<1>28. ASSUME NEW t \in Timers, Expire(t) PROVE SourceInv'
  BY <1>0, <1>28 DEF IInv, Expire
<1>29. ASSUME NEW c \in Cpus, NEW d \in Dpcs, Deliver(c, d) PROVE SourceInv'
  BY <1>0, <1>29 DEF IInv, Deliver, AtPlace, Go
<1>30. ASSUME PutCharInUserBuffer PROVE SourceInv'
  BY <1>0, <1>30 DEF IInv, PutCharInUserBuffer, InsertQueueDpc
<1>31. ASSUME PutCharInInterruptBuffer PROVE SourceInv'
  BY <1>0, <1>31 DEF IInv, PutCharInInterruptBuffer
<1>32. ASSUME ReportError PROVE SourceInv'
  BY <1>0, <1>32 DEF IInv, ReportError, InsertQueueDpc
<1>33. ASSUME PurgeInterruptBuffer PROVE SourceInv'
  BY <1>0, <1>33 DEF IInv, PurgeInterruptBuffer, AtPlace
<1>. QED
  BY <1>1, <1>2, <1>3, <1>4, <1>5, <1>6, <1>7, <1>8, <1>9, <1>10, <1>11, <1>12,
     <1>13, <1>14, <1>15, <1>16, <1>17, <1>18, <1>19, <1>20, <1>21, <1>22,
     <1>23, <1>24, <1>25, <1>26, <1>27, <1>28, <1>29, <1>30, <1>31, <1>32,
     <1>33
  DEF Next, Work, StartRead, IntervalReadTimeout, Dispatch

\* No step starts a read twice or lets another party reach one being started.
LEMMA StarterInvStep == IInv /\ [Next]_vars => StarterInv'
<1>. SUFFICES ASSUME IInv, [Next]_vars PROVE StarterInv'
  OBVIOUS
<1>. USE
     DEF StarterInv, RefsMatchHolders, QueueInv, Starting, Handling, Holds,
         Contexts, Sources, Timers, Dpcs, RefTypes, irpVars, queueVars,
         bufferVars, sourceVars, contextVars
<1>0. /\ pc \in [Contexts -> Places]
      /\ current \in Irps \cup {None}
      /\ refs \in [Irps -> SUBSET RefTypes]
      /\ routine \in [Irps -> {"none", "queued", "current"}]
  BY DEF IInv, TypeOK
<1>1. CASE UNCHANGED vars
  BY <1>1 DEF IInv, vars
<1>2. ASSUME NEW i \in Irps, RefuseAtDispatch(i) PROVE StarterInv'
  BY <1>0, <1>2 DEF IInv, RefuseAtDispatch, Refuse, Complete
<1>3. ASSUME NEW i \in Irps, QueueAtDispatch(i) PROVE StarterInv'
  BY <1>0, <1>3 DEF IInv, QueueAtDispatch, Fresh
<1>4. ASSUME NEW i \in Irps, CancelledAtDispatch(i) PROVE StarterInv'
  BY <1>0, <1>4 DEF IInv, CancelledAtDispatch, Arrive, Refuse, Complete
<1>5. ASSUME NEW i \in Irps, CancelQueuedIrp(i) PROVE StarterInv'
  BY <1>0, <1>5 DEF IInv, CancelQueuedIrp, CancelQueued, Refuse, Complete
<1>6. ASSUME NEW i \in Irps, FlagCancel(i) PROVE StarterInv'
  BY <1>0, <1>6 DEF IInv, FlagCancel
<1>7. ASSUME NEW c \in Threads, NEW i \in Irps, StartAtDispatch(c, i)
      PROVE StarterInv'
  <2>1. i \in Irps /\ i # None /\ refs[i] = {} /\ routine[i] # "current"
    BY <1>7, SerialReadAssumption DEF IInv, StartAtDispatch, Fresh
  <2>2. routine[i] # "queued"
    BY <1>7 DEF IInv, StartAtDispatch
  <2>3. \A d \in Contexts : ~Starting(d)
    BY <1>7 DEF IInv, StartAtDispatch
  <2>. QED  BY <1>0, <1>7, <2>1, <2>2, <2>3 DEF StartAtDispatch, Go
<1>8. ASSUME NEW c \in Threads, NEW i \in Irps, CancelCurrentIrp(c, i)
      PROVE StarterInv'
  <2>1. current \in Irps /\ \A d \in Contexts : ~Starting(d)
    BY <1>8, EndingStep DEF Ends
  <2>2. PICK h \in RefTypes, s \in Statuses, sync \in BOOLEAN :
            TryToCompleteCurrent(c, h, s, sync)
    BY <1>8, EndingStep DEF Ends
  <2>3. current' = current /\ refs' \in [Irps -> SUBSET RefTypes]
    BY <2>2, EndingStep, <1>8
    DEF Ends, TryToCompleteCurrent, ReferencesLeft, TypeOK
  <2>4. routine'[current] = "none" /\ (Starting(c)' => refs'[current] = {})
    BY <1>0, <2>1, <2>2 DEF TryToCompleteCurrent, ReferencesLeft, Go, Back
  <2>5. \A d \in Contexts : Starting(d)' => d = c
    BY <1>0, <2>1, <2>2 DEF TryToCompleteCurrent, ReferencesLeft, Go
  <2>. QED  BY <2>1, <2>3, <2>4, <2>5, SerialReadAssumption
<1>9. ASSUME NEW c \in Threads, KillAll(c) PROVE StarterInv'
  BY <1>0, <1>9 DEF IInv, KillAll, AtPlace, Go
<1>10. ASSUME NEW c \in Contexts, ResizeBuffer(c) PROVE StarterInv'
  BY <1>0, <1>10 DEF IInv, ResizeBuffer, AtPlace, Go
<1>11. ASSUME NEW c \in Contexts, StartCopy(c) PROVE StarterInv'
  BY <1>0, <1>11 DEF IInv, StartCopy, AtPlace, Go, CancelTimers, Lesser
<1>12. ASSUME NEW c \in Contexts, FinishAtOnce(c) PROVE StarterInv'
  BY <1>0, <1>12 DEF IInv, FinishAtOnce, AtPlace, Go, Satisfied
<1>13. ASSUME NEW c \in Contexts, FinishCancelled(c) PROVE StarterInv'
  BY <1>0, <1>13 DEF IInv, FinishCancelled, AtPlace, Go, Satisfied
<1>14. ASSUME NEW c \in Contexts, FinishAtSwitch(c) PROVE StarterInv'
  BY <1>0, <1>14
  DEF IInv, FinishAtSwitch, SecondCopy, Wanted, Got, AtPlace, Go,
      Satisfied, Lesser
<1>15. ASSUME NEW c \in Contexts, SwitchToUser(c) PROVE StarterInv'
  BY <1>0, <1>15
  DEF IInv, SwitchToUser, SecondCopy, Wanted, Got, AtPlace, Go, Back,
      Satisfied, Lesser, SetTimers
<1>16. ASSUME NEW c \in Contexts, GetNextIrp(c) PROVE StarterInv'
  <2>1. Head(queue) \in Irps /\ Head(queue) # current /\ Head(queue) # None
    <3>1. queue \in Seq(Irps) /\ queue # <<>>
      BY <1>16 DEF IInv, TypeOK, GetNextIrp
    <3>2. Head(queue) = queue[1] /\ 1 \in 1..Len(queue) /\ Head(queue) \in Irps
      BY <3>1, LenProperties
    <3>. QED  BY <3>2, SerialReadAssumption DEF IInv
  <2>. QED  BY <1>0, <1>16, <2>1
       DEF IInv, GetNextIrp, FinishCurrent, AtPlace, Go
<1>17. ASSUME NEW c \in Contexts, GetNoIrp(c) PROVE StarterInv'
  BY <1>0, <1>17 DEF IInv, GetNoIrp, FinishCurrent, AtPlace, Go, Back, Complete
<1>18. ASSUME NEW c \in Contexts, CompleteRead(c) PROVE StarterInv'
  BY <1>0, <1>18
  DEF IInv, CompleteRead, Runs, TryToCompleteCurrent, ReferencesLeft,
      CancelTimers, AtPlace, Go, Back
<1>19. ASSUME NEW c \in Contexts, ReadTimeout(c) PROVE StarterInv'
  BY <1>0, <1>19
  DEF IInv, ReadTimeout, Runs, TryToCompleteCurrent, ReferencesLeft,
      CancelTimers, AtPlace, Go, Back
<1>20. ASSUME NEW c \in Contexts, IntervalAfterEnd(c) PROVE StarterInv'
  BY <1>0, <1>20
  DEF IInv, IntervalAfterEnd, Runs, TryToCompleteCurrent, ReferencesLeft,
      CancelTimers, AtPlace, Go, Back
<1>21. ASSUME NEW c \in Contexts, IntervalRearm(c) PROVE StarterInv'
  BY <1>0, <1>21 DEF IInv, IntervalRearm, Runs, SetTimers, AtPlace, Go
<1>22. ASSUME NEW c \in Contexts, IntervalExpired(c) PROVE StarterInv'
  BY <1>0, <1>22 DEF IInv, IntervalExpired, Runs, AtPlace, Go
<1>23. ASSUME NEW c \in Contexts, IntervalKill(c) PROVE StarterInv'
  <2>1. current \in Irps /\ \A d \in Contexts : ~Starting(d)
    BY <1>23, EndingStep DEF Ends
  <2>2. PICK h \in RefTypes, s \in Statuses, sync \in BOOLEAN :
            TryToCompleteCurrent(c, h, s, sync)
    BY <1>23, EndingStep DEF Ends
  <2>3. current' = current /\ refs' \in [Irps -> SUBSET RefTypes]
    BY <2>2, EndingStep, <1>23
    DEF Ends, TryToCompleteCurrent, ReferencesLeft, TypeOK
  <2>4. routine'[current] = "none" /\ (Starting(c)' => refs'[current] = {})
    BY <1>0, <2>1, <2>2 DEF TryToCompleteCurrent, ReferencesLeft, Go, Back
  <2>5. \A d \in Contexts : Starting(d)' => d = c
    BY <1>0, <2>1, <2>2 DEF TryToCompleteCurrent, ReferencesLeft, Go
  <2>. QED  BY <2>1, <2>3, <2>4, <2>5, SerialReadAssumption
<1>24. ASSUME NEW c \in Contexts, DpcEpilogue(c) PROVE StarterInv'
  BY <1>0, <1>24 DEF IInv, DpcEpilogue, AtPlace, Go
<1>25. ASSUME NEW c \in Contexts, KillQueued(c) PROVE StarterInv'
  BY <1>0, <1>25 DEF IInv, KillQueued, AtPlace, CancelQueued, Refuse, Complete
<1>26. ASSUME NEW c \in Contexts, KillCurrent(c) PROVE StarterInv'
  BY <1>0, <1>26
  DEF IInv, KillCurrent, AtPlace, CancelCurrentRead, TryToCompleteCurrent,
      ReferencesLeft, CancelTimers, Go, Back
<1>27. ASSUME NEW c \in Contexts, KillDone(c) PROVE StarterInv'
  BY <1>0, <1>27 DEF IInv, KillDone, AtPlace, Go, Back
<1>28. ASSUME NEW t \in Timers, Expire(t) PROVE StarterInv'
  BY <1>0, <1>28 DEF IInv, Expire
<1>29. ASSUME NEW c \in Cpus, NEW d \in Dpcs, Deliver(c, d) PROVE StarterInv'
  BY <1>0, <1>29 DEF IInv, Deliver, AtPlace, Go
<1>30. ASSUME PutCharInUserBuffer PROVE StarterInv'
  BY <1>0, <1>30 DEF IInv, PutCharInUserBuffer, InsertQueueDpc
<1>31. ASSUME PutCharInInterruptBuffer PROVE StarterInv'
  BY <1>0, <1>31 DEF IInv, PutCharInInterruptBuffer
<1>32. ASSUME ReportError PROVE StarterInv'
  BY <1>0, <1>32 DEF IInv, ReportError, InsertQueueDpc
<1>33. ASSUME PurgeInterruptBuffer PROVE StarterInv'
  BY <1>0, <1>33 DEF IInv, PurgeInterruptBuffer, AtPlace
<1>. QED
  BY <1>1, <1>2, <1>3, <1>4, <1>5, <1>6, <1>7, <1>8, <1>9, <1>10, <1>11, <1>12,
     <1>13, <1>14, <1>15, <1>16, <1>17, <1>18, <1>19, <1>20, <1>21, <1>22,
     <1>23, <1>24, <1>25, <1>26, <1>27, <1>28, <1>29, <1>30, <1>31, <1>32,
     <1>33
  DEF Next, Work, StartRead, IntervalReadTimeout, Dispatch

\* Every step keeps the reference mask equal to the set of holders.
LEMMA RefsMatchHoldersStep == IInv /\ [Next]_vars => RefsMatchHolders'
<1>. SUFFICES ASSUME IInv, [Next]_vars PROVE RefsMatchHolders'
  OBVIOUS
<1>. USE
     DEF StarterInv, SourceInv, QueueInv, RefsMatchHolders, Starting, Handling,
         Holds, ContextInv, Contexts, Sources, Timers, Dpcs, RefTypes, irpVars,
         queueVars, bufferVars, sourceVars, contextVars
<1>0. /\ pc \in [Contexts -> Places]
      /\ job \in [Contexts -> Dpcs \cup {None}]
      /\ refs \in [Irps -> SUBSET RefTypes]
      /\ routine \in [Irps -> {"none", "queued", "current"}]
      /\ armed \in [Sources -> BOOLEAN]
      /\ dpcQueued \in [Dpcs -> BOOLEAN]
      /\ current \in Irps \cup {None}
  BY DEF IInv, TypeOK
<1>1. CASE UNCHANGED vars
  BY <1>1 DEF IInv, vars
<1>2. ASSUME NEW i \in Irps, RefuseAtDispatch(i) PROVE RefsMatchHolders'
  BY <1>0, <1>2 DEF IInv, RefuseAtDispatch, Refuse, Complete
<1>3. ASSUME NEW i \in Irps, QueueAtDispatch(i) PROVE RefsMatchHolders'
  BY <1>0, <1>3 DEF IInv, QueueAtDispatch, Fresh
<1>4. ASSUME NEW i \in Irps, CancelledAtDispatch(i) PROVE RefsMatchHolders'
  BY <1>0, <1>4 DEF IInv, CancelledAtDispatch, Arrive, Refuse, Complete
<1>5. ASSUME NEW i \in Irps, CancelQueuedIrp(i) PROVE RefsMatchHolders'
  BY <1>0, <1>5 DEF IInv, CancelQueuedIrp, CancelQueued, Refuse, Complete
<1>6. ASSUME NEW i \in Irps, FlagCancel(i) PROVE RefsMatchHolders'
  BY <1>0, <1>6 DEF IInv, FlagCancel
<1>7. ASSUME NEW c \in Threads, NEW i \in Irps, StartAtDispatch(c, i)
      PROVE RefsMatchHolders'
  BY <1>0, <1>7 DEF IInv, StartAtDispatch, Arrive, AtPlace, Go
<1>8. ASSUME NEW c \in Threads, NEW i \in Irps, CancelCurrentIrp(c, i)
      PROVE RefsMatchHolders'
  BY <1>8, EndingStep DEF Ends, Contexts
<1>9. ASSUME NEW c \in Threads, KillAll(c) PROVE RefsMatchHolders'
  BY <1>0, <1>9 DEF IInv, KillAll, AtPlace, Go
<1>10. ASSUME NEW c \in Contexts, ResizeBuffer(c) PROVE RefsMatchHolders'
  BY <1>0, <1>10 DEF IInv, ResizeBuffer, AtPlace, Go
<1>11. ASSUME NEW c \in Contexts, StartCopy(c) PROVE RefsMatchHolders'
  BY <1>0, <1>11 DEF IInv, StartCopy, AtPlace, Go, CancelTimers, Lesser
<1>12. ASSUME NEW c \in Contexts, FinishAtOnce(c) PROVE RefsMatchHolders'
  BY <1>0, <1>12 DEF IInv, FinishAtOnce, AtPlace, Go, Satisfied
<1>13. ASSUME NEW c \in Contexts, FinishCancelled(c) PROVE RefsMatchHolders'
  BY <1>0, <1>13 DEF IInv, FinishCancelled, AtPlace, Go, Satisfied
<1>14. ASSUME NEW c \in Contexts, FinishAtSwitch(c) PROVE RefsMatchHolders'
  BY <1>0, <1>14
  DEF IInv, FinishAtSwitch, SecondCopy, Wanted, Got, AtPlace, Go,
      Satisfied, Lesser
<1>15. ASSUME NEW c \in Contexts, SwitchToUser(c) PROVE RefsMatchHolders'
  <2>1. PICK T \in SUBSET Timers :
            /\ armed' = [x \in Sources |-> x \in {"isr"} \cup T]
            /\ refs' = [refs EXCEPT ![current] = {"isr", "cancel"} \cup T]
    BY <1>15, SwitchFacts
  <2>2. /\ current \in Irps
        /\ \A d \in Contexts : ~Starting(d)'
        /\ \A s \in Sources : ~dpcQueued[s]
    BY <1>15, SwitchFacts DEF Holds
  <2>3. \A s \in Sources, d \in Contexts : ~Handling(d, s)'
    <3>1. \A s \in Sources, d \in Contexts : ~Handling(d, s)
      BY <1>15, SwitchFacts DEF Holds
    <3>. QED  BY <1>0, <3>1, <1>15 DEF SwitchToUser, SecondCopy, Go, Back
  <2>4. /\ current' = current
        /\ dpcQueued' = dpcQueued
        /\ routine'[current] = "current"
    BY <1>0, <2>2, <1>15 DEF SwitchToUser, SecondCopy
  <2>5. refs'[current] = {"isr", "cancel"} \cup T
    BY <1>0, <2>1, <2>2
  <2>6. \A s \in Sources : Holds(s)' <=> s \in {"isr"} \cup T
    BY <2>1, <2>2, <2>3, <2>4
  <2>. QED  BY <2>2, <2>4, <2>5, <2>6, SerialReadAssumption
       DEF RefsMatchHolders
<1>16. ASSUME NEW c \in Contexts, GetNextIrp(c) PROVE RefsMatchHolders'
  BY <1>0, <1>16 DEF IInv, GetNextIrp, FinishCurrent, AtPlace, Go, Complete
<1>17. ASSUME NEW c \in Contexts, GetNoIrp(c) PROVE RefsMatchHolders'
  BY <1>0, <1>17 DEF IInv, GetNoIrp, FinishCurrent, AtPlace, Go, Back, Complete
<1>18. ASSUME NEW c \in Contexts, CompleteRead(c) PROVE RefsMatchHolders'
  BY <1>18, EndingStep DEF Ends
<1>19. ASSUME NEW c \in Contexts, ReadTimeout(c) PROVE RefsMatchHolders'
  BY <1>19, EndingStep DEF Ends
<1>20. ASSUME NEW c \in Contexts, IntervalAfterEnd(c) PROVE RefsMatchHolders'
  BY <1>20, EndingStep DEF Ends
<1>21. ASSUME NEW c \in Contexts, IntervalRearm(c) PROVE RefsMatchHolders'
  BY <1>0, <1>21 DEF IInv, IntervalRearm, Runs, SetTimers, AtPlace, Go
<1>22. ASSUME NEW c \in Contexts, IntervalExpired(c) PROVE RefsMatchHolders'
  BY <1>0, <1>22 DEF IInv, IntervalExpired, Runs, AtPlace, Go
<1>23. ASSUME NEW c \in Contexts, IntervalKill(c) PROVE RefsMatchHolders'
  BY <1>23, EndingStep DEF Ends
<1>24. ASSUME NEW c \in Contexts, DpcEpilogue(c) PROVE RefsMatchHolders'
  BY <1>0, <1>24 DEF IInv, DpcEpilogue, AtPlace, Go
<1>25. ASSUME NEW c \in Contexts, KillQueued(c) PROVE RefsMatchHolders'
  BY <1>0, <1>25 DEF IInv, KillQueued, AtPlace, CancelQueued, Refuse, Complete
<1>26. ASSUME NEW c \in Contexts, KillCurrent(c) PROVE RefsMatchHolders'
  BY <1>26, EndingStep DEF Ends
<1>27. ASSUME NEW c \in Contexts, KillDone(c) PROVE RefsMatchHolders'
  BY <1>0, <1>27 DEF IInv, KillDone, AtPlace, Go, Back
<1>28. ASSUME NEW t \in Timers, Expire(t) PROVE RefsMatchHolders'
  BY <1>0, <1>28 DEF IInv, Expire
<1>29. ASSUME NEW c \in Cpus, NEW d \in Dpcs, Deliver(c, d)
      PROVE RefsMatchHolders'
  BY <1>0, <1>29 DEF IInv, Deliver, AtPlace, Go
<1>30. ASSUME PutCharInUserBuffer PROVE RefsMatchHolders'
  BY <1>0, <1>30 DEF IInv, PutCharInUserBuffer, InsertQueueDpc
<1>31. ASSUME PutCharInInterruptBuffer PROVE RefsMatchHolders'
  BY <1>0, <1>31 DEF IInv, PutCharInInterruptBuffer
<1>32. ASSUME ReportError PROVE RefsMatchHolders'
  BY <1>0, <1>32 DEF IInv, ReportError, InsertQueueDpc
<1>33. ASSUME PurgeInterruptBuffer PROVE RefsMatchHolders'
  BY <1>0, <1>33 DEF IInv, PurgeInterruptBuffer, AtPlace
<1>. QED
  BY <1>1, <1>2, <1>3, <1>4, <1>5, <1>6, <1>7, <1>8, <1>9, <1>10, <1>11, <1>12,
     <1>13, <1>14, <1>15, <1>16, <1>17, <1>18, <1>19, <1>20, <1>21, <1>22,
     <1>23, <1>24, <1>25, <1>26, <1>27, <1>28, <1>29, <1>30, <1>31, <1>32,
     <1>33
  DEF Next, Work, StartRead, IntervalReadTimeout, Dispatch

\* Every step keeps the queue, the cancel routines and the completion counts
\* in agreement.
LEMMA QueueInvStep == IInv /\ [Next]_vars => QueueInv'
<1>. SUFFICES ASSUME IInv, [Next]_vars PROVE QueueInv'
  OBVIOUS
<1>. USE
     DEF QueueInv, StarterInv, Starting, Contexts, irpVars, queueVars,
         bufferVars, sourceVars, contextVars
<1>0. /\ refs \in [Irps -> SUBSET RefTypes]
      /\ routine \in [Irps -> {"none", "queued", "current"}]
      /\ completions \in [Irps -> Nat]
      /\ queue \in Seq(Irps)
      /\ current \in Irps \cup {None}
  BY DEF IInv, TypeOK
<1>1. CASE UNCHANGED vars
  BY <1>1 DEF IInv, vars
<1>2. ASSUME NEW i \in Irps, RefuseAtDispatch(i) PROVE QueueInv'
  <2>1. i # current /\ completions[i] = 0 /\ routine[i] # "queued"
    BY <1>0, <1>2, RangeEntries DEF IInv, RefuseAtDispatch, Fresh
  <2>2. /\ UNCHANGED <<queue, current, refs, routine>>
        /\ completions' = [completions EXCEPT ![i] = 1]
    BY <1>2, <2>1 DEF RefuseAtDispatch, Refuse, Complete
  <2>. QED  BY <1>0, <2>1, <2>2 DEF IInv
<1>3. ASSUME NEW i \in Irps, QueueAtDispatch(i) PROVE QueueInv'
  <2>1. /\ i # current /\ completions[i] = 0 /\ current # None
        /\ \A m \in 1..Len(queue) : queue[m] # i
    BY <1>0, <1>3, RangeEntries DEF IInv, QueueAtDispatch, Fresh
  <2>2. /\ queue' = Append(queue, i) /\ Len(queue) \in Nat
        /\ Len(queue') = Len(queue) + 1
        /\ \A m \in 1..Len(queue) : queue'[m] = queue[m]
        /\ queue'[Len(queue) + 1] = i
    BY <1>0, <1>3, AppendProperties, LenProperties DEF QueueAtDispatch
  <2>3. /\ UNCHANGED <<refs, completions, current>>
        /\ routine' = [routine EXCEPT ![i] = "queued"]
    BY <1>3 DEF QueueAtDispatch
  <2>4. \A m \in 1..Len(queue') : m \in 1..Len(queue) \/ m = Len(queue) + 1
    BY <2>2
  <2>5. \A m \in 1..Len(queue) : m \in 1..Len(queue') /\ queue[m] \in Irps
    BY <1>0, <2>2, LenProperties
  <2>6. Len(queue) + 1 \in 1..Len(queue')
    BY <2>2
  <2>7. \A m, n \in 1..Len(queue') : queue'[m] = queue'[n] => m = n
    BY <2>1, <2>2, <2>4 DEF IInv
  <2>8. \A m \in 1..Len(queue') : routine'[queue'[m]] = "queued"
    BY <1>0, <2>2, <2>3, <2>4, <2>5 DEF IInv
  <2>9. \A j \in Irps : routine'[j] = "queued" =>
            /\ j # current'
            /\ completions'[j] = 0
            /\ \E m \in 1..Len(queue') : queue'[m] = j
    <3>. SUFFICES ASSUME NEW j \in Irps, routine'[j] = "queued"
                  PROVE  /\ j # current'
                         /\ completions'[j] = 0
                         /\ \E m \in 1..Len(queue') : queue'[m] = j
      OBVIOUS
    <3>1. CASE j = i
      BY <3>1, <2>1, <2>2, <2>3, <2>6
    <3>2. CASE j # i
      BY <1>0, <3>2, <2>2, <2>3, <2>5 DEF IInv
    <3>. QED  BY <3>1, <3>2
  <2>. QED  BY <1>0, <2>1, <2>3, <2>7, <2>8, <2>9 DEF IInv
<1>4. ASSUME NEW i \in Irps, CancelledAtDispatch(i) PROVE QueueInv'
  <2>1. i # current /\ completions[i] = 0 /\ routine[i] # "queued"
    BY <1>0, <1>4, RangeEntries DEF IInv, CancelledAtDispatch, Fresh
  <2>2. /\ UNCHANGED <<queue, current, refs, routine>>
        /\ completions' = [completions EXCEPT ![i] = 1]
    BY <1>4, <2>1 DEF CancelledAtDispatch, Refuse, Complete
  <2>. QED  BY <1>0, <2>1, <2>2 DEF IInv
<1>5. ASSUME NEW i \in Irps, CancelQueuedIrp(i) PROVE QueueInv'
  <2>1. PICK n \in 1..Len(queue) : CancelQueued(n)
    <3>1. queue \in Seq(Irps)
      BY DEF IInv, TypeOK
    <3>. QED  BY <3>1, LenProperties, <1>5 DEF CancelQueuedIrp
  <2>. QED  BY <2>1, WithdrawStep
<1>6. ASSUME NEW i \in Irps, FlagCancel(i) PROVE QueueInv'
  BY <1>0, <1>6 DEF IInv, FlagCancel
<1>7. ASSUME NEW c \in Threads, NEW i \in Irps, StartAtDispatch(c, i)
      PROVE QueueInv'
  <2>1. queue = <<>> /\ Len(queue) = 0 /\ current = None
    BY <1>7, EmptySeq DEF StartAtDispatch
  <2>2. completions[i] = 0 /\ current' = i /\ i # None
    BY <1>7, SerialReadAssumption DEF StartAtDispatch, Fresh
  <2>3. UNCHANGED <<queue, refs, routine, completions>>
    BY <1>7 DEF StartAtDispatch
  <2>. QED  BY <1>0, <2>1, <2>2, <2>3, SerialReadAssumption DEF IInv
<1>8. ASSUME NEW c \in Threads, NEW i \in Irps, CancelCurrentIrp(c, i)
      PROVE QueueInv'
  BY <1>0, <1>8
  DEF IInv, CancelCurrentIrp, CancelCurrentRead, TryToCompleteCurrent,
      ReferencesLeft, CancelTimers, AtPlace, Go, Back
<1>9. ASSUME NEW c \in Threads, KillAll(c) PROVE QueueInv'
  BY <1>0, <1>9 DEF IInv, KillAll, AtPlace, Go
<1>10. ASSUME NEW c \in Contexts, ResizeBuffer(c) PROVE QueueInv'
  BY <1>0, <1>10 DEF IInv, ResizeBuffer, AtPlace, Go
<1>11. ASSUME NEW c \in Contexts, StartCopy(c) PROVE QueueInv'
  BY <1>0, <1>11 DEF IInv, StartCopy, AtPlace, Go, CancelTimers, Lesser
<1>12. ASSUME NEW c \in Contexts, FinishAtOnce(c) PROVE QueueInv'
  BY <1>0, <1>12 DEF IInv, FinishAtOnce, AtPlace, Go, Satisfied
<1>13. ASSUME NEW c \in Contexts, FinishCancelled(c) PROVE QueueInv'
  BY <1>0, <1>13 DEF IInv, FinishCancelled, AtPlace, Go, Satisfied
<1>14. ASSUME NEW c \in Contexts, FinishAtSwitch(c) PROVE QueueInv'
  BY <1>0, <1>14
  DEF IInv, FinishAtSwitch, SecondCopy, Wanted, Got, AtPlace, Go,
      Satisfied, Lesser
<1>15. ASSUME NEW c \in Contexts, SwitchToUser(c) PROVE QueueInv'
  BY <1>0, <1>15
  DEF IInv, SwitchToUser, SecondCopy, Wanted, Got, AtPlace, Go, Back,
      Satisfied, Lesser, SetTimers
<1>16. ASSUME NEW c \in Contexts, GetNextIrp(c) PROVE QueueInv'
  <2>0. Starting(c) /\ FinishCurrent(c)
    BY <1>16 DEF GetNextIrp, FinishCurrent, AtPlace
  <2>1. /\ current # None /\ current \in Irps
        /\ refs[current] = {} /\ routine[current] = "none"
        /\ completions[current] = 0
        /\ completions' = [completions EXCEPT ![current] = 1]
        /\ refs' = refs
    <3>1. current # None /\ refs[current] = {} /\ routine[current] = "none"
      BY <1>16, <2>0 DEF IInv
    <3>2. current \in Irps /\ completions[current] = 0
      BY <1>0, <3>1 DEF IInv
    <3>. QED  BY <1>0, <2>0, <3>1, <3>2 DEF FinishCurrent, Complete
  <2>2. /\ current' = Head(queue) /\ queue' = Tail(queue)
        /\ routine' = [routine EXCEPT ![Head(queue)] = "none"]
    BY <1>16 DEF GetNextIrp
  <2>3. queue # <<>> /\ Len(queue) \in Nat /\ Len(queue) >= 1
    BY <1>0, <1>16, LenProperties, EmptySeq DEF GetNextIrp
  <2>4. /\ Head(queue) = queue[1] /\ queue[1] \in Irps
        /\ Len(queue') = Len(queue) - 1
        /\ \A m \in 1..Len(queue) - 1 : queue'[m] = queue[m + 1]
    BY <1>0, <2>2, <2>3, HeadTailProperties, LenProperties
  <2>5. /\ queue[1] # current /\ queue[1] # None
        /\ routine[queue[1]] = "queued" /\ completions[queue[1]] = 0
    BY <1>0, <2>3, <2>4, SerialReadAssumption DEF IInv
  <2>6. \A m \in 1..Len(queue') : m + 1 \in 1..Len(queue) /\ m + 1 # 1
    BY <2>3, <2>4
  <2>7. \A m \in 1..Len(queue') : queue'[m] # queue[1] /\ queue'[m] \in Irps
    <3>1. 1 \in 1..Len(queue) /\ \A m \in 1..Len(queue) : queue[m] \in Irps
      BY <1>0, <2>3, LenProperties
    <3>. QED  BY <2>3, <2>4, <2>6, <3>1 DEF IInv
  <2>8. \A m, n \in 1..Len(queue') : queue'[m] = queue'[n] => m = n
    BY <2>3, <2>4, <2>6 DEF IInv
  <2>9. \A m \in 1..Len(queue') : routine'[queue'[m]] = "queued"
    BY <1>0, <2>2, <2>4, <2>6, <2>7 DEF IInv
  <2>10. \A j \in Irps : routine'[j] = "queued" =>
            /\ j # current'
            /\ completions'[j] = 0
            /\ \E m \in 1..Len(queue') : queue'[m] = j
    <3>. SUFFICES ASSUME NEW j \in Irps, routine'[j] = "queued"
                  PROVE  /\ j # current'
                         /\ completions'[j] = 0
                         /\ \E m \in 1..Len(queue') : queue'[m] = j
      OBVIOUS
    <3>1. j # queue[1] /\ routine[j] = "queued" /\ j # current
      BY <1>0, <2>1, <2>2, <2>4
    <3>2. PICK m \in 1..Len(queue) : queue[m] = j
      BY <3>1 DEF IInv
    <3>3. m - 1 \in 1..Len(queue') /\ (m - 1) + 1 = m
      BY <3>1, <3>2, <2>3, <2>4
    <3>4. queue'[m - 1] = j
      BY <3>2, <3>3, <2>4
    <3>. QED  BY <1>0, <2>1, <2>2, <2>4, <3>1, <3>3, <3>4 DEF IInv
  <2>11. \A j \in Irps : completions'[j] \in {0, 1}
    BY <1>0, <2>1 DEF IInv
  <2>12. current' # None /\ completions'[current'] = 0
    BY <1>0, <2>1, <2>2, <2>4, <2>5
  <2>13. \A j \in Irps : (routine'[j] = "current" => j = current')
                       /\ (j # current' => refs'[j] = {})
    BY <1>0, <2>1, <2>2, <2>4, <2>5 DEF IInv
  <2>. QED  BY <2>8, <2>9, <2>10, <2>11, <2>12, <2>13
<1>17. ASSUME NEW c \in Contexts, GetNoIrp(c) PROVE QueueInv'
  <2>0. Starting(c) /\ FinishCurrent(c)
    BY <1>17 DEF GetNoIrp, FinishCurrent, AtPlace
  <2>1. /\ current # None /\ current \in Irps
        /\ refs[current] = {} /\ routine[current] = "none"
        /\ completions[current] = 0
        /\ completions' = [completions EXCEPT ![current] = 1]
        /\ refs' = refs
    <3>1. current # None /\ refs[current] = {} /\ routine[current] = "none"
      BY <1>17, <2>0 DEF IInv
    <3>2. current \in Irps /\ completions[current] = 0
      BY <1>0, <3>1 DEF IInv
    <3>. QED  BY <1>0, <2>0, <3>1, <3>2 DEF FinishCurrent, Complete
  <2>2. current' = None /\ queue' = <<>> /\ routine' = routine
    BY <1>17 DEF GetNoIrp
  <2>3. Len(queue) = 0 /\ Len(queue') = 0
    BY <1>17, <2>2, EmptySeq DEF GetNoIrp
  <2>4. \A i \in Irps : completions'[i] \in {0, 1}
    BY <1>0, <2>1 DEF IInv
  <2>. QED  BY <1>0, <2>1, <2>2, <2>3, <2>4, SerialReadAssumption DEF IInv
<1>18. ASSUME NEW c \in Contexts, CompleteRead(c) PROVE QueueInv'
  BY <1>0, <1>18
  DEF IInv, CompleteRead, Runs, TryToCompleteCurrent, ReferencesLeft,
      CancelTimers, AtPlace, Go, Back
<1>19. ASSUME NEW c \in Contexts, ReadTimeout(c) PROVE QueueInv'
  BY <1>0, <1>19
  DEF IInv, ReadTimeout, Runs, TryToCompleteCurrent, ReferencesLeft,
      CancelTimers, AtPlace, Go, Back
<1>20. ASSUME NEW c \in Contexts, IntervalAfterEnd(c) PROVE QueueInv'
  BY <1>0, <1>20
  DEF IInv, IntervalAfterEnd, Runs, TryToCompleteCurrent, ReferencesLeft,
      CancelTimers, AtPlace, Go, Back
<1>21. ASSUME NEW c \in Contexts, IntervalRearm(c) PROVE QueueInv'
  BY <1>0, <1>21 DEF IInv, IntervalRearm, Runs, SetTimers, AtPlace, Go
<1>22. ASSUME NEW c \in Contexts, IntervalExpired(c) PROVE QueueInv'
  BY <1>0, <1>22 DEF IInv, IntervalExpired, Runs, AtPlace, Go
<1>23. ASSUME NEW c \in Contexts, IntervalKill(c) PROVE QueueInv'
  BY <1>0, <1>23
  DEF IInv, IntervalKill, TryToCompleteCurrent, ReferencesLeft,
      CancelTimers, AtPlace, Go, Back
<1>24. ASSUME NEW c \in Contexts, DpcEpilogue(c) PROVE QueueInv'
  BY <1>0, <1>24 DEF IInv, DpcEpilogue, AtPlace, Go
<1>25. ASSUME NEW c \in Contexts, KillQueued(c) PROVE QueueInv'
  <2>. DEFINE n == Len(queue)
  <2>1. n \in 1..Len(queue) /\ CancelQueued(n)
    <3>1. queue \in Seq(Irps) /\ queue # <<>>
      BY <1>25 DEF KillQueued, IInv, TypeOK
    <3>. QED  BY <3>1, LenProperties, <1>25 DEF KillQueued
  <2>. HIDE DEF n
  <2>. QED  BY <2>1, WithdrawStep
<1>26. ASSUME NEW c \in Contexts, KillCurrent(c) PROVE QueueInv'
  BY <1>0, <1>26
  DEF IInv, KillCurrent, AtPlace, CancelCurrentRead, TryToCompleteCurrent,
      ReferencesLeft, CancelTimers, Go, Back
<1>27. ASSUME NEW c \in Contexts, KillDone(c) PROVE QueueInv'
  BY <1>0, <1>27 DEF IInv, KillDone, AtPlace, Go, Back
<1>28. ASSUME NEW t \in Timers, Expire(t) PROVE QueueInv'
  BY <1>0, <1>28 DEF IInv, Expire
<1>29. ASSUME NEW c \in Cpus, NEW d \in Dpcs, Deliver(c, d) PROVE QueueInv'
  BY <1>0, <1>29 DEF IInv, Deliver, AtPlace, Go
<1>30. ASSUME PutCharInUserBuffer PROVE QueueInv'
  BY <1>0, <1>30 DEF IInv, PutCharInUserBuffer, InsertQueueDpc
<1>31. ASSUME PutCharInInterruptBuffer PROVE QueueInv'
  BY <1>0, <1>31 DEF IInv, PutCharInInterruptBuffer
<1>32. ASSUME ReportError PROVE QueueInv'
  BY <1>0, <1>32 DEF IInv, ReportError, InsertQueueDpc
<1>33. ASSUME PurgeInterruptBuffer PROVE QueueInv'
  BY <1>0, <1>33 DEF IInv, PurgeInterruptBuffer, AtPlace
<1>. QED
  BY <1>1, <1>2, <1>3, <1>4, <1>5, <1>6, <1>7, <1>8, <1>9, <1>10, <1>11, <1>12,
     <1>13, <1>14, <1>15, <1>16, <1>17, <1>18, <1>19, <1>20, <1>21, <1>22,
     <1>23, <1>24, <1>25, <1>26, <1>27, <1>28, <1>29, <1>30, <1>31, <1>32,
     <1>33
  DEF Next, Work, StartRead, IntervalReadTimeout, Dispatch

\* Every step keeps the character counts of a read consistent.
LEMMA LengthInvStep == IInv /\ [Next]_vars => LengthInv'
<1>. SUFFICES ASSUME IInv, [Next]_vars PROVE LengthInv'
  OBVIOUS
<1>. USE SerialReadAssumption
     DEF LengthInv, IntervalMarkCurrent, StarterInv, Starting,
         RefsMatchHolders, Holds, QueueInv, Fresh, Contexts, Sources, Timers,
         irpVars, queueVars, bufferVars, sourceVars, contextVars
<1>0. /\ pc \in [Contexts -> Places]
      /\ routine \in [Irps -> {"none", "queued", "current"}]
      /\ info \in [Irps -> 0..MaxLen]
      /\ length \in [Irps -> 0..MaxLen]
      /\ needed \in 0..MaxLen
      /\ count \in 0..BufferSize
      /\ userSlot \in 0..MaxLen
      /\ readByIsr \in 0..MaxLen
      /\ lastCount \in ReadComplete..MaxLen
      /\ copied \in [Contexts -> 0..MaxLen]
      /\ timeouts \in [Contexts -> TimeoutSettings \cup {None}]
      /\ armed \in [Sources -> BOOLEAN]
      /\ current \in Irps \cup {None}
  BY DEF IInv, TypeOK
<1>1. CASE UNCHANGED vars
  BY <1>1 DEF IInv, vars
<1>2. ASSUME NEW i \in Irps, RefuseAtDispatch(i) PROVE LengthInv'
  BY <1>0, <1>2 DEF IInv, RefuseAtDispatch, Refuse, Complete
<1>3. ASSUME NEW i \in Irps, QueueAtDispatch(i) PROVE LengthInv'
  <2>1. /\ queue' = Append(queue, i) /\ Fresh(i)
        /\ routine' = [routine EXCEPT ![i] = "queued"]
        /\ \E n \in 1..MaxLen : length' = [length EXCEPT ![i] = n]
        /\ UNCHANGED <<info, completions, current, bufferVars, sourceVars,
                        contextVars>>
    BY <1>3 DEF QueueAtDispatch, Arrive
  <2>2. i # current /\ info[i] = 0
    BY <2>1 DEF IInv
  <2>3. \A j \in Irps : Fresh(j)' => Fresh(j)
    BY <2>1, AppendFresh DEF IInv, TypeOK
  <2>4. \A j \in Irps : Fresh(j)' \/ routine'[j] = "queued" => info'[j] = 0
    BY <1>0, <2>1, <2>2, <2>3 DEF IInv
  <2>5. length'[current] = length[current]
    BY <1>0, <2>1, <2>2
  <2>. QED  BY <2>1, <2>4, <2>5 DEF IInv
<1>4. ASSUME NEW i \in Irps, CancelledAtDispatch(i) PROVE LengthInv'
  BY <1>0, <1>4 DEF IInv, CancelledAtDispatch, Arrive, Refuse, Complete
<1>5. ASSUME NEW i \in Irps, CancelQueuedIrp(i) PROVE LengthInv'
  <2>1. PICK n \in 1..Len(queue) : CancelQueued(n)
    <3>1. queue \in Seq(Irps)
      BY DEF IInv, TypeOK
    <3>. QED  BY <3>1, LenProperties, <1>5 DEF CancelQueuedIrp
  <2>. QED  BY <2>1, WithdrawStep, <1>5 DEF CancelQueuedIrp, contextVars
<1>6. ASSUME NEW i \in Irps, FlagCancel(i) PROVE LengthInv'
  BY <1>0, <1>6 DEF IInv, FlagCancel
<1>7. ASSUME NEW c \in Threads, NEW i \in Irps, StartAtDispatch(c, i)
      PROVE LengthInv'
  BY <1>0, <1>7 DEF IInv, StartAtDispatch, Arrive, AtPlace, Go
<1>8. ASSUME NEW c \in Threads, NEW i \in Irps, CancelCurrentIrp(c, i)
      PROVE LengthInv'
  BY <1>8, EndingStep DEF Ends, Contexts
<1>9. ASSUME NEW c \in Threads, KillAll(c) PROVE LengthInv'
  BY <1>0, <1>9 DEF IInv, KillAll, AtPlace, Go
<1>10. ASSUME NEW c \in Contexts, ResizeBuffer(c) PROVE LengthInv'
  BY <1>0, <1>10 DEF IInv, ResizeBuffer, AtPlace, Go
<1>11. ASSUME NEW c \in Contexts, StartCopy(c) PROVE LengthInv'
  <2>1. /\ pc[c] = "start" /\ current \in Irps /\ info[current] = 0
        /\ routine[current] = "none" /\ ~armed["isr"]
        /\ \A d \in Contexts : Starting(d) => c = d
    BY <1>0, <1>11 DEF IInv, StartCopy, AtPlace
  <2>2. PICK got \in 0..MaxLen :
           /\ got <= count /\ got <= length[current]
           /\ needed' = length[current] - got
           /\ info' = [info EXCEPT ![current] = got]
           /\ copied' = [copied EXCEPT ![c] = got]
    <3>1. Lesser(count, length[current]) \in 0..MaxLen
      BY <1>0, <2>1 DEF Lesser
    <3>2. /\ Lesser(count, length[current]) <= count
          /\ Lesser(count, length[current]) <= length[current]
      BY <1>0, <2>1 DEF Lesser
    <3>3. info[current] + Lesser(count, length[current])
             = Lesser(count, length[current])
      BY <2>1, <3>1
    <3>. QED  BY <1>11, <3>1, <3>2, <3>3 DEF StartCopy
  <2>3. /\ pc' = [pc EXCEPT ![c] = "copied"]
        /\ \E t \in TimeoutSettings : timeouts' = [timeouts EXCEPT ![c] = t]
        /\ armed' = [x \in Sources |-> x = "isr" /\ armed[x]]
        /\ UNCHANGED <<routine, length, completions, queue, current, count>>
    BY <1>11 DEF StartCopy, Go
  <2>4. ~armed'["isr"]
    BY <2>1, <2>3
  <2>5. \A i \in Irps : (Fresh(i) \/ routine[i] = "queued")' => info'[i] = 0
    BY <1>0, <2>1, <2>2, <2>3 DEF IInv
  <2>6. \A d \in Contexts : pc'[d] \in {"start", "copied"} => d = c
    BY <1>0, <2>1, <2>3
  <2>7. pc'[c] = "copied"
    BY <1>0, <2>3
  <2>8. /\ timeouts'[c] \in TimeoutSettings
        /\ copied'[c] <= count'
    BY <1>0, <2>2, <2>3
  <2>9. info'[current'] + needed' = length'[current']
    BY <1>0, <2>1, <2>2, <2>3
  <2>. QED  BY <2>4, <2>5, <2>6, <2>7, <2>8, <2>9
<1>12. ASSUME NEW c \in Contexts, FinishAtOnce(c) PROVE LengthInv'
  BY <1>0, <1>12 DEF IInv, FinishAtOnce, AtPlace, Go, Satisfied
<1>13. ASSUME NEW c \in Contexts, FinishCancelled(c) PROVE LengthInv'
  BY <1>0, <1>13 DEF IInv, FinishCancelled, AtPlace, Go, Satisfied
<1>14. ASSUME NEW c \in Contexts, FinishAtSwitch(c) PROVE LengthInv'
  BY <1>0, <1>14
  DEF IInv, FinishAtSwitch, SecondCopy, Wanted, Got, AtPlace, Go,
      Satisfied, Lesser
<1>15. ASSUME NEW c \in Contexts, SwitchToUser(c) PROVE LengthInv'
  <2>1. /\ current \in Irps
        /\ \A d \in Contexts : ~Starting(d)'
    BY <1>15, SwitchFacts
  <2>2. SecondCopy(c) /\ Got(c) < Wanted(c)
    BY <1>15 DEF SwitchToUser
  <2>3. /\ userSlot' = info[current] + Got(c)
        /\ lastCount' = userSlot' /\ readByIsr' = 0
        /\ routine' = [routine EXCEPT ![current] = "current"]
        /\ info' = [info EXCEPT ![current] = info[current] + Got(c)]
        /\ length' = [length EXCEPT ![current] =
                         IF CrunchDownToOne(timeouts[c]) THEN 1
                         ELSE length[current]]
    BY <1>15 DEF SwitchToUser, SecondCopy
  <2>9. UNCHANGED <<queue, current, completions>>
    BY <2>2 DEF SecondCopy
  <2>4. /\ info[current] + needed = length[current]
        /\ Wanted(c) \in 1..needed
        /\ Got(c) \in 0..Wanted(c)
        /\ CrunchDownToOne(timeouts[c]) => info[current] = 0
    BY <2>2, CopyFacts
  <2>5. userSlot' \in Nat /\ userSlot' < length'[current]
    <3>1. CASE CrunchDownToOne(timeouts[c])
      BY <1>0, <2>1, <2>2, <2>3, <2>4, <3>1 DEF Wanted
    <3>2. CASE ~CrunchDownToOne(timeouts[c])
      <4>1. length'[current] = length[current] /\ Wanted(c) = needed
        BY <1>0, <2>1, <2>3, <3>2 DEF Wanted
      <4>. QED  BY <1>0, <2>1, <2>2, <2>3, <2>4, <4>1
    <3>. QED  BY <3>1, <3>2
  <2>6. \A j \in Irps : Fresh(j)' \/ routine'[j] = "queued" =>
            j # current /\ (Fresh(j) \/ routine[j] = "queued")
    BY <1>0, <2>1, <2>3, <2>9 DEF Fresh
  <2>7. \A j \in Irps : j # current => info'[j] = info[j]
    BY <1>0, <2>1, <2>3
  <2>8. current # None
    BY <2>1, SerialReadAssumption
  <2>. QED  BY <2>1, <2>3, <2>5, <2>6, <2>7, <2>8, <2>9 DEF IInv
<1>16. ASSUME NEW c \in Contexts, GetNextIrp(c) PROVE LengthInv'
  <2>1. /\ ~armed["isr"] /\ current \in Irps
        /\ Head(queue) \in Irps /\ routine[Head(queue)] = "queued"
    BY <1>16, FinishFacts, HeadFacts DEF GetNextIrp
  <2>2. /\ FinishCurrent(c)
        /\ current' = Head(queue) /\ queue' = Tail(queue)
        /\ routine' = [routine EXCEPT ![Head(queue)] = "none"]
        /\ pc' = [pc EXCEPT ![c] = "start"]
    BY <1>16 DEF GetNextIrp, Go
  <2>8. UNCHANGED <<info, armed>>
    BY <2>2 DEF FinishCurrent
  <2>3. \A d \in Contexts : Starting(d) => d = c
    BY <1>16, FinishFacts DEF GetNextIrp
  <2>4. \A j \in Irps : Fresh(j)' => Fresh(j)
    BY <2>2, <1>16, HeadFacts, FinishFresh DEF GetNextIrp
  <2>5. \A j \in Irps : Fresh(j)' \/ routine'[j] = "queued" => info'[j] = 0
    BY <1>0, <2>1, <2>2, <2>4, <2>8 DEF IInv
  <2>6. info'[current'] = 0
    BY <2>1, <2>2, <2>8 DEF IInv
  <2>7. \A d \in Contexts : pc'[d] # "copied" /\ (pc'[d] = "start" => d = c)
    BY <1>0, <2>2, <2>3
  <2>. QED  BY <2>1, <2>2, <2>5, <2>6, <2>7, <2>8
<1>17. ASSUME NEW c \in Contexts, GetNoIrp(c) PROVE LengthInv'
  <2>1. /\ \A d \in Contexts : ~Starting(d)'
        /\ ~armed["isr"] /\ current \in Irps
    BY <1>0, <1>17, FinishFacts DEF GetNoIrp, Go, Back
  <2>2. FinishCurrent(c) /\ current' = None /\ UNCHANGED <<queue, routine>>
    BY <1>17 DEF GetNoIrp
  <2>3. UNCHANGED <<info, armed>>
    BY <2>2 DEF FinishCurrent
  <2>4. \A j \in Irps : Fresh(j)' => Fresh(j)
    BY <2>2, FinishFresh
  <2>. QED  BY <2>1, <2>2, <2>3, <2>4 DEF IInv
<1>18. ASSUME NEW c \in Contexts, CompleteRead(c) PROVE LengthInv'
  BY <1>18, EndingStep DEF Ends
<1>19. ASSUME NEW c \in Contexts, ReadTimeout(c) PROVE LengthInv'
  BY <1>19, EndingStep DEF Ends
<1>20. ASSUME NEW c \in Contexts, IntervalAfterEnd(c) PROVE LengthInv'
  BY <1>20, EndingStep DEF Ends
<1>21. ASSUME NEW c \in Contexts, IntervalRearm(c) PROVE LengthInv'
  BY <1>0, <1>21 DEF IInv, IntervalRearm, Runs, SetTimers, AtPlace, Go
<1>22. ASSUME NEW c \in Contexts, IntervalExpired(c) PROVE LengthInv'
  BY <1>0, <1>22 DEF IInv, IntervalExpired, Runs, AtPlace, Go
<1>23. ASSUME NEW c \in Contexts, IntervalKill(c) PROVE LengthInv'
  BY <1>23, EndingStep DEF Ends
<1>24. ASSUME NEW c \in Contexts, DpcEpilogue(c) PROVE LengthInv'
  BY <1>0, <1>24 DEF IInv, DpcEpilogue, AtPlace, Go
<1>25. ASSUME NEW c \in Contexts, KillQueued(c) PROVE LengthInv'
  <2>. DEFINE n == Len(queue)
  <2>1. n \in 1..Len(queue) /\ CancelQueued(n)
    <3>1. queue \in Seq(Irps) /\ queue # <<>>
      BY <1>25 DEF KillQueued, IInv, TypeOK
    <3>. QED  BY <3>1, LenProperties, <1>25 DEF KillQueued
  <2>. HIDE DEF n
  <2>. QED  BY <2>1, WithdrawStep, <1>25 DEF KillQueued, contextVars
<1>26. ASSUME NEW c \in Contexts, KillCurrent(c) PROVE LengthInv'
  BY <1>26, EndingStep DEF Ends
<1>27. ASSUME NEW c \in Contexts, KillDone(c) PROVE LengthInv'
  BY <1>0, <1>27 DEF IInv, KillDone, AtPlace, Go, Back
<1>28. ASSUME NEW t \in Timers, Expire(t) PROVE LengthInv'
  BY <1>0, <1>28 DEF IInv, Expire
<1>29. ASSUME NEW c \in Cpus, NEW d \in Dpcs, Deliver(c, d) PROVE LengthInv'
  BY <1>0, <1>29 DEF IInv, Deliver, AtPlace, Go
<1>30. ASSUME PutCharInUserBuffer PROVE LengthInv'
  BY <1>0, <1>30 DEF IInv, PutCharInUserBuffer, InsertQueueDpc
<1>31. ASSUME PutCharInInterruptBuffer PROVE LengthInv'
  BY <1>0, <1>31 DEF IInv, PutCharInInterruptBuffer
<1>32. ASSUME ReportError PROVE LengthInv'
  BY <1>0, <1>32 DEF IInv, ReportError, InsertQueueDpc
<1>33. ASSUME PurgeInterruptBuffer PROVE LengthInv'
  BY <1>0, <1>33 DEF IInv, PurgeInterruptBuffer, AtPlace
<1>. QED
  BY <1>1, <1>2, <1>3, <1>4, <1>5, <1>6, <1>7, <1>8, <1>9, <1>10, <1>11, <1>12,
     <1>13, <1>14, <1>15, <1>16, <1>17, <1>18, <1>19, <1>20, <1>21, <1>22,
     <1>23, <1>24, <1>25, <1>26, <1>27, <1>28, <1>29, <1>30, <1>31, <1>32,
     <1>33
  DEF Next, Work, StartRead, IntervalReadTimeout, Dispatch

\* Every step keeps the values within their types; the bounds on the counts
\* come from the length invariant.
LEMMA TypeOKStep == IInv /\ [Next]_vars => TypeOK'
<1>. SUFFICES ASSUME IInv, [Next]_vars PROVE TypeOK'
  OBVIOUS
<1>. USE SerialReadAssumption
     DEF TypeOK, LengthInv, IntervalMarkCurrent, StarterInv, Starting, Places,
         Statuses, ReadCancelled, ReadTotal, ReadComplete, Contexts, Sources,
         Timers, Dpcs, RefTypes, irpVars, queueVars, bufferVars, sourceVars,
         contextVars
<1>1. CASE UNCHANGED vars
  BY <1>1 DEF IInv, vars
<1>2. ASSUME NEW i \in Irps, RefuseAtDispatch(i) PROVE TypeOK'
  <2>1. completions' \in [Irps -> Nat]
    BY <1>2 DEF IInv, RefuseAtDispatch, Refuse, Complete
  <2>2. status' \in [Irps -> Statuses] /\ info' \in [Irps -> 0..MaxLen]
    BY <1>2 DEF IInv, RefuseAtDispatch, Refuse
  <2>. QED  BY <2>1, <2>2, <1>2 DEF IInv, RefuseAtDispatch
<1>3. ASSUME NEW i \in Irps, QueueAtDispatch(i) PROVE TypeOK'
  BY <1>3 DEF IInv, QueueAtDispatch, Arrive
<1>4. ASSUME NEW i \in Irps, CancelledAtDispatch(i) PROVE TypeOK'
  BY <1>4 DEF IInv, CancelledAtDispatch, Arrive, Refuse, Complete
<1>5. ASSUME NEW i \in Irps, CancelQueuedIrp(i) PROVE TypeOK'
  <2>1. PICK n \in 1..Len(queue) : CancelQueued(n)
    <3>1. queue \in Seq(Irps)
      BY DEF IInv, TypeOK
    <3>. QED  BY <3>1, LenProperties, <1>5 DEF CancelQueuedIrp
  <2>. QED  BY <2>1, WithdrawStep, <1>5 DEF CancelQueuedIrp
<1>6. ASSUME NEW i \in Irps, FlagCancel(i) PROVE TypeOK'
  BY <1>6 DEF IInv, FlagCancel
<1>7. ASSUME NEW c \in Threads, NEW i \in Irps, StartAtDispatch(c, i)
      PROVE TypeOK'
  BY <1>7 DEF IInv, StartAtDispatch, Arrive, AtPlace, Go
<1>8. ASSUME NEW c \in Threads, NEW i \in Irps, CancelCurrentIrp(c, i)
      PROVE TypeOK'
  BY <1>8, EndingStep DEF Ends, Contexts
<1>9. ASSUME NEW c \in Threads, KillAll(c) PROVE TypeOK'
  BY <1>9 DEF IInv, KillAll, AtPlace, Go
<1>10. ASSUME NEW c \in Contexts, ResizeBuffer(c) PROVE TypeOK'
  BY <1>10 DEF IInv, ResizeBuffer, AtPlace, Go
<1>11. ASSUME NEW c \in Contexts, StartCopy(c) PROVE TypeOK'
  <2>1. current \in Irps /\ length[current] \in 0..MaxLen
        /\ info[current] = 0
    BY <1>11, SerialReadAssumption DEF IInv, StartCopy, AtPlace
  <2>2. Lesser(count, length[current]) \in 0..length[current]
    BY <2>1 DEF IInv, Lesser
  <2>3. needed' \in 0..MaxLen
    BY <2>1, <2>2, <1>11 DEF StartCopy
  <2>4. info' \in [Irps -> 0..MaxLen]
    <3>1. info \in [Irps -> 0..MaxLen]
      BY DEF IInv
    <3>. QED  BY <2>1, <2>2, <3>1, <1>11 DEF StartCopy
  <2>5. copied' \in [Contexts -> 0..MaxLen]
    <3>1. copied \in [Contexts -> 0..MaxLen]
      BY DEF IInv
    <3>. QED  BY <2>1, <2>2, <3>1, <1>11 DEF StartCopy
  <2>6. dpcCount' \in Int
    <3>1. {t \in Timers : armed[t]} \in SUBSET Timers
      OBVIOUS
    <3>. QED  BY <3>1, TimerCount, <1>11 DEF IInv, StartCopy, CancelTimers
  <2>7. armed' \in [Sources -> BOOLEAN]
    BY <1>11 DEF IInv, StartCopy
  <2>8. timeouts' \in [Contexts -> TimeoutSettings \cup {None}]
    <3>1. timeouts \in [Contexts -> TimeoutSettings \cup {None}]
      BY DEF IInv
    <3>. QED  BY <3>1, <1>11 DEF StartCopy
  <2>9. pc' \in [Contexts -> Places]
    BY <1>11 DEF IInv, StartCopy, Go
  <2>. QED
    BY <2>3, <2>4, <2>5, <2>6, <2>7, <2>8, <2>9, <1>11 DEF IInv, StartCopy
<1>12. ASSUME NEW c \in Contexts, FinishAtOnce(c) PROVE TypeOK'
  BY <1>12 DEF IInv, FinishAtOnce, AtPlace, Go, Satisfied
<1>13. ASSUME NEW c \in Contexts, FinishCancelled(c) PROVE TypeOK'
  <2>1. current \in Irps /\ 0 \in 0..MaxLen
    BY <1>13 DEF IInv, FinishCancelled, AtPlace
  <2>2. refs' \in [Irps -> SUBSET RefTypes]
    BY <1>13 DEF IInv, FinishCancelled
  <2>3. status' \in [Irps -> Statuses]
    BY <1>13 DEF IInv, FinishCancelled
  <2>4. info' \in [Irps -> 0..MaxLen] /\ copied' \in [Contexts -> 0..MaxLen]
    BY <2>1, <1>13 DEF IInv, FinishCancelled
  <2>5. pc' \in [Contexts -> Places]
    BY <1>13 DEF IInv, FinishCancelled, Go
  <2>. QED  BY <2>2, <2>3, <2>4, <2>5, <1>13 DEF IInv, FinishCancelled
<1>14. ASSUME NEW c \in Contexts, FinishAtSwitch(c) PROVE TypeOK'
  <2>1. SecondCopy(c)
    BY <1>14 DEF FinishAtSwitch
  <2>2. /\ current \in Irps
        /\ needed' \in 0..MaxLen /\ count' \in 0..BufferSize
        /\ info' \in [Irps -> 0..MaxLen] /\ length' \in [Irps -> 0..MaxLen]
        /\ copied' \in [Contexts -> 0..MaxLen]
    BY <2>1, CopyTypes
  <2>3. refs' \in [Irps -> SUBSET RefTypes]
    BY <1>14 DEF IInv, FinishAtSwitch
  <2>4. status' \in [Irps -> Statuses]
    BY <1>14 DEF IInv, FinishAtSwitch
  <2>5. pc' \in [Contexts -> Places]
    BY <1>14 DEF IInv, FinishAtSwitch, Go
  <2>. QED  BY <2>2, <2>3, <2>4, <2>5, <1>14
       DEF IInv, FinishAtSwitch, SecondCopy
<1>15. ASSUME NEW c \in Contexts, SwitchToUser(c) PROVE TypeOK'
  <2>1. SecondCopy(c)
    BY <1>15 DEF SwitchToUser
  <2>2. /\ current \in Irps
        /\ needed' \in 0..MaxLen /\ count' \in 0..BufferSize
        /\ info' \in [Irps -> 0..MaxLen] /\ length' \in [Irps -> 0..MaxLen]
        /\ copied' \in [Contexts -> 0..MaxLen]
        /\ info[current] + Got(c) \in 0..MaxLen
    BY <2>1, CopyTypes
  <2>3. userSlot' \in 0..MaxLen /\ lastCount' \in ReadComplete..MaxLen
    BY <2>2, <1>15 DEF SwitchToUser
  <2>4. PICK T \in SUBSET Timers : T = TimersFor(timeouts[c])
    BY TimersForType
  <2>5. refs' \in [Irps -> SUBSET RefTypes]
    BY <2>4, <1>15 DEF IInv, SwitchToUser
  <2>6. armed' \in [Sources -> BOOLEAN]
    BY <2>4, <1>15 DEF SwitchToUser
  <2>7. dpcCount' \in Int
    <3>1. {t \in T : ~armed[t]} \in SUBSET Timers
      OBVIOUS
    <3>2. Cardinality({t \in T : ~armed[t]}) \in Nat
      BY <3>1, TimerCount
    <3>. QED  BY <2>4, <3>2, <1>15 DEF IInv, SwitchToUser, SetTimers
  <2>8. routine' \in [Irps -> {"none", "queued", "current"}]
    BY <1>15 DEF IInv, SwitchToUser
  <2>9. pc' \in [Contexts -> Places]
    BY <1>15 DEF IInv, SwitchToUser, Go, Back
  <2>10. timeouts' \in [Contexts -> TimeoutSettings \cup {None}]
    BY <1>15 DEF IInv, SwitchToUser
  <2>11. /\ readByIsr' \in 0..MaxLen
         /\ UNCHANGED <<cancel, status, completions, queue, current,
                         dpcQueued, lock, job>>
    BY <1>15 DEF IInv, SwitchToUser, SecondCopy, queueVars
  <2>. QED
    BY <2>2, <2>3, <2>5, <2>6, <2>7, <2>8, <2>9, <2>10, <2>11 DEF IInv
<1>16. ASSUME NEW c \in Contexts, GetNextIrp(c) PROVE TypeOK'
  <2>1. /\ Head(queue) \in Irps
        /\ Tail(queue) \in Seq(Irps)
        /\ current \in Irps
    BY <1>16, HeadFacts, FinishFacts DEF GetNextIrp
  <2>2. /\ current' \in Irps /\ queue' \in Seq(Irps)
        /\ routine' \in [Irps -> {"none", "queued", "current"}]
    BY <2>1, <1>16 DEF IInv, GetNextIrp
  <2>3. completions' \in [Irps -> Nat]
    <3>1. completions \in [Irps -> Nat]
      BY DEF IInv
    <3>. QED  BY <2>1, <3>1, <1>16 DEF GetNextIrp, FinishCurrent, Complete
  <2>4. pc' \in [Contexts -> Places]
    BY <1>16 DEF IInv, GetNextIrp, Go
  <2>5. timeouts' \in [Contexts -> TimeoutSettings \cup {None}]
    BY <1>16 DEF IInv, GetNextIrp, FinishCurrent
  <2>. QED  BY <2>2, <2>3, <2>4, <2>5, <1>16
       DEF IInv, GetNextIrp, FinishCurrent
<1>17. ASSUME NEW c \in Contexts, GetNoIrp(c) PROVE TypeOK'
  BY <1>17 DEF IInv, GetNoIrp, FinishCurrent, AtPlace, Go, Back, Complete
<1>18. ASSUME NEW c \in Contexts, CompleteRead(c) PROVE TypeOK'
  BY <1>18, EndingStep DEF Ends
<1>19. ASSUME NEW c \in Contexts, ReadTimeout(c) PROVE TypeOK'
  BY <1>19, EndingStep DEF Ends
<1>20. ASSUME NEW c \in Contexts, IntervalAfterEnd(c) PROVE TypeOK'
  BY <1>20, EndingStep DEF Ends
<1>21. ASSUME NEW c \in Contexts, IntervalRearm(c) PROVE TypeOK'
  BY <1>21 DEF IInv, IntervalRearm, Runs, SetTimers, AtPlace, Go
<1>22. ASSUME NEW c \in Contexts, IntervalExpired(c) PROVE TypeOK'
  BY <1>22 DEF IInv, IntervalExpired, Runs, AtPlace, Go
<1>23. ASSUME NEW c \in Contexts, IntervalKill(c) PROVE TypeOK'
  BY <1>23, EndingStep DEF Ends
<1>24. ASSUME NEW c \in Contexts, DpcEpilogue(c) PROVE TypeOK'
  BY <1>24 DEF IInv, DpcEpilogue, AtPlace, Go
<1>25. ASSUME NEW c \in Contexts, KillQueued(c) PROVE TypeOK'
  <2>. DEFINE n == Len(queue)
  <2>1. n \in 1..Len(queue) /\ CancelQueued(n)
    <3>1. queue \in Seq(Irps) /\ queue # <<>>
      BY <1>25 DEF KillQueued, IInv, TypeOK
    <3>. QED  BY <3>1, LenProperties, <1>25 DEF KillQueued
  <2>. HIDE DEF n
  <2>. QED  BY <2>1, WithdrawStep, <1>25 DEF KillQueued
<1>26. ASSUME NEW c \in Contexts, KillCurrent(c) PROVE TypeOK'
  BY <1>26, EndingStep DEF Ends
<1>27. ASSUME NEW c \in Contexts, KillDone(c) PROVE TypeOK'
  BY <1>27 DEF IInv, KillDone, AtPlace, Go, Back
<1>28. ASSUME NEW t \in Timers, Expire(t) PROVE TypeOK'
  BY <1>28 DEF IInv, Expire
<1>29. ASSUME NEW c \in Cpus, NEW d \in Dpcs, Deliver(c, d) PROVE TypeOK'
  BY <1>29 DEF IInv, Deliver, AtPlace, Go
<1>30. ASSUME PutCharInUserBuffer PROVE TypeOK'
  <2>1. current \in Irps /\ userSlot < length[current] /\ readByIsr <= userSlot
    BY <1>30 DEF IInv, PutCharInUserBuffer
  <2>2. /\ readByIsr' \in 0..MaxLen /\ userSlot' \in 0..MaxLen
        /\ count' \in 0..BufferSize
    BY <2>1, <1>30 DEF IInv, PutCharInUserBuffer
  <2>3. info' \in [Irps -> 0..MaxLen]
    <3>1. info \in [Irps -> 0..MaxLen] /\ length[current] \in 0..MaxLen
      BY <2>1 DEF IInv
    <3>. QED  BY <2>1, <3>1, <1>30 DEF PutCharInUserBuffer
  <2>4. armed' \in [Sources -> BOOLEAN]
    BY <1>30 DEF IInv, PutCharInUserBuffer
  <2>5. CASE userSlot < length[current] - 1
    BY <2>1, <2>2, <2>3, <2>4, <2>5, <1>30 DEF IInv, PutCharInUserBuffer
  <2>6. CASE userSlot = length[current] - 1
    <3>1. InsertQueueDpc("isr")
      BY <2>1, <2>6, <1>30 DEF IInv, PutCharInUserBuffer
    <3>2. dpcQueued' \in [Dpcs -> BOOLEAN]
      BY <3>1 DEF IInv, InsertQueueDpc
    <3>3. dpcCount' \in Int
      BY <3>1 DEF IInv, InsertQueueDpc
    <3>. QED  BY <2>2, <2>3, <2>4, <3>2, <3>3, <1>30
         DEF IInv, PutCharInUserBuffer
  <2>. QED  BY <2>5, <2>6, <1>30 DEF PutCharInUserBuffer
<1>31. ASSUME PutCharInInterruptBuffer PROVE TypeOK'
  BY <1>31 DEF IInv, PutCharInInterruptBuffer
<1>32. ASSUME ReportError PROVE TypeOK'
  BY <1>32 DEF IInv, ReportError, InsertQueueDpc
<1>33. ASSUME PurgeInterruptBuffer PROVE TypeOK'
  BY <1>33 DEF IInv, PurgeInterruptBuffer, AtPlace
<1>. QED
  BY <1>1, <1>2, <1>3, <1>4, <1>5, <1>6, <1>7, <1>8, <1>9, <1>10, <1>11, <1>12,
     <1>13, <1>14, <1>15, <1>16, <1>17, <1>18, <1>19, <1>20, <1>21, <1>22,
     <1>23, <1>24, <1>25, <1>26, <1>27, <1>28, <1>29, <1>30, <1>31, <1>32,
     <1>33
  DEF Next, Work, StartRead, IntervalReadTimeout, Dispatch

-----------------------------------------------------------------------------
(* DpcCount. *)

\* What DpcCount counts: set timers, queued DPCs, running DPCs.
SetNow == {t \in Timers : armed[t]}
QueuedNow == {d \in Dpcs : dpcQueued[d]}
RunningNow == {c \in Contexts : job[c] # None}

DpcCountInv == IsFiniteSet(RunningNow) /\ DpcCountExact

\* Sets of timers and of DPCs can be counted.
LEMMA DpcsFinite ==
    /\ \A T \in SUBSET Timers : IsFiniteSet(T)
    /\ \A D \in SUBSET Dpcs : IsFiniteSet(D)
<1>1. IsFiniteSet({"total"} \cup {"interval"})
  BY FS_Singleton, FS_AddElement
<1>2. IsFiniteSet({"total"} \cup {"interval"} \cup {"isr"})
  BY <1>1, FS_AddElement
<1>3. IsFiniteSet({"total"} \cup {"interval"} \cup {"isr"} \cup {"error"})
  BY <1>2, FS_AddElement
<1>4. /\ Timers = {"total"} \cup {"interval"}
      /\ Dpcs = {"total"} \cup {"interval"} \cup {"isr"} \cup {"error"}
  BY DEF Timers, Dpcs, Sources
<1>. QED  BY <1>1, <1>3, <1>4, FS_Subset

\* Taking S out of a finite set, or adding S to it.
LEMMA AddMany ==
    ASSUME NEW A, NEW S, IsFiniteSet(A), IsFiniteSet(S)
    PROVE  /\ Cardinality(A \cup S)
                  = Cardinality(A) + Cardinality({x \in S : x \notin A})
           /\ Cardinality(A) \in Nat
           /\ Cardinality({x \in S : x \notin A}) \in Nat
<1>. DEFINE D == {x \in S : x \notin A}
<1>1. IsFiniteSet(D)
  BY FS_Subset
<1>2. A \cup S = A \cup D /\ A \cap D = {}
  OBVIOUS
<1>3. Cardinality(A) \in Nat /\ Cardinality(D) \in Nat
  BY <1>1, FS_CardinalityType
<1>4. Cardinality(A \cap D) = 0
  BY <1>2, FS_EmptySet
<1>5. Cardinality(A \cup D)
          = Cardinality(A) + Cardinality(D) - Cardinality(A \cap D)
  BY <1>1, FS_Union
<1>6. Cardinality(A \cup S) = Cardinality(A) + Cardinality(D)
  <2>1. Cardinality(A \cup S) = Cardinality(A \cup D)
    BY <1>2
  <2>. HIDE DEF D
  <2>. QED  BY <2>1, <1>3, <1>4, <1>5
<1>. QED  BY <1>3, <1>6

\* What a step does to the three.
Counts == <<SetNow, QueuedNow, RunningNow, dpcCount>>

CountKept == UNCHANGED Counts

Disarm == /\ SetNow' = {}
          /\ CancelTimers
          /\ UNCHANGED <<QueuedNow, RunningNow>>

Arm == /\ \E T \in SUBSET Timers : SetNow' = SetNow \cup T /\ SetTimers(T)
       /\ UNCHANGED <<QueuedNow, RunningNow>>

Enqueue == /\ \E d \in Dpcs : /\ QueuedNow' = QueuedNow \cup {d}
                              /\ dpcCount' = dpcCount +
                                     IF d \in QueuedNow THEN 0 ELSE 1
           /\ UNCHANGED <<SetNow, RunningNow>>

TimerToQueue == /\ \E t \in SetNow : /\ t \notin QueuedNow
                                     /\ t \in Dpcs
                                     /\ SetNow' = SetNow \ {t}
                                     /\ QueuedNow' = QueuedNow \cup {t}
                /\ UNCHANGED <<RunningNow, dpcCount>>

QueueToCpu == /\ \E d \in QueuedNow : QueuedNow' = QueuedNow \ {d}
              /\ \E c \in Contexts : /\ c \notin RunningNow
                                     /\ RunningNow' = RunningNow \cup {c}
              /\ UNCHANGED <<SetNow, dpcCount>>

Leave == /\ \E c \in RunningNow : RunningNow' = RunningNow \ {c}
         /\ dpcCount' = dpcCount - 1
         /\ UNCHANGED <<SetNow, QueuedNow>>

\* Each of them keeps the count exact.
LEMMA CountSteps ==
    ASSUME DpcCountInv, dpcCount \in Int,
           \/ CountKept \/ Disarm \/ Arm \/ Enqueue \/ TimerToQueue
           \/ QueueToCpu \/ Leave
    PROVE  DpcCountInv'
<1>. DEFINE a == Cardinality(SetNow)
            q == Cardinality(QueuedNow)
            r == Cardinality(RunningNow)
<1>1. /\ SetNow \in SUBSET Timers /\ QueuedNow \in SUBSET Dpcs
      /\ IsFiniteSet(SetNow) /\ IsFiniteSet(QueuedNow)
      /\ IsFiniteSet(RunningNow)
  <2>1. SetNow \in SUBSET Timers /\ QueuedNow \in SUBSET Dpcs
    BY DEF SetNow, QueuedNow
  <2>. QED  BY <2>1, DpcsFinite DEF DpcCountInv
<1>2. a \in Nat /\ q \in Nat /\ r \in Nat
  BY <1>1, FS_CardinalityType
<1>3. dpcCount = 1 + a + q + r
  BY DEF DpcCountInv, DpcCountExact, SetNow, QueuedNow, RunningNow
<1>. DEFINE Goal == IsFiniteSet(RunningNow')
                    /\ dpcCount' = 1 + Cardinality(SetNow')
                                     + Cardinality(QueuedNow')
                                     + Cardinality(RunningNow')
<1>. SUFFICES Goal
  BY DEF DpcCountInv, DpcCountExact, SetNow, QueuedNow, RunningNow
<1>4. CASE CountKept
  BY <1>1, <1>2, <1>3, <1>4 DEF CountKept, Counts
<1>5. CASE Disarm
  <2>1. dpcCount' = dpcCount - a
    BY <1>5 DEF Disarm, CancelTimers, SetNow
  <2>. QED  BY <1>1, <1>2, <1>3, <1>5, <2>1, FS_EmptySet DEF Disarm
<1>6. CASE Arm
  <2>1. PICK T \in SUBSET Timers : SetNow' = SetNow \cup T /\ SetTimers(T)
    BY <1>6 DEF Arm
  <2>. DEFINE new == {x \in T : x \notin SetNow}
  <2>2. IsFiniteSet(T)
    BY DpcsFinite
  <2>3. /\ Cardinality(SetNow') = a + Cardinality(new)
        /\ Cardinality(new) \in Nat
    BY <1>1, <2>1, <2>2, AddMany
  <2>4. new = {t \in T : ~armed[t]}
    BY DEF SetNow
  <2>5. dpcCount' = dpcCount + Cardinality(new)
    BY <2>1, <2>4 DEF SetTimers
  <2>6. QueuedNow' = QueuedNow /\ RunningNow' = RunningNow
    BY <1>6 DEF Arm
  <2>. HIDE DEF new
  <2>. QED  BY <1>1, <1>2, <1>3, <2>3, <2>5, <2>6
<1>7. CASE Enqueue
  <2>1. PICK d \in Dpcs : /\ QueuedNow' = QueuedNow \cup {d}
                          /\ dpcCount' = dpcCount +
                                 IF d \in QueuedNow THEN 0 ELSE 1
    BY <1>7 DEF Enqueue
  <2>2. Cardinality(QueuedNow') = IF d \in QueuedNow THEN q ELSE q + 1
    BY <1>1, <2>1, FS_AddElement
  <2>3. SetNow' = SetNow /\ RunningNow' = RunningNow
    BY <1>7 DEF Enqueue
  <2>. QED  BY <1>1, <1>2, <1>3, <2>1, <2>2, <2>3
<1>8. CASE TimerToQueue
  <2>1. PICK t \in SetNow : /\ t \notin QueuedNow
                            /\ SetNow' = SetNow \ {t}
                            /\ QueuedNow' = QueuedNow \cup {t}
    BY <1>8 DEF TimerToQueue
  <2>2. Cardinality(SetNow') = a - 1 /\ Cardinality(QueuedNow') = q + 1
    BY <1>1, <2>1, FS_AddElement, FS_RemoveElement
  <2>3. RunningNow' = RunningNow /\ dpcCount' = dpcCount
    BY <1>8 DEF TimerToQueue
  <2>. QED  BY <1>1, <1>2, <1>3, <2>2, <2>3
<1>9. CASE QueueToCpu
  <2>1. PICK d \in QueuedNow : QueuedNow' = QueuedNow \ {d}
    BY <1>9 DEF QueueToCpu
  <2>2. PICK c \in Contexts : /\ c \notin RunningNow
                              /\ RunningNow' = RunningNow \cup {c}
    BY <1>9 DEF QueueToCpu
  <2>3. /\ Cardinality(QueuedNow') = q - 1
        /\ Cardinality(RunningNow') = r + 1
        /\ IsFiniteSet(RunningNow')
    BY <1>1, <2>1, <2>2, FS_AddElement, FS_RemoveElement
  <2>4. SetNow' = SetNow /\ dpcCount' = dpcCount
    BY <1>9 DEF QueueToCpu
  <2>. QED  BY <1>2, <1>3, <2>3, <2>4
<1>10. CASE Leave
  <2>1. PICK c \in RunningNow : RunningNow' = RunningNow \ {c}
    BY <1>10 DEF Leave
  <2>2. Cardinality(RunningNow') = r - 1 /\ IsFiniteSet(RunningNow')
    BY <1>1, <2>1, FS_RemoveElement
  <2>3. SetNow' = SetNow /\ QueuedNow' = QueuedNow /\ dpcCount' = dpcCount - 1
    BY <1>10 DEF Leave
  <2>. QED  BY <1>2, <1>3, <2>2, <2>3
<1>. QED  BY <1>4, <1>5, <1>6, <1>7, <1>8, <1>9, <1>10

\* Every step does one of them.
LEMMA CountStep ==
    ASSUME IInv, [Next]_vars
    PROVE  \/ CountKept \/ Disarm \/ Arm \/ Enqueue \/ TimerToQueue
           \/ QueueToCpu \/ Leave
<1>. DEFINE Goal == \/ CountKept \/ Disarm \/ Arm \/ Enqueue
                    \/ TimerToQueue \/ QueueToCpu \/ Leave
<1>. SUFFICES Goal
  OBVIOUS
<1>. USE
     DEF irpVars, queueVars, bufferVars, sourceVars, contextVars
<1>0. /\ armed \in [Sources -> BOOLEAN]
      /\ dpcQueued \in [Dpcs -> BOOLEAN]
      /\ job \in [Contexts -> Dpcs \cup {None}]
  BY DEF IInv, TypeOK
<1>1. CASE UNCHANGED vars
  BY <1>1 DEF CountKept, Counts, SetNow, QueuedNow, RunningNow, vars
<1>2. ASSUME NEW i \in Irps, RefuseAtDispatch(i)
      PROVE  Goal
  BY <1>0, <1>2
  DEF CountKept, Counts, SetNow, QueuedNow, RunningNow, RefuseAtDispatch
<1>3. ASSUME NEW i \in Irps, QueueAtDispatch(i)
      PROVE  Goal
  BY <1>0, <1>3
  DEF CountKept, Counts, SetNow, QueuedNow, RunningNow, QueueAtDispatch
<1>4. ASSUME NEW i \in Irps, CancelledAtDispatch(i)
      PROVE  Goal
  BY <1>0, <1>4
  DEF CountKept, Counts, SetNow, QueuedNow, RunningNow, CancelledAtDispatch
<1>5. ASSUME NEW i \in Irps, FlagCancel(i)
      PROVE  Goal
  BY <1>0, <1>5
  DEF CountKept, Counts, SetNow, QueuedNow, RunningNow, FlagCancel
<1>6. ASSUME NEW i \in Irps, CancelQueuedIrp(i)
      PROVE  Goal
  BY <1>0, <1>6
  DEF CountKept, Counts, SetNow, QueuedNow, RunningNow, CancelQueuedIrp,
      CancelQueued
<1>7. ASSUME NEW c \in Threads, NEW i \in Irps, StartAtDispatch(c, i)
      PROVE  Goal
  BY <1>0, <1>7
  DEF CountKept, Counts, SetNow, QueuedNow, RunningNow, StartAtDispatch
<1>8. ASSUME NEW c \in Threads, KillAll(c)
      PROVE  Goal
  BY <1>0, <1>8
  DEF CountKept, Counts, SetNow, QueuedNow, RunningNow, KillAll
<1>9. ASSUME NEW c \in Contexts, ResizeBuffer(c)
      PROVE  Goal
  BY <1>0, <1>9
  DEF CountKept, Counts, SetNow, QueuedNow, RunningNow, ResizeBuffer
<1>10. ASSUME NEW c \in Contexts, StartCopy(c)
      PROVE  Goal
  <2>1. SetNow' = {}
    BY <1>10 DEF StartCopy, SetNow, Sources, Timers
  <2>2. UNCHANGED <<QueuedNow, RunningNow>>
    BY <1>10 DEF StartCopy, QueuedNow, RunningNow
  <2>. QED  BY <1>10, <2>1, <2>2 DEF StartCopy, Disarm
<1>11. ASSUME NEW c \in Contexts, FinishAtOnce(c)
      PROVE  Goal
  BY <1>0, <1>11
  DEF CountKept, Counts, SetNow, QueuedNow, RunningNow, FinishAtOnce
<1>12. ASSUME NEW c \in Contexts, FinishCancelled(c)
      PROVE  Goal
  BY <1>0, <1>12
  DEF CountKept, Counts, SetNow, QueuedNow, RunningNow, FinishCancelled
<1>13. ASSUME NEW c \in Contexts, FinishAtSwitch(c)
      PROVE  Goal
  BY <1>0, <1>13
  DEF CountKept, Counts, SetNow, QueuedNow, RunningNow, FinishAtSwitch,
      SecondCopy
<1>14. ASSUME NEW c \in Contexts, SwitchToUser(c)
      PROVE  Goal
  <2>1. PICK T \in SUBSET Timers : T = TimersFor(timeouts[c])
    BY TimersForType
  <2>2. armed' = [x \in Sources |-> armed[x] \/ x \in {"isr"} \cup T]
    BY <1>14, <2>1 DEF SwitchToUser
  <2>3. \A t \in Timers : t \in Sources /\ t # "isr"
    BY DEF Sources, Timers
  <2>4. SetNow' = SetNow \cup T
    BY <2>2, <2>3 DEF SetNow
  <2>5. SetTimers(T)
    BY <1>14, <2>1 DEF SwitchToUser
  <2>6. UNCHANGED <<QueuedNow, RunningNow>>
    BY <1>14 DEF SwitchToUser, SecondCopy, QueuedNow, RunningNow
  <2>. QED  BY <2>4, <2>5, <2>6 DEF Arm
<1>15. ASSUME NEW c \in Contexts, GetNextIrp(c)
      PROVE  Goal
  BY <1>0, <1>15
  DEF CountKept, Counts, SetNow, QueuedNow, RunningNow, GetNextIrp,
      FinishCurrent
<1>16. ASSUME NEW c \in Contexts, GetNoIrp(c)
      PROVE  Goal
  BY <1>0, <1>16
  DEF CountKept, Counts, SetNow, QueuedNow, RunningNow, GetNoIrp, FinishCurrent
<1>17. ASSUME NEW c \in Contexts, Ends(c)
      PROVE  Goal
  <2>1. PICK h \in RefTypes, s \in Statuses, sync \in BOOLEAN :
            TryToCompleteCurrent(c, h, s, sync)
    BY <1>17, EndingStep
  <2>2. SetNow' = {}
    BY <1>17, EndingStep DEF SetNow, Sources
  <2>3. CancelTimers /\ UNCHANGED <<QueuedNow, RunningNow>>
    BY <2>1 DEF TryToCompleteCurrent, QueuedNow, RunningNow
  <2>. QED  BY <2>2, <2>3 DEF Disarm
<1>18. ASSUME NEW c \in Contexts, IntervalRearm(c)
      PROVE  Goal
  <2>1. SetNow' = SetNow \cup {"interval"} /\ SetTimers({"interval"})
    BY <1>0, <1>18 DEF IntervalRearm, SetNow, Sources, Timers
  <2>2. UNCHANGED <<QueuedNow, RunningNow>>
    BY <1>18 DEF IntervalRearm, QueuedNow, RunningNow
  <2>3. {"interval"} \in SUBSET Timers
    BY DEF Timers
  <2>. QED  BY <2>1, <2>2, <2>3 DEF Arm
<1>19. ASSUME NEW c \in Contexts, IntervalExpired(c)
      PROVE  Goal
  BY <1>0, <1>19
  DEF CountKept, Counts, SetNow, QueuedNow, RunningNow, IntervalExpired
<1>20. ASSUME NEW c \in Contexts, DpcEpilogue(c)
      PROVE  Goal
  <2>1. c \in RunningNow
    BY <1>20 DEF DpcEpilogue, AtPlace, RunningNow, IInv, ContextInv
  <2>2. RunningNow' = RunningNow \ {c}
    BY <1>0, <1>20 DEF DpcEpilogue, RunningNow
  <2>3. UNCHANGED <<SetNow, QueuedNow>>
    BY <1>20 DEF DpcEpilogue, SetNow, QueuedNow
  <2>. QED  BY <1>20, <2>1, <2>2, <2>3 DEF DpcEpilogue, Leave
<1>21. ASSUME NEW c \in Contexts, KillQueued(c)
      PROVE  Goal
  BY <1>0, <1>21
  DEF CountKept, Counts, SetNow, QueuedNow, RunningNow, KillQueued,
      CancelQueued
<1>22. ASSUME NEW c \in Contexts, KillDone(c)
      PROVE  Goal
  BY <1>0, <1>22
  DEF CountKept, Counts, SetNow, QueuedNow, RunningNow, KillDone
<1>23. ASSUME NEW t \in Timers, Expire(t)
      PROVE  Goal
  <2>1. t \in Sources /\ t \in Dpcs
    BY DEF Sources, Dpcs
  <2>2. t \in SetNow /\ t \notin QueuedNow
    BY <1>23, <2>1 DEF Expire, SetNow, QueuedNow, IInv, SourceInv
  <2>3. SetNow' = SetNow \ {t} /\ QueuedNow' = QueuedNow \cup {t}
    BY <1>0, <1>23, <2>1 DEF Expire, SetNow, QueuedNow, Sources
  <2>4. UNCHANGED <<RunningNow, dpcCount>>
    BY <1>23 DEF Expire, RunningNow
  <2>. QED  BY <2>1, <2>2, <2>3, <2>4 DEF TimerToQueue
<1>24. ASSUME NEW c \in Cpus, NEW d \in Dpcs, Deliver(c, d)
      PROVE  Goal
  <2>1. c \in Contexts /\ d # None
    BY SerialReadAssumption DEF Contexts
  <2>2. c \notin RunningNow
    BY <1>24, <2>1 DEF Deliver, AtPlace, RunningNow, IInv, ContextInv
  <2>3. RunningNow' = RunningNow \cup {c}
    BY <1>0, <1>24, <2>1 DEF Deliver, RunningNow
  <2>4. d \in QueuedNow /\ QueuedNow' = QueuedNow \ {d}
    BY <1>0, <1>24 DEF Deliver, QueuedNow
  <2>5. UNCHANGED <<SetNow, dpcCount>>
    BY <1>24 DEF Deliver, SetNow
  <2>. QED  BY <2>1, <2>2, <2>3, <2>4, <2>5 DEF QueueToCpu
<1>25. ASSUME PutCharInUserBuffer
      PROVE  Goal
  <2>1. UNCHANGED <<SetNow, RunningNow>>
    <3>1. \A t \in Timers : armed'[t] = armed[t]
      BY <1>0, <1>25 DEF PutCharInUserBuffer, Sources, Timers
    <3>2. job' = job
      BY <1>25 DEF PutCharInUserBuffer
    <3>. QED  BY <3>1, <3>2 DEF SetNow, RunningNow
  <2>2. CASE UNCHANGED <<dpcQueued, dpcCount>>
    BY <2>1, <2>2 DEF CountKept, Counts, QueuedNow
  <2>3. CASE InsertQueueDpc("isr")
    BY <1>0, <2>1, <2>3 DEF InsertQueueDpc, Enqueue, QueuedNow, Dpcs, Sources
  <2>. QED  BY <1>25, <2>2, <2>3 DEF PutCharInUserBuffer
<1>26. ASSUME PutCharInInterruptBuffer
      PROVE  Goal
  BY <1>0, <1>26
  DEF CountKept, Counts, SetNow, QueuedNow, RunningNow,
      PutCharInInterruptBuffer
<1>27. ASSUME ReportError
      PROVE  Goal
  <2>1. UNCHANGED <<SetNow, RunningNow>>
    BY <1>27 DEF ReportError, SetNow, RunningNow
  <2>. QED  BY <1>0, <1>27, <2>1
       DEF ReportError, InsertQueueDpc, Enqueue, QueuedNow, Dpcs
<1>28. ASSUME PurgeInterruptBuffer
      PROVE  Goal
  BY <1>0, <1>28
  DEF CountKept, Counts, SetNow, QueuedNow, RunningNow, PurgeInterruptBuffer
<1>. HIDE DEF Goal
<1>40. Threads \subseteq Contexts
  BY DEF Contexts
<1>. QED
  BY <1>40, <1>1, <1>2, <1>3, <1>4, <1>5, <1>6, <1>7, <1>8, <1>9, <1>10, <1>11,
     <1>12, <1>13, <1>14, <1>15, <1>16, <1>17, <1>18, <1>19, <1>20, <1>21,
     <1>22, <1>23, <1>24, <1>25, <1>26, <1>27, <1>28
  DEF Next, Work, StartRead, IntervalReadTimeout, Dispatch, Ends

-----------------------------------------------------------------------------
(* How a read ends. *)

\* What HonestOutcome says of a context that is about to complete the read.
Honest(c) ==
    pc[c] = "next" /\ current \notin Resizes =>
        /\ status[current] # "pending"
        /\ status[current] = "success" =>
              \/ info[current] = length[current]
              \/ /\ timeouts[c] # None
                 /\ \/ ReturnWithWhatsPresent(timeouts[c])
                    \/ Os2ssReturn(timeouts[c]) /\ info[current] > 0
        /\ status[current] = "cancelled" =>
               cancel[current] /\ info[current] = 0

\* The DPC of a filled read holds the reference of the ISR, which the ISR
\* itself no longer does.
LEMMA FilledFacts ==
    ASSUME IInv, Filled
    PROVE  /\ current # None
           /\ \A c \in Contexts : ~Starting(c)
           /\ ~armed["isr"]
<1>1. "isr" \in Sources
  BY DEF Sources
<1>2. Holds("isr")
  BY DEF Filled, Holds
<1>. QED  BY <1>1, <1>2 DEF IInv, RefsMatchHolders, SourceInv, Filled

\* The same of the state a step leads to.
LEMMA NotFilled ==
    ASSUME IInv'
    PROVE  /\ current' = None => ~Filled'
           /\ \A c \in Contexts : Starting(c)' => ~Filled'
           /\ armed'["isr"] => ~Filled'
<1>1. "isr" \in Sources
  BY DEF Sources
<1>2. Filled' => Holds("isr")'
  BY DEF Filled, Holds
<1>. QED  BY <1>1, <1>2 DEF IInv, RefsMatchHolders, SourceInv, Filled

\* While a context starts or completes the current read, all there is to say
\* is how honest that context is; with no current read there is nothing.
LEMMA StarterOutcome ==
    ASSUME IInv', NEW c \in Contexts, Starting(c)', Honest(c)'
    PROVE  OutcomeInv'
<1>1. ~Filled'
  BY NotFilled
<1>2. \A d \in Contexts : pc'[d] = "next" => d = c
  BY DEF IInv, StarterInv, Starting
<1>. QED  BY <1>1, <1>2 DEF OutcomeInv, HonestOutcome, Honest

\* Without a current read there is no outcome to explain.
LEMMA IdleOutcome ==
    ASSUME IInv', current' = None
    PROVE  OutcomeInv'
<1>1. ~Filled'
  BY NotFilled
<1>2. \A d \in Contexts : pc'[d] # "next"
  BY DEF IInv, StarterInv, Starting
<1>. QED  BY <1>1, <1>2 DEF OutcomeInv, HonestOutcome

\* A step that has nothing to do with the outcome of the current read.
OutcomeKept ==
    /\ current' = current
    /\ current # None => /\ length'[current] = length[current]
                         /\ info'[current] = info[current]
                         /\ status'[current] = status[current]
                         /\ cancel[current] => cancel'[current]
    /\ lastCount' = lastCount \/ lastCount' \in Nat
    /\ Filled' => Filled
    /\ \A c \in Contexts : pc'[c] = "next" =>
           pc[c] = "next" /\ timeouts'[c] = timeouts[c]
    /\ \A c \in Contexts : Starting(c) => Starting(c)'

\* A step that leaves the current read's outcome alone explains it as before.
LEMMA OutcomeKeptStep ==
    ASSUME IInv, OutcomeInv, OutcomeKept
    PROVE  OutcomeInv'
<1>1. current' = current
  BY DEF OutcomeKept
<1>2. current # None => /\ length'[current] = length[current]
                        /\ info'[current] = info[current]
                        /\ status'[current] = status[current]
                        /\ cancel[current] => cancel'[current]
  BY DEF OutcomeKept
<1>3. HonestOutcome'
  <2>. SUFFICES ASSUME NEW c \in Contexts, Honest(c), pc[c] = "next",
                       pc'[c] = "next", timeouts'[c] = timeouts[c]
                PROVE  Honest(c)'
    BY DEF OutcomeInv, HonestOutcome, Honest, OutcomeKept
  <2>1. current # None
    BY DEF IInv, StarterInv, Starting
  <2>. QED  BY <1>1, <1>2, <2>1 DEF Honest
<1>4. Filled' => info'[current'] = length'[current']
  BY <1>1, <1>2, FilledFacts DEF OutcomeKept, OutcomeInv
<1>5. ASSUME current' # None, \A c \in Contexts : ~Starting(c)'
      PROVE  /\ lastCount' = ReadComplete => info'[current] = length'[current]
             /\ lastCount' = ReadCancelled => cancel'[current]
  <2>1. \A c \in Contexts : ~Starting(c)
    BY <1>5 DEF OutcomeKept
  <2>2. lastCount' < 0 => lastCount' = lastCount
    BY DEF OutcomeKept, IInv, TypeOK
  <2>. QED
    BY <1>1, <1>2, <1>5, <2>1, <2>2
    DEF OutcomeInv, ReadComplete, ReadCancelled
<1>. QED  BY <1>1, <1>3, <1>4, <1>5 DEF OutcomeInv

\* SerialTryToCompleteCurrent leaves an honest read if its caller is honest:
\* a caller that says success has found the read full, one that says
\* cancelled has found it cancelled, and so has the mark it leaves.
LEMMA EndingOutcome ==
    ASSUME IInv, IInv', OutcomeInv,
           NEW c \in Contexts, NEW h \in RefTypes, NEW s \in Statuses,
           NEW sync \in BOOLEAN,
           TryToCompleteCurrent(c, h, s, sync),
           current \in Irps,
           \A d \in Contexts : ~Starting(d),
           armed' = [x \in Sources |-> FALSE],
           s # "pending",
           s = "success" \/ lastCount' = ReadComplete =>
               ~armed["isr"] /\ info[current] = length[current],
           s = "cancelled" \/ lastCount' = ReadCancelled => cancel'[current]
    PROVE  OutcomeInv'
<1>. DEFINE grabbed == sync /\ armed["isr"]
            last == ReferencesLeft(h, grabbed) = {}
<1>0. /\ info \in [Irps -> 0..MaxLen] /\ status \in [Irps -> Statuses]
      /\ pc \in [Contexts -> Places]
      /\ current # None
  BY SerialReadAssumption DEF IInv, TypeOK
<1>1. /\ current' = current /\ length' = length
      /\ dpcQueued' = dpcQueued /\ job' = job
      /\ pc' = [pc EXCEPT ![c] = IF last THEN "next" ELSE Back(c)]
      /\ status'[current] = IF last THEN s ELSE status[current]
      /\ info'[current] = IF last /\ s = "cancelled" THEN 0
                          ELSE IF grabbed THEN userSlot ELSE info[current]
  BY <1>0 DEF TryToCompleteCurrent, Go, queueVars
<1>2. armed["isr"] => sync
  <2>1. armed'["isr"] = (armed["isr"] /\ ~sync) /\ ~armed'["isr"]
    BY DEF TryToCompleteCurrent, Sources
  <2>. QED  BY <2>1
<1>. HIDE DEF last
<1>3. CASE last
  <2>1. Starting(c)'
    BY <1>0, <1>1, <1>3 DEF Starting
  <2>2. Honest(c)'
    BY <1>0, <1>1, <1>3 DEF Honest
  <2>. QED  BY <2>1, <2>2, StarterOutcome
<1>4. CASE ~last
  <2>1. pc'[c] \in {"idle", "epilogue"}
        /\ \A d \in Contexts : d # c => pc'[d] = pc[d]
    BY <1>0, <1>1, <1>4 DEF Back
  <2>2. \A d \in Contexts : pc'[d] # "next"
    <3>. SUFFICES ASSUME NEW d \in Contexts, pc'[d] = "next" PROVE FALSE
      OBVIOUS
    <3>1. Starting(d)
      BY <2>1 DEF Starting
    <3>. QED  BY <3>1
  <2>3. Filled' => Filled
    BY <1>1, <2>1 DEF Filled, Handling
  <2>4. Filled' => info'[current] = length[current]
    BY <1>1, <1>4, <2>3, FilledFacts DEF OutcomeInv
  <2>5. lastCount' = ReadComplete => info'[current] = length[current]
    BY <1>1, <1>4
  <2>. QED  BY <1>1, <2>2, <2>4, <2>5 DEF OutcomeInv, HonestOutcome
<1>. QED  BY <1>3, <1>4

\* Every step keeps the outcome honest.
LEMMA OutcomeStep ==
    ASSUME IInv, IInv', OutcomeInv, [Next]_vars
    PROVE  OutcomeInv'
<1>. USE DEF irpVars, queueVars, bufferVars, sourceVars, contextVars
<1>0. /\ cancel \in [Irps -> BOOLEAN]
      /\ length \in [Irps -> 0..MaxLen]
      /\ info \in [Irps -> 0..MaxLen]
      /\ status \in [Irps -> Statuses]
      /\ lastCount \in ReadComplete..MaxLen
      /\ dpcQueued \in [Dpcs -> BOOLEAN]
      /\ pc \in [Contexts -> Places]
      /\ job \in [Contexts -> Dpcs \cup {None}]
      /\ timeouts \in [Contexts -> TimeoutSettings \cup {None}]
  BY DEF IInv, TypeOK
<1>00. /\ {"isr", "total", "interval", "cancel"} \subseteq RefTypes
           /\ {"success", "timeout", "cancelled"} \subseteq Statuses
           /\ "pending" \notin {"success", "timeout", "cancelled"}
           /\ "success" \notin {"timeout", "cancelled"}
           /\ "cancelled" # "timeout"
           /\ ReadComplete \notin {ReadTotal, ReadCancelled}
           /\ ReadCancelled # ReadTotal
  BY DEF RefTypes, Sources, Timers, Statuses, ReadComplete, ReadCancelled,
         ReadTotal
<1>1. CASE UNCHANGED vars
  BY <1>1, OutcomeKeptStep
  DEF OutcomeKept, Filled, Handling, Starting, vars
<1>2. ASSUME NEW i \in Irps, RefuseAtDispatch(i)
      PROVE  OutcomeInv'
  BY <1>0, <1>2, OutcomeKeptStep
  DEF OutcomeKept, Filled, Handling, Starting, RefuseAtDispatch, Refuse, Fresh
<1>3. ASSUME NEW i \in Irps, QueueAtDispatch(i)
      PROVE  OutcomeInv'
  BY <1>0, <1>3, OutcomeKeptStep
  DEF OutcomeKept, Filled, Handling, Starting, QueueAtDispatch, Arrive, Fresh
<1>4. ASSUME NEW i \in Irps, CancelledAtDispatch(i)
      PROVE  OutcomeInv'
  BY <1>0, <1>4, OutcomeKeptStep
  DEF OutcomeKept, Filled, Handling, Starting, CancelledAtDispatch, Arrive,
      Refuse, Fresh
<1>5. ASSUME NEW i \in Irps, FlagCancel(i)
      PROVE  OutcomeInv'
  BY <1>0, <1>5, OutcomeKeptStep
  DEF OutcomeKept, Filled, Handling, Starting, FlagCancel
<1>6. ASSUME NEW n \in 1..Len(queue), CancelQueued(n),
             UNCHANGED <<pc, job, timeouts>>
      PROVE  OutcomeInv'
  <2>1. queue[n] # current /\ queue[n] \in Irps
    BY <1>6, WithdrawFacts
  <2>. QED  BY <1>0, <1>6, <2>1, OutcomeKeptStep
       DEF OutcomeKept, Filled, Handling, Starting, CancelQueued, Refuse
<1>7. ASSUME NEW i \in Irps, CancelQueuedIrp(i)
      PROVE  OutcomeInv'
  <2>1. queue \in Seq(Irps)
    BY DEF IInv, TypeOK
  <2>2. PICK n \in DOMAIN queue : CancelQueued(n)
    BY <1>7 DEF CancelQueuedIrp
  <2>3. n \in 1..Len(queue)
    BY <2>1, <2>2, LenProperties
  <2>. QED  BY <1>7, <1>6, <2>2, <2>3 DEF CancelQueuedIrp
<1>8. ASSUME NEW c \in Contexts, KillQueued(c)
      PROVE  OutcomeInv'
  <2>1. queue \in Seq(Irps) /\ queue # <<>>
    BY <1>8 DEF KillQueued, IInv, TypeOK
  <2>2. Len(queue) \in 1..Len(queue)
    BY <2>1, LenProperties, EmptySeq
  <2>. QED  BY <1>8, <1>6, <2>2 DEF KillQueued
<1>9. ASSUME NEW c \in Threads, NEW i \in Irps, StartAtDispatch(c, i)
      PROVE  OutcomeInv'
  <2>1. c \in Contexts
    BY DEF Contexts
  <2>2. Starting(c)' /\ Honest(c)'
    BY <1>0, <1>9, <2>1 DEF StartAtDispatch, Go, Starting, Honest
  <2>. QED  BY <2>1, <2>2, StarterOutcome
<1>10. ASSUME NEW c \in Threads, KillAll(c)
      PROVE  OutcomeInv'
  BY <1>0, <1>10, OutcomeKeptStep
  DEF OutcomeKept, Filled, Handling, Starting, KillAll, AtPlace, Go, Contexts
<1>11. ASSUME NEW c \in Contexts, ResizeBuffer(c)
      PROVE  OutcomeInv'
  <2>1. Starting(c)'
    BY <1>0, <1>11 DEF ResizeBuffer, Go, Starting
  <2>2. Honest(c)'
    BY <1>0, <1>11 DEF ResizeBuffer, Go, Honest
  <2>. QED  BY <2>1, <2>2, StarterOutcome
<1>12. ASSUME NEW c \in Contexts, StartCopy(c)
      PROVE  OutcomeInv'
  <2>1. Starting(c)'
    BY <1>0, <1>12 DEF StartCopy, Go, Starting
  <2>2. Honest(c)'
    BY <1>0, <1>12 DEF StartCopy, Go, Honest
  <2>. QED  BY <2>1, <2>2, StarterOutcome
<1>13. ASSUME NEW c \in Contexts, FinishAtOnce(c)
      PROVE  OutcomeInv'
  <2>1. Starting(c)'
    BY <1>0, <1>13 DEF FinishAtOnce, Go, Starting
  <2>2. /\ current \in Irps
        /\ timeouts[c] \in TimeoutSettings
        /\ info[current] + needed = length[current]
        /\ info[current] \in 0..MaxLen
    BY <1>0, <1>13
    DEF FinishAtOnce, AtPlace, IInv, StarterInv, LengthInv, Starting, TypeOK
  <2>3. needed = 0 => info[current] = length[current]
    BY <2>2, SerialReadAssumption
  <2>4. info[current] # 0 => info[current] > 0
    BY <2>2, SerialReadAssumption
  <2>5. Honest(c)'
    BY <1>0, <1>13, <2>2, <2>3, <2>4, SerialReadAssumption
    DEF FinishAtOnce, Satisfied, Honest
  <2>. QED  BY <2>1, <2>5, StarterOutcome
<1>14. ASSUME NEW c \in Contexts, FinishCancelled(c)
      PROVE  OutcomeInv'
  <2>1. Starting(c)'
    BY <1>0, <1>14 DEF FinishCancelled, Go, Starting
  <2>2. current \in Irps
    BY <1>0, <1>14
    DEF FinishCancelled, AtPlace, IInv, StarterInv, Starting, TypeOK
  <2>3. Honest(c)'
    BY <1>0, <1>14, <2>2 DEF FinishCancelled, Honest
  <2>. QED  BY <2>1, <2>3, StarterOutcome
<1>15. ASSUME NEW c \in Contexts, FinishAtSwitch(c)
      PROVE  OutcomeInv'
  <2>1. Starting(c)'
    BY <1>0, <1>15 DEF FinishAtSwitch, Go, Starting
  <2>2. /\ current \in Irps
        /\ info[current] + needed = length[current]
        /\ CrunchDownToOne(timeouts[c]) => info[current] = 0
    BY <1>15, CopyFacts DEF FinishAtSwitch
  <2>3. info[current] + Wanted(c) =
            IF CrunchDownToOne(timeouts[c]) THEN 1 ELSE length[current]
    BY <1>0, <2>2 DEF Wanted
  <2>4. /\ info'[current] = info[current] + Wanted(c)
        /\ length'[current] =
               IF CrunchDownToOne(timeouts[c]) THEN 1 ELSE length[current]
        /\ status'[current] = "success"
        /\ current' = current
    BY <1>0, <1>15, <2>2 DEF FinishAtSwitch, SecondCopy, queueVars
  <2>5. Honest(c)'
    BY <2>3, <2>4 DEF Honest
  <2>. QED  BY <2>1, <2>5, StarterOutcome
<1>16. ASSUME NEW c \in Contexts, SwitchToUser(c)
      PROVE  OutcomeInv'
  <2>1. /\ \A d \in Contexts : ~Starting(d)'
        /\ armed'["isr"]
    BY <1>16, SwitchFacts DEF Sources
  <2>2. ~Filled'
    BY <2>1, NotFilled
  <2>3. info[current] + Got(c) \in 0..MaxLen
    BY <1>16, CopyTypes DEF SwitchToUser
  <2>4. lastCount' \notin {ReadComplete, ReadCancelled}
    BY <1>16, <2>3, SerialReadAssumption
    DEF SwitchToUser, ReadComplete, ReadCancelled
  <2>5. \A d \in Contexts : pc'[d] # "next"
    BY <2>1 DEF Starting
  <2>. QED  BY <2>2, <2>4, <2>5 DEF OutcomeInv, HonestOutcome
<1>17. ASSUME NEW c \in Contexts, GetNextIrp(c)
      PROVE  OutcomeInv'
  <2>1. Starting(c)'
    BY <1>0, <1>17 DEF GetNextIrp, Go, Starting
  <2>2. Honest(c)'
    BY <1>0, <1>17 DEF GetNextIrp, Go, Honest
  <2>. QED  BY <2>1, <2>2, StarterOutcome
<1>18. ASSUME NEW c \in Contexts, GetNoIrp(c)
      PROVE  OutcomeInv'
  BY <1>18, IdleOutcome DEF GetNoIrp
<1>19. ASSUME NEW c \in Contexts, IntervalRearm(c)
      PROVE  OutcomeInv'
  <2>1. lastCount' = lastCount \/ lastCount' \in Nat
    <3>1. readByIsr \in 0..MaxLen
      BY DEF IInv, TypeOK
    <3>. QED  BY <1>19, <3>1, SerialReadAssumption DEF IntervalRearm
  <2>. QED  BY <1>0, <1>19, <2>1, OutcomeKeptStep
       DEF OutcomeKept, Filled, Handling, Starting, IntervalRearm, Runs,
           AtPlace, Go
<1>20. ASSUME NEW c \in Contexts, IntervalExpired(c)
      PROVE  OutcomeInv'
  BY <1>0, <1>20, OutcomeKeptStep
  DEF OutcomeKept, Filled, Handling, Starting, IntervalExpired, Runs,
      AtPlace, Go
<1>21. ASSUME NEW c \in Contexts, DpcEpilogue(c)
      PROVE  OutcomeInv'
  BY <1>0, <1>21, OutcomeKeptStep, SerialReadAssumption
  DEF OutcomeKept, Filled, Handling, Starting, DpcEpilogue, AtPlace, Go
<1>22. ASSUME NEW c \in Contexts, KillDone(c)
      PROVE  OutcomeInv'
  <2>1. current # None => (cancel[current] => cancel'[current])
    <3>1. current \in Irps \cup {None}
      BY DEF IInv, TypeOK
    <3>. QED  BY <1>22, <3>1 DEF KillDone
  <2>. QED  BY <1>0, <1>22, <2>1, OutcomeKeptStep
       DEF OutcomeKept, Filled, Handling, Starting, KillDone, AtPlace, Go, Back
<1>23. ASSUME NEW t \in Timers, Expire(t)
      PROVE  OutcomeInv'
  BY <1>0, <1>23, OutcomeKeptStep
  DEF OutcomeKept, Filled, Handling, Starting, Expire, Timers
<1>24. ASSUME NEW c \in Cpus, NEW d \in Dpcs, Deliver(c, d)
      PROVE  OutcomeInv'
  <2>1. c \in Contexts
    BY DEF Contexts
  <2>2. Filled' => Filled
    BY <1>0, <1>24, <2>1 DEF Deliver, Filled, Handling, AtPlace, Go
  <2>. QED  BY <1>0, <1>24, <2>1, <2>2, OutcomeKeptStep
       DEF OutcomeKept, Starting, Deliver, AtPlace, Go
<1>25. ASSUME PutCharInUserBuffer
      PROVE  OutcomeInv'
  <2>1. /\ current \in Irps
        /\ \A c \in Contexts : ~Starting(c)
        /\ lastCount >= 0
    <3>1. Holds("isr") /\ "isr" \in Sources
      BY <1>25 DEF PutCharInUserBuffer, Holds, Sources
    <3>. QED  BY <1>25, <3>1
         DEF PutCharInUserBuffer, IInv, RefsMatchHolders, LengthInv,
             IntervalMarkCurrent, TypeOK
  <2>2. \A c \in Contexts : pc'[c] # "next"
    BY <1>25, <2>1 DEF PutCharInUserBuffer, Starting
  <2>3. lastCount' \notin {ReadComplete, ReadCancelled}
    BY <1>25, <2>1 DEF PutCharInUserBuffer, ReadComplete, ReadCancelled
  <2>4. Filled' => info'[current'] = length'[current']
    <3>1. CASE UNCHANGED armed
      BY <1>25, <3>1, NotFilled DEF PutCharInUserBuffer
    <3>2. CASE info' = [info EXCEPT ![current] = length[current]]
      BY <1>0, <1>25, <2>1, <3>2 DEF PutCharInUserBuffer
    <3>. QED  BY <1>25, <3>1, <3>2 DEF PutCharInUserBuffer
  <2>. QED  BY <2>2, <2>3, <2>4 DEF OutcomeInv, HonestOutcome
<1>26. ASSUME PutCharInInterruptBuffer
      PROVE  OutcomeInv'
  BY <1>0, <1>26, OutcomeKeptStep
  DEF OutcomeKept, Filled, Handling, Starting, PutCharInInterruptBuffer
<1>27. ASSUME ReportError
      PROVE  OutcomeInv'
  BY <1>0, <1>27, OutcomeKeptStep
  DEF OutcomeKept, Filled, Handling, Starting, ReportError, InsertQueueDpc,
      Dpcs, Sources
<1>28. ASSUME PurgeInterruptBuffer
      PROVE  OutcomeInv'
  BY <1>0, <1>28, OutcomeKeptStep
  DEF OutcomeKept, Filled, Handling, Starting, PurgeInterruptBuffer
<1>29. ASSUME NEW c \in Contexts, CompleteRead(c)
      PROVE  OutcomeInv'
  <2>0. /\ current \in Irps
        /\ \A d \in Contexts : ~Starting(d)
        /\ armed' = [x \in Sources |-> FALSE]
    BY <1>29, EndingStep DEF Ends
  <2>1. TryToCompleteCurrent(c, "isr", "success", FALSE)
    BY <1>29 DEF CompleteRead
  <2>2. lastCount' = ReadComplete /\ ~armed["isr"]
        /\ info[current] = length[current]
    <3>1. Filled
      BY <1>29 DEF CompleteRead, Runs, AtPlace, Filled, Handling
    <3>. QED  BY <1>29, <3>1, FilledFacts DEF CompleteRead, OutcomeInv
  <2>. QED
    BY <1>29, <1>00, <2>1, <2>2, <2>0, EndingOutcome
<1>30. ASSUME NEW c \in Contexts, ReadTimeout(c)
      PROVE  OutcomeInv'
  <2>0. /\ current \in Irps
        /\ \A d \in Contexts : ~Starting(d)
        /\ armed' = [x \in Sources |-> FALSE]
    BY <1>30, EndingStep DEF Ends
  <2>1. TryToCompleteCurrent(c, "total", "timeout", TRUE)
    BY <1>30 DEF ReadTimeout
  <2>2. lastCount' = ReadTotal
    BY <1>30 DEF ReadTimeout
  <2>. QED
    BY <1>30, <1>00, <2>1, <2>2, <2>0, EndingOutcome
<1>31. ASSUME NEW c \in Contexts, IntervalAfterEnd(c)
      PROVE  OutcomeInv'
  <2>1. /\ current \in Irps
        /\ \A d \in Contexts : ~Starting(d)
        /\ armed' = [x \in Sources |-> FALSE]
    BY <1>31, EndingStep DEF Ends
  <2>2. /\ lastCount' = lastCount /\ cancel' = cancel
        /\ lastCount \in {ReadCancelled, ReadTotal, ReadComplete}
        /\ ~armed["isr"]
    <3>1. lastCount < 0 /\ lastCount \in ReadComplete..MaxLen
      BY <1>0, <1>31 DEF IntervalAfterEnd
    <3>2. lastCount \in {ReadCancelled, ReadTotal, ReadComplete}
      BY <3>1, SerialReadAssumption
      DEF ReadCancelled, ReadTotal, ReadComplete
    <3>3. armed["isr"] => lastCount >= 0
      BY DEF IInv, LengthInv, IntervalMarkCurrent
    <3>4. ~armed["isr"]
      BY <3>1, <3>3, SerialReadAssumption DEF ReadComplete
    <3>. QED  BY <1>31, <3>2, <3>4 DEF IntervalAfterEnd
  <2>3. /\ lastCount = ReadComplete => info[current] = length[current]
        /\ lastCount = ReadCancelled => cancel[current]
    BY <2>1, SerialReadAssumption DEF OutcomeInv
  <2>4. PICK s :
            /\ TryToCompleteCurrent(c, "interval", s, TRUE)
            /\ s = CASE lastCount = ReadTotal -> "timeout"
                   [] lastCount = ReadComplete -> "success"
                   [] lastCount = ReadCancelled -> "cancelled"
    BY <1>31 DEF IntervalAfterEnd
  <2>5. /\ lastCount = ReadTotal => s = "timeout"
        /\ lastCount = ReadComplete => s = "success"
        /\ lastCount = ReadCancelled => s = "cancelled"
    BY <2>4 DEF ReadCancelled, ReadTotal, ReadComplete
  <2>6. /\ s \in {"success", "timeout", "cancelled"}
        /\ s = "success" => lastCount = ReadComplete
        /\ s = "cancelled" => lastCount = ReadCancelled
    BY <2>2, <2>5
  <2>7. /\ s = "success" \/ lastCount' = ReadComplete =>
               ~armed["isr"] /\ info[current] = length[current]
        /\ s = "cancelled" \/ lastCount' = ReadCancelled => cancel'[current]
    BY <2>2, <2>3, <2>6
  <2>. QED  BY <1>00, <2>1, <2>4, <2>6, <2>7, EndingOutcome
<1>32. ASSUME NEW c \in Contexts, IntervalKill(c)
      PROVE  OutcomeInv'
  <2>1. TryToCompleteCurrent(c, "interval", "timeout", TRUE)
    BY <1>32 DEF IntervalKill
  <2>2. /\ current \in Irps
        /\ \A d \in Contexts : ~Starting(d)
        /\ armed' = [x \in Sources |-> FALSE]
    BY <1>32, EndingStep DEF Ends
  <2>3. lastCount' = lastCount /\ cancel' = cancel
    BY <1>32 DEF IntervalKill
  <2>4. /\ lastCount = ReadComplete => info[current] = length[current]
        /\ lastCount = ReadCancelled => cancel[current]
        /\ lastCount = ReadComplete => ~armed["isr"]
    BY <2>2, SerialReadAssumption
    DEF OutcomeInv, IInv, LengthInv, IntervalMarkCurrent, ReadComplete
  <2>. QED
    BY <2>1, <2>2, <2>3, <2>4, <1>00, EndingOutcome
<1>33. ASSUME NEW c \in Contexts, CancelCurrentRead(c), Ends(c)
      PROVE  OutcomeInv'
  <2>1. TryToCompleteCurrent(c, "cancel", "cancelled", TRUE)
    BY <1>33 DEF CancelCurrentRead
  <2>2. /\ current \in Irps
        /\ \A d \in Contexts : ~Starting(d)
        /\ armed' = [x \in Sources |-> FALSE]
    BY <1>33, EndingStep
  <2>3. lastCount' = ReadCancelled /\ cancel'[current]
    BY <1>0, <1>33, <2>2 DEF CancelCurrentRead
  <2>. QED
    BY <2>1, <2>2, <2>3, <1>00, EndingOutcome
<1>34. ASSUME NEW c \in Contexts, KillCurrent(c)
      PROVE  OutcomeInv'
  BY <1>33, <1>34 DEF KillCurrent, Ends
<1>35. ASSUME NEW c \in Threads, NEW i \in Irps, CancelCurrentIrp(c, i)
      PROVE  OutcomeInv'
  BY <1>33, <1>35 DEF CancelCurrentIrp, Ends, Contexts
<1>. QED
  BY <1>1, <1>2, <1>3, <1>4, <1>5, <1>7, <1>8, <1>9, <1>10, <1>11, <1>12,
     <1>13, <1>14, <1>15, <1>16, <1>17, <1>18, <1>19, <1>20, <1>21, <1>22,
     <1>23, <1>24, <1>25, <1>26, <1>27, <1>28, <1>29, <1>30, <1>31, <1>32,
     <1>34, <1>35
  DEF Next, Work, StartRead, IntervalReadTimeout, Dispatch

-----------------------------------------------------------------------------
(* The theorems. *)

\* The driver starts in the inductive invariant.
LEMMA InitIInv == Init => IInv
<1>. SUFFICES ASSUME Init PROVE IInv
  OBVIOUS
<1>. USE SerialReadAssumption DEF Init
<1>1. TypeOK
  <2>1. <<>> \in Seq(Irps) /\ "pending" \in Statuses /\ "idle" \in Places
    BY EmptySeq DEF Statuses, Places
  <2>. QED  BY <2>1 DEF TypeOK, ReadComplete
<1>2. QueueInv
  <2>1. Len(queue) = 0
    BY EmptySeq
  <2>. QED  BY <2>1 DEF QueueInv
<1>3. \A c \in Contexts : pc[c] = "idle" /\ job[c] = None /\ lock # c
  BY DEF Contexts
<1>4. ContextInv /\ StarterInv
  BY <1>3 DEF ContextInv, StarterInv, Starting
<1>5. \A c \in Contexts, s \in Sources : ~Handling(c, s)
  BY <1>3 DEF Handling
<1>6. SourceInv /\ RefsMatchHolders
  BY <1>5 DEF SourceInv, RefsMatchHolders, Holds, Sources, Timers, Dpcs
<1>7. LengthInv
  BY <1>3 DEF LengthInv, IntervalMarkCurrent, Sources
<1>8. CancelNotMissed
  BY DEF CancelNotMissed
<1>. QED  BY <1>1, <1>2, <1>4, <1>6, <1>7, <1>8 DEF IInv

\* IInv is inductive, so it holds in every reachable state.
THEOREM Inductive == Spec => []IInv
<1>1. IInv /\ [Next]_vars => IInv'
  BY TypeOKStep, QueueInvStep, ContextInvStep, SourceInvStep, StarterInvStep,
     RefsMatchHoldersStep, LengthInvStep, CancelNotMissedStep DEF IInv
<1>. QED  BY InitIInv, <1>1, PTL DEF Spec

\* The types, and with them the bounds on every count of characters.
THEOREM TypeCorrect == Spec => []TypeOK
<1>1. IInv => TypeOK
  BY DEF IInv
<1>. QED  BY Inductive, <1>1, PTL

\* SerialStartRead and SerialGetNextIrp run for one read at a time.
THEOREM OneStarterAlways == Spec => []OneStarter
<1>1. IInv => OneStarter
  BY DEF IInv, StarterInv, OneStarter
<1>. QED  BY Inductive, <1>1, PTL

\* The reference mask of the current read is the set of parties that can
\* still reach it.
THEOREM ReferencesExact == Spec => []RefsMatchHolders
<1>1. IInv => RefsMatchHolders
  BY DEF IInv
<1>. QED  BY Inductive, <1>1, PTL

\* A completed request is never touched again.
THEOREM CompletedIsGone == Spec => []NoUseAfterCompletion
<1>1. IInv => NoUseAfterCompletion
  <2>. SUFFICES ASSUME IInv, NEW i \in Irps, completions[i] > 0
                PROVE  /\ completions[i] = 1
                       /\ current # i
                       /\ i \notin Range(queue)
                       /\ refs[i] = {}
                       /\ routine[i] = "none"
    BY DEF NoUseAfterCompletion
  <2>0. completions[i] # 0
    OBVIOUS
  <2>1. completions[i] = 1
    BY <2>0 DEF IInv, QueueInv
  <2>2. current # i
    BY <2>0, SerialReadAssumption DEF IInv, QueueInv
  <2>3. routine[i] \in {"none", "queued", "current"} /\ queue \in Seq(Irps)
    BY DEF IInv, TypeOK
  <2>4. routine[i] = "none"
    BY <2>0, <2>2, <2>3 DEF IInv, QueueInv
  <2>5. \A n \in 1..Len(queue) : queue[n] # i
    BY <2>4 DEF IInv, QueueInv
  <2>6. i \notin Range(queue)
    BY <2>3, <2>5, RangeEntries
  <2>7. refs[i] = {}
    BY <2>2 DEF IInv, QueueInv
  <2>. QED  BY <2>1, <2>2, <2>4, <2>6, <2>7
<1>. QED  BY Inductive, <1>1, PTL

\* A cancelled request never waits with an uncalled cancel routine.
THEOREM CancelNeverMissed == Spec => []CancelNotMissed
<1>1. IInv => CancelNotMissed
  BY DEF IInv
<1>. QED  BY Inductive, <1>1, PTL

\* The assertion of SerialUpdateInterruptBuffer never fails.
THEOREM CopyCounted == Spec => []CopyStillCounted
<1>1. IInv => CopyStillCounted
  BY DEF IInv, LengthInv, CopyStillCounted
<1>. QED  BY Inductive, <1>1, PTL

\* CountOnLastRead and ReadByIsr are about the read the ISR owns.
THEOREM IntervalMarkAlwaysCurrent == Spec => []IntervalMarkCurrent
<1>1. IInv => IntervalMarkCurrent
  BY DEF IInv, LengthInv
<1>. QED  BY Inductive, <1>1, PTL

\* DpcCount is exact: it counts each set timer, each queued DPC and each
\* running DPC once, so close and remove wait for all of them and for no more.
THEOREM DpcCountAlwaysExact == Spec => []DpcCountExact
<1>1. Init => DpcCountInv
  <2>. SUFFICES ASSUME Init PROVE DpcCountInv
    OBVIOUS
  <2>1. SetNow = {} /\ QueuedNow = {} /\ RunningNow = {}
    BY DEF Init, SetNow, QueuedNow, RunningNow, Sources
  <2>2. IsFiniteSet({}) /\ Cardinality({}) = 0
    BY FS_EmptySet
  <2>3. dpcCount = 1 + Cardinality(SetNow) + Cardinality(QueuedNow)
                     + Cardinality(RunningNow)
    BY <2>1, <2>2 DEF Init
  <2>4. DpcCountExact
    BY <2>3 DEF DpcCountExact, SetNow, QueuedNow, RunningNow
  <2>. QED  BY <2>1, <2>2, <2>4 DEF DpcCountInv
<1>2. IInv /\ DpcCountInv /\ [Next]_vars => DpcCountInv'
  <2>1. IInv => dpcCount \in Int
    BY DEF IInv, TypeOK
  <2>. QED  BY <2>1, CountStep, CountSteps
<1>3. DpcCountInv => DpcCountExact
  BY DEF DpcCountInv
<1>. QED  BY Inductive, <1>1, <1>2, <1>3, PTL DEF Spec

\* A read is reported as it ended: a success is full or was allowed to return
\* early, a cancelled read was cancelled and reports no characters.
THEOREM OutcomeAlwaysHonest == Spec => []HonestOutcome
<1>1. Init => OutcomeInv
  <2>. SUFFICES ASSUME Init PROVE OutcomeInv
    OBVIOUS
  <2>1. \A c \in Contexts : pc[c] = "idle"
    BY DEF Init
  <2>2. ~Filled
    BY <2>1 DEF Filled, Handling, Init, Dpcs, Sources
  <2>3. current = None
    BY DEF Init
  <2>. QED  BY <2>1, <2>2, <2>3 DEF OutcomeInv, HonestOutcome
<1>2. IInv /\ IInv' /\ OutcomeInv /\ [Next]_vars => OutcomeInv'
  BY OutcomeStep
<1>3. OutcomeInv => HonestOutcome
  BY DEF OutcomeInv
<1>. QED  BY Inductive, <1>1, <1>2, <1>3, PTL DEF Spec

\* The read path implements IrpQueue: one active request, first come first
\* served, withdrawal from anywhere, one completion each.
THEOREM Refinement == Spec => ImplementsIrpQueue
<1>. USE DEF ReadQueue!Fresh, Fresh, ReadQueue!Complete, Complete,
             ReadQueue!Range, Range
<1>1. Init => ReadQueue!Init
  BY DEF Init, ReadQueue!Init
<1>2. IInv /\ [Next]_vars => [ReadQueue!Next]_(ReadQueue!vars)
  <2>. SUFFICES ASSUME IInv, [Next]_vars
                PROVE  \/ ReadQueue!Next
                       \/ UNCHANGED <<current, queue, completions>>
    BY DEF ReadQueue!vars
  <2>. DEFINE Stutters == UNCHANGED <<current, queue, completions>>
              Goal == ReadQueue!Next \/ Stutters
  <2>. SUFFICES Goal
    OBVIOUS
  <2>1. CASE UNCHANGED vars
    BY <2>1 DEF vars, irpVars, queueVars
  <2>2. ASSUME NEW i \in Irps,
               RefuseAtDispatch(i) \/ CancelledAtDispatch(i)
        PROVE  Goal
    <3>1. ReadQueue!Refuse(i)
      BY <2>2 DEF RefuseAtDispatch, CancelledAtDispatch, Refuse, queueVars,
                  ReadQueue!Refuse
    <3>. QED  BY <3>1 DEF ReadQueue!Next
  <2>3. ASSUME NEW i \in Irps, QueueAtDispatch(i)  PROVE Goal
    <3>1. current # None
      BY <2>3 DEF QueueAtDispatch, IInv, QueueInv
    <3>2. ReadQueue!Wait(i)
      BY <2>3, <3>1 DEF QueueAtDispatch, ReadQueue!Wait
    <3>. QED  BY <3>2 DEF ReadQueue!Next
  <2>4. ASSUME NEW c \in Threads, NEW i \in Irps, StartAtDispatch(c, i)
        PROVE  Goal
    <3>1. ReadQueue!Start(i)
      BY <2>4 DEF StartAtDispatch, ReadQueue!Start
    <3>. QED  BY <3>1 DEF ReadQueue!Next
  <2>5. ASSUME NEW n \in DOMAIN queue, CancelQueued(n)  PROVE Goal
    <3>1. ReadQueue!Withdraw(n)
      BY <2>5 DEF CancelQueued, Refuse, ReadQueue!Withdraw,
                  ReadQueue!RemoveAt, RemoveAt
    <3>. QED  BY <3>1 DEF ReadQueue!Next
  <2>6. ASSUME NEW i \in Irps, CancelQueuedIrp(i)  PROVE Goal
    BY <2>5, <2>6 DEF CancelQueuedIrp
  <2>7. ASSUME NEW c \in Contexts, KillQueued(c)  PROVE Goal
    <3>1. queue \in Seq(Irps) /\ queue # <<>> /\ CancelQueued(Len(queue))
      BY <2>7 DEF KillQueued, IInv, TypeOK
    <3>2. Len(queue) \in DOMAIN queue
      BY <3>1, LenProperties, EmptySeq
    <3>. QED  BY <2>5, <3>1, <3>2
  <2>8. ASSUME NEW c \in Contexts, GetNextIrp(c) \/ GetNoIrp(c)  PROVE Goal
    <3>1. current # None /\ Complete(current)
      <4>1. FinishCurrent(c)
        BY <2>8 DEF GetNextIrp, GetNoIrp
      <4>. QED  BY <4>1, FinishFacts, SerialReadAssumption DEF FinishCurrent
    <3>2. ReadQueue!Finish
      BY <2>8, <3>1 DEF GetNextIrp, GetNoIrp, ReadQueue!Finish
    <3>. QED  BY <3>2 DEF ReadQueue!Next
  <2>9. ASSUME NEW c \in Contexts,
               \E h \in RefTypes, s \in Statuses, sync \in BOOLEAN :
                   TryToCompleteCurrent(c, h, s, sync)
        PROVE  Goal
    BY <2>9 DEF TryToCompleteCurrent, queueVars
  <2>10. ASSUME NEW c \in Contexts, Ends(c)  PROVE Goal
    BY <2>9, <2>10, EndingStep
  <2>11. ASSUME NEW i \in Irps, FlagCancel(i)  PROVE Goal
    BY <2>11 DEF FlagCancel, queueVars
  <2>12. ASSUME NEW c \in Contexts,
                \/ KillAll(c) \/ ResizeBuffer(c) \/ StartCopy(c)
                \/ FinishAtOnce(c) \/ FinishCancelled(c)
                \/ FinishAtSwitch(c) \/ SwitchToUser(c)
                \/ IntervalRearm(c) \/ IntervalExpired(c) \/ DpcEpilogue(c)
                \/ KillDone(c)
         PROVE  Goal
    <3>1. CASE KillAll(c) \/ ResizeBuffer(c) \/ StartCopy(c) \/ KillDone(c)
      BY <3>1
      DEF KillAll, ResizeBuffer, StartCopy, KillDone, irpVars, queueVars
    <3>2. CASE FinishAtOnce(c) \/ FinishCancelled(c)
      BY <3>2 DEF FinishAtOnce, FinishCancelled, queueVars
    <3>3. CASE FinishAtSwitch(c) \/ SwitchToUser(c)
      BY <3>3 DEF FinishAtSwitch, SwitchToUser, SecondCopy, queueVars
    <3>4. CASE IntervalRearm(c) \/ IntervalExpired(c) \/ DpcEpilogue(c)
      BY <3>4 DEF IntervalRearm, IntervalExpired, DpcEpilogue, irpVars,
                  queueVars
    <3>. QED  BY <2>12, <3>1, <3>2, <3>3, <3>4
  <2>13. ASSUME NEW t \in Timers, Expire(t)  PROVE Goal
    BY <2>13 DEF Expire, irpVars, queueVars
  <2>14. ASSUME NEW c \in Cpus, NEW d \in Dpcs, Deliver(c, d)  PROVE Goal
    BY <2>14 DEF Deliver, irpVars, queueVars
  <2>15. ASSUME \/ PutCharInUserBuffer \/ PutCharInInterruptBuffer
                \/ ReportError \/ PurgeInterruptBuffer
         PROVE  Goal
    BY <2>15 DEF PutCharInUserBuffer, PutCharInInterruptBuffer, ReportError,
                 PurgeInterruptBuffer, irpVars, queueVars
  <2>. HIDE DEF Goal
  <2>16. ASSUME NEW c \in Contexts, Work(c)  PROVE Goal
    BY <2>7, <2>8, <2>10, <2>12, <2>16
    DEF Work, StartRead, IntervalReadTimeout, Ends
  <2>17. ASSUME NEW c \in Threads, NEW i \in Irps, CancelCurrentIrp(c, i)
         PROVE  Goal
    BY <2>10, <2>17 DEF Ends, Contexts
  <2>18. Threads \subseteq Contexts
    BY DEF Contexts
  <2>. QED
    BY <2>1, <2>2, <2>3, <2>4, <2>6, <2>11, <2>12, <2>13, <2>14, <2>15,
       <2>16, <2>17, <2>18
    DEF Next, Dispatch
<1>. QED
  BY Inductive, <1>1, <1>2, PTL DEF Spec, ImplementsIrpQueue, ReadQueue!Spec
=============================================================================
