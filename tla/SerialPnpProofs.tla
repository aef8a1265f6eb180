--------------------------- MODULE SerialPnpProofs ---------------------------
(***************************************************************************)
(* Proofs about SerialPnp for any set of requests: what holds whatever PnP *)
(* requests are sent (IInv), and the exact count of a port to which only   *)
(* queries, their cancellations and the remove are sent (CountInv).        *)
(*                                                                         *)
(* Each part of an invariant has a lemma <part>Step with one step per      *)
(* action.  Most actions move one request (MoveFacts) and leave the stall  *)
(* queue alone (Quiet).  For the count, InDriverKept sorts the steps: all  *)
(* but Passage keep the set of requests in the driver.                     *)
(***************************************************************************)
EXTENDS SerialPnp, QueueLemmas, FiniteSetTheorems

\* The places of requests and of the PnP request, one by one.
LEMMA PlaceNames ==
    /\ {"counted", "stalling", "stalled", "accepted", "rejected", "pending",
        "opened", "done", "leaving", "dropped"} \subseteq Places
    /\ {"outside", "dispatched", "checked", "signal", "gone"} \subseteq Places
    /\ {"idle", "entered", "kill", "entry", "drain", "wait", "drained",
        "unstall", "dispatch", "leave", "signal"} \subseteq PnpPlaces
  BY DEF Places, Counted, PnpPlaces

\* Moving a request changes its place and no other's.
LEMMA MoveFacts ==
    ASSUME TypeOK, NEW i \in Irps, NEW p \in Places, Move(i, p)
    PROVE  /\ place' \in [Irps -> Places]
           /\ place'[i] = p
           /\ \A j \in Irps : j # i => place'[j] = place[j]
  BY DEF TypeOK, Move

\* The stall queue holds requests.
LEMMA RangeInIrps ==
    ASSUME NEW q \in Seq(Irps) PROVE \A j \in Range(q) : j \in Irps
  BY LenProperties DEF Range

\* The variables that are counted with.
CountsTyped == /\ pendingIRPCnt \in Int
               /\ openCount \in 0..1
               /\ completions \in [Irps -> Nat]

\* The counts stay numbers.
LEMMA CountTypes == TypeOK /\ [Next]_vars => CountsTyped'
<1>. SUFFICES ASSUME TypeOK, [Next]_vars PROVE CountsTyped'
  OBVIOUS
<1>. USE DEF CountsTyped, vars, gateVars, openVars, countVars, irpVars, pnpVars
<1>0. CountsTyped
  BY DEF TypeOK
<1>1. ASSUME NEW i \in Irps, Submit(i) PROVE CountsTyped'
  BY <1>0, <1>1 DEF Submit, Move, At
<1>2. ASSUME NEW i \in Irps, CheckCreate(i) PROVE CountsTyped'
  BY <1>0, <1>2 DEF CheckCreate, Complete, Move, At
<1>3. ASSUME NEW i \in Irps, Prologue(i) PROVE CountsTyped'
  BY <1>0, <1>3 DEF Prologue, Move, At
<1>4. ASSUME NEW i \in Irps, Filter(i) PROVE CountsTyped'
  BY <1>0, <1>4 DEF Filter, Move, At
<1>5. ASSUME NEW i \in Irps, Stall(i) PROVE CountsTyped'
  BY <1>0, <1>5 DEF Stall, Move, At
<1>6. ASSUME NEW i \in Irps, Cancel(i) PROVE CountsTyped'
  BY <1>0, <1>6 DEF Cancel, Move, At
<1>7. ASSUME NEW i \in Irps, Open(i) PROVE CountsTyped'
  BY <1>0, <1>7 DEF Open, Move, At
<1>8. ASSUME NEW i \in Irps, Close(i) PROVE CountsTyped'
  BY <1>0, <1>8 DEF Close, Move, At
<1>9. ASSUME NEW i \in Irps, Perform(i) PROVE CountsTyped'
  BY <1>0, <1>9 DEF Perform, Move, At
<1>10. ASSUME NEW i \in Irps, EndPending(i) PROVE CountsTyped'
  BY <1>0, <1>10 DEF EndPending, Move, At
<1>11. ASSUME NEW i \in Irps, CompleteRequest(i) PROVE CountsTyped'
  BY <1>0, <1>11 DEF CompleteRequest, Complete, Move, At
<1>12. ASSUME NEW i \in Irps, Epilogue(i) PROVE CountsTyped'
  BY <1>0, <1>12 DEF Epilogue, Move, At
<1>13. ASSUME NEW i \in Irps, Signal(i) PROVE CountsTyped'
  BY <1>0, <1>13 DEF Signal, Move, At
<1>14. ASSUME NEW o \in PnpOps, Enter(o) PROVE CountsTyped'
  BY <1>0, <1>14 DEF Enter
<1>15. CASE QueryStop
  BY <1>0, <1>15 DEF QueryStop, GrantQuery, RefuseQuery, Answer
<1>16. CASE QueryRemove
  BY <1>0, <1>16 DEF QueryRemove, GrantQuery, RefuseQuery, Answer
<1>17. CASE CancelStop
  BY <1>0, <1>17 DEF CancelStop, Answer
<1>18. CASE CancelRemove
  BY <1>0, <1>18 DEF CancelRemove, Answer
<1>19. CASE Stop
  BY <1>0, <1>19 DEF Stop, PnpGo
<1>20. CASE SurpriseRemoval
  BY <1>0, <1>20 DEF SurpriseRemoval, PnpGo
<1>21. CASE RemoveDevice
  BY <1>0, <1>21 DEF RemoveDevice, PnpGo
<1>22. CASE KillPendingIrps
  BY <1>0, <1>22 DEF KillPendingIrps
<1>23. CASE DecrementForEntry
  BY <1>0, <1>23 DEF DecrementForEntry, PnpGo
<1>24. CASE DecrementPlaceholder
  BY <1>0, <1>24 DEF DecrementPlaceholder, PnpGo
<1>25. CASE WaitForPendingIrps
  BY <1>0, <1>25 DEF WaitForPendingIrps, PnpGo
<1>26. CASE FinishStop
  BY <1>0, <1>26 DEF FinishStop
<1>27. CASE FinishSurpriseRemoval
  BY <1>0, <1>27 DEF FinishSurpriseRemoval
<1>28. CASE FinishRemove
  BY <1>0, <1>28 DEF FinishRemove
<1>29. CASE StartFailsBelow
  BY <1>0, <1>29 DEF StartFailsBelow, Answer
<1>30. CASE RestartWithoutMemory
  BY <1>0, <1>30 DEF RestartWithoutMemory, Answer
<1>31. CASE Restart
  BY <1>0, <1>31 DEF Restart, PnpGo
<1>32. CASE UnstallIrp
  BY <1>0, <1>32 DEF UnstallIrp, Move
<1>33. CASE DispatchReturns
  BY <1>0, <1>33 DEF DispatchReturns
<1>34. CASE Restarted
  BY <1>0, <1>34 DEF Restarted
<1>35. CASE Leave
  BY <1>0, <1>35 DEF Leave
<1>36. CASE LeaveSignal
  BY <1>0, <1>36 DEF LeaveSignal
<1>37. CASE UNCHANGED vars
  BY <1>0, <1>37
<1>. QED
  BY <1>1, <1>2, <1>3, <1>4, <1>5, <1>6, <1>7, <1>8, <1>9, <1>10, <1>11,
     <1>12, <1>13, <1>14, <1>15, <1>16, <1>17, <1>18, <1>19, <1>20, <1>21,
     <1>22, <1>23, <1>24, <1>25, <1>26, <1>27, <1>28, <1>29, <1>30, <1>31,
     <1>32, <1>33, <1>34, <1>35, <1>36, <1>37
  DEF Next, Serve, ServePnp
\* Every step leaves well-typed values.
LEMMA TypeOKStep == TypeOK /\ [Next]_vars => TypeOK'
<1>. SUFFICES ASSUME TypeOK, [Next]_vars PROVE TypeOK'
  OBVIOUS
<1>. USE PlaceNames
   DEF TypeOK, vars, gateVars, openVars, countVars, irpVars, pnpVars
<1>1. ASSUME NEW i \in Irps, Submit(i) PROVE TypeOK'
  BY <1>1 DEF Submit, Move, At
<1>2. ASSUME NEW i \in Irps, CheckCreate(i) PROVE TypeOK'
  <2>1. place' \in [Irps -> Places]
    BY <1>2 DEF CheckCreate, Move
  <2>. QED  BY <1>2, CountTypes, <2>1 DEF CountsTyped, CheckCreate
<1>3. ASSUME NEW i \in Irps, Prologue(i) PROVE TypeOK'
  <2>1. place' \in [Irps -> Places]
    BY <1>3 DEF Prologue, Move
  <2>. QED  BY <1>3, CountTypes, <2>1 DEF CountsTyped, Prologue
<1>4. ASSUME NEW i \in Irps, Filter(i) PROVE TypeOK'
  <2>1. place' \in [Irps -> Places]
    BY <1>4 DEF Filter, Move
  <2>. QED  BY <1>4, <2>1 DEF Filter
<1>5. ASSUME NEW i \in Irps, Stall(i) PROVE TypeOK'
  <2>1. Append(stalled, i) \in Seq(Irps)
    BY AppendProperties
  <2>2. place' \in [Irps -> Places]
    BY <1>5 DEF Stall, Move
  <2>. QED  BY <1>5, <2>1, <2>2 DEF Stall
<1>6. ASSUME NEW i \in Irps, Cancel(i) PROVE TypeOK'
  <2>1. CASE At(i, "stalled")
    <3>1. PICK n \in DOMAIN stalled : stalled[n] = i /\ stalled' = RemoveAt(stalled, n)
      BY <1>6, <2>1 DEF Cancel
    <3>2. n \in 1..Len(stalled)
      BY <3>1, LenProperties
    <3>3. stalled' \in Seq(Irps)
      BY <3>1, <3>2, RemoveAtShifts
    <3>. QED  BY <1>6, <2>1, <3>3 DEF Cancel, Move, At
  <2>2. CASE ~At(i, "stalled")
    BY <1>6, <2>2 DEF Cancel, At
  <2>. QED  BY <2>1, <2>2
<1>7. ASSUME NEW i \in Irps, Open(i) PROVE TypeOK'
  <2>1. place' \in [Irps -> Places]
    BY <1>7 DEF Open, Move
  <2>2. opened' \in BOOLEAN
    BY <1>7 DEF Open
  <2>. QED  BY <1>7, CountTypes, <2>1, <2>2 DEF CountsTyped, Open
<1>8. ASSUME NEW i \in Irps, Close(i) PROVE TypeOK'
  BY <1>8 DEF Close, Move, At
<1>9. ASSUME NEW i \in Irps, Perform(i) PROVE TypeOK'
  BY <1>9 DEF Perform, Move, At
<1>10. ASSUME NEW i \in Irps, EndPending(i) PROVE TypeOK'
  BY <1>10 DEF EndPending, Move, At
<1>11. ASSUME NEW i \in Irps, CompleteRequest(i) PROVE TypeOK'
  <2>1. place' \in [Irps -> Places]
    BY <1>11 DEF CompleteRequest, Move
  <2>2. handle' \in BOOLEAN
    BY <1>11 DEF CompleteRequest, At
  <2>. QED  BY <1>11, CountTypes, <2>1, <2>2 DEF CountsTyped, CompleteRequest
<1>12. ASSUME NEW i \in Irps, Epilogue(i) PROVE TypeOK'
  <2>1. place' \in [Irps -> Places]
    BY <1>12 DEF Epilogue, Move
  <2>. QED  BY <1>12, CountTypes, <2>1 DEF CountsTyped, Epilogue
<1>13. ASSUME NEW i \in Irps, Signal(i) PROVE TypeOK'
  BY <1>13 DEF Signal, Move, At
<1>14. ASSUME NEW o \in PnpOps, Enter(o) PROVE TypeOK'
  <2>1. op' \in PnpOps \cup {None} /\ pc' \in PnpPlaces
    BY <1>14 DEF Enter
  <2>. QED  BY <1>14, CountTypes, <2>1 DEF CountsTyped, Enter
<1>15. CASE QueryStop
  BY <1>15 DEF QueryStop, GrantQuery, RefuseQuery, Answer
<1>16. CASE QueryRemove
  BY <1>16 DEF QueryRemove, GrantQuery, RefuseQuery, Answer
<1>17. CASE CancelStop
  BY <1>17 DEF CancelStop, Answer
<1>18. CASE CancelRemove
  BY <1>18 DEF CancelRemove, Answer
<1>19. CASE Stop
  BY <1>19 DEF Stop, PnpGo
<1>20. CASE SurpriseRemoval
  BY <1>20 DEF SurpriseRemoval, PnpGo
<1>21. CASE RemoveDevice
  BY <1>21 DEF RemoveDevice, PnpGo
<1>22. CASE KillPendingIrps
  <2>1. place' \in [Irps -> Places] /\ cancel' \in [Irps -> BOOLEAN]
    BY <1>22 DEF KillPendingIrps
  <2>2. stalled' \in Seq(Irps)
    BY <1>22, EmptySeq DEF KillPendingIrps
  <2>. QED  BY <1>22, <2>1, <2>2 DEF KillPendingIrps
<1>23. CASE DecrementForEntry
  <2>1. op' \in PnpOps \cup {None} /\ pc' \in PnpPlaces
    BY <1>23 DEF DecrementForEntry, PnpGo
  <2>. QED  BY <1>23, CountTypes, <2>1 DEF CountsTyped, DecrementForEntry, PnpGo
<1>24. CASE DecrementPlaceholder
  <2>1. op' \in PnpOps \cup {None} /\ pc' \in PnpPlaces
    BY <1>24 DEF DecrementPlaceholder, PnpGo
  <2>. QED  BY <1>24, CountTypes, <2>1
     DEF CountsTyped, DecrementPlaceholder, PnpGo
<1>25. CASE WaitForPendingIrps
  BY <1>25 DEF WaitForPendingIrps, PnpGo
<1>26. CASE FinishStop
  <2>1. op' \in PnpOps \cup {None} /\ pc' \in PnpPlaces
    BY <1>26 DEF FinishStop
  <2>. QED  BY <1>26, CountTypes, <2>1 DEF CountsTyped, FinishStop
<1>27. CASE FinishSurpriseRemoval
  <2>1. op' \in PnpOps \cup {None} /\ pc' \in PnpPlaces
    BY <1>27 DEF FinishSurpriseRemoval
  <2>. QED  BY <1>27, CountTypes, <2>1 DEF CountsTyped, FinishSurpriseRemoval
<1>28. CASE FinishRemove
  BY <1>28 DEF FinishRemove
<1>29. CASE StartFailsBelow
  BY <1>29 DEF StartFailsBelow, Answer
<1>30. CASE RestartWithoutMemory
  BY <1>30 DEF RestartWithoutMemory, Answer
<1>31. CASE Restart
  BY <1>31 DEF Restart, PnpGo
<1>32. CASE UnstallIrp
  <2>1. Head(stalled) \in Irps /\ Tail(stalled) \in Seq(Irps)
    BY <1>32, HeadTailProperties, EmptySeq DEF UnstallIrp
  <2>. QED  BY <1>32, <2>1 DEF UnstallIrp, Move
<1>33. CASE DispatchReturns
  BY <1>33 DEF DispatchReturns
<1>34. CASE Restarted
  BY <1>34 DEF Restarted
<1>35. CASE Leave
  <2>1. op' \in PnpOps \cup {None} /\ pc' \in PnpPlaces
    BY <1>35 DEF Leave
  <2>. QED  BY <1>35, CountTypes, <2>1 DEF CountsTyped, Leave
<1>36. CASE LeaveSignal
  BY <1>36 DEF LeaveSignal
<1>37. CASE UNCHANGED vars
  BY <1>37
<1>. QED
  BY <1>1, <1>2, <1>3, <1>4, <1>5, <1>6, <1>7, <1>8, <1>9, <1>10, <1>11,
     <1>12, <1>13, <1>14, <1>15, <1>16, <1>17, <1>18, <1>19, <1>20, <1>21,
     <1>22, <1>23, <1>24, <1>25, <1>26, <1>27, <1>28, <1>29, <1>30, <1>31,
     <1>32, <1>33, <1>34, <1>35, <1>36, <1>37
  DEF Next, Serve, ServePnp

-----------------------------------------------------------------------------
(* The stall queue. *)

\* The stall queue and the cancel flags are untouched, and no request comes to
\* the queue or leaves it.
Quiet == /\ UNCHANGED <<stalled, cancel>>
         /\ \A i \in Irps : place'[i] = "stalled" <=> place[i] = "stalled"

\* The stall queue keeps exactly the stalled requests.
LEMMA StallStep == TypeOK /\ StallQueueExact /\ [Next]_vars => StallQueueExact'
<1>. SUFFICES ASSUME TypeOK /\ StallQueueExact, [Next]_vars PROVE StallQueueExact'
  OBVIOUS
<1>. USE DEF vars, gateVars, openVars, countVars, irpVars, pnpVars
<1>0. place \in [Irps -> Places] /\ stalled \in Seq(Irps) /\ cancel \in [Irps -> BOOLEAN]
  BY DEF TypeOK
<1>1. Quiet => StallQueueExact'
  BY DEF Quiet, StallQueueExact, At
<1>2. ASSUME NEW i \in Irps, Submit(i) PROVE StallQueueExact'
  BY <1>0, <1>1, <1>2 DEF Submit, Move, At, Quiet
<1>3. ASSUME NEW i \in Irps, CheckCreate(i) PROVE StallQueueExact'
  BY <1>0, <1>1, <1>3 DEF CheckCreate, Complete, Move, At, Quiet
<1>4. ASSUME NEW i \in Irps, Prologue(i) PROVE StallQueueExact'
  BY <1>0, <1>1, <1>4 DEF Prologue, Move, At, Quiet
<1>5. ASSUME NEW i \in Irps, Filter(i) PROVE StallQueueExact'
  BY <1>0, <1>1, <1>5 DEF Filter, Move, At, Quiet
<1>6. ASSUME NEW i \in Irps, Stall(i) PROVE StallQueueExact'
  <2>1. i \notin Range(stalled)
    BY <1>6 DEF Stall, At, StallQueueExact
  <2>2. CASE cancel[i]
    BY <1>0, <1>1, <1>6, <2>2 DEF Stall, Move, At, Quiet
  <2>3. CASE ~cancel[i]
    <3>1. /\ stalled' = Append(stalled, i) /\ cancel' = cancel
          /\ \A j \in Irps : place'[j] = "stalled" <=> j = i \/ place[j] = "stalled"
      BY <1>0, <1>6, <2>3 DEF Stall, Move
    <3>2. /\ IsInjective(Append(stalled, i))
          /\ \A y : y \in Range(Append(stalled, i)) <=> y \in Range(stalled) \/ y = i
      BY <1>0, <2>1, AppendEntries DEF StallQueueExact
    <3>. QED  BY <2>3, <3>1, <3>2 DEF StallQueueExact, At
  <2>. QED  BY <2>2, <2>3
<1>7. ASSUME NEW i \in Irps, Cancel(i) PROVE StallQueueExact'
  <2>1. CASE ~At(i, "stalled")
    <3>1. i \notin Range(stalled)
      BY <2>1 DEF StallQueueExact
    <3>2. /\ UNCHANGED <<place, stalled>>
          /\ \A j \in Irps : j # i => cancel'[j] = cancel[j]
      BY <1>0, <1>7, <2>1 DEF Cancel
    <3>3. \A j \in Range(stalled) : j \in Irps
      BY <1>0, RangeInIrps
    <3>. QED  BY <3>1, <3>2, <3>3 DEF StallQueueExact, At
  <2>2. CASE At(i, "stalled")
    <3>1. PICK n \in DOMAIN stalled : stalled[n] = i /\ stalled' = RemoveAt(stalled, n)
      BY <1>7, <2>2 DEF Cancel
    <3>2. n \in 1..Len(stalled)
      BY <1>0, <3>1, LenProperties
    <3>3. /\ IsInjective(stalled')
          /\ \A y : y \in Range(stalled') <=> y \in Range(stalled) /\ y # i
      BY <1>0, <3>1, <3>2, RemoveEntries DEF StallQueueExact
    <3>4. /\ \A j \in Irps : place'[j] = "stalled" <=> j # i /\ place[j] = "stalled"
          /\ \A j \in Irps : j # i => cancel'[j] = cancel[j]
      BY <1>0, <1>7, <2>2 DEF Cancel, Move
    <3>5. \A j \in Range(stalled) : j \in Irps
      BY <1>0, RangeInIrps
    <3>. QED  BY <3>3, <3>4, <3>5 DEF StallQueueExact, At
  <2>. QED  BY <2>1, <2>2
<1>8. ASSUME NEW i \in Irps, Open(i) PROVE StallQueueExact'
  BY <1>0, <1>1, <1>8 DEF Open, Move, At, Quiet
<1>9. ASSUME NEW i \in Irps, Close(i) PROVE StallQueueExact'
  BY <1>0, <1>1, <1>9 DEF Close, Move, At, Quiet
<1>10. ASSUME NEW i \in Irps, Perform(i) PROVE StallQueueExact'
  BY <1>0, <1>1, <1>10 DEF Perform, Move, At, Quiet
<1>11. ASSUME NEW i \in Irps, EndPending(i) PROVE StallQueueExact'
  BY <1>0, <1>1, <1>11 DEF EndPending, Move, At, Quiet
<1>12. ASSUME NEW i \in Irps, CompleteRequest(i) PROVE StallQueueExact'
  BY <1>0, <1>1, <1>12 DEF CompleteRequest, Complete, Move, At, Quiet
<1>13. ASSUME NEW i \in Irps, Epilogue(i) PROVE StallQueueExact'
  BY <1>0, <1>1, <1>13 DEF Epilogue, Move, At, Quiet
<1>14. ASSUME NEW i \in Irps, Signal(i) PROVE StallQueueExact'
  BY <1>0, <1>1, <1>14 DEF Signal, Move, At, Quiet
<1>15. ASSUME NEW o \in PnpOps, Enter(o) PROVE StallQueueExact'
  BY <1>0, <1>1, <1>15 DEF Enter, Quiet
<1>16. CASE QueryStop
  BY <1>0, <1>1, <1>16 DEF QueryStop, GrantQuery, RefuseQuery, Answer, Quiet
<1>17. CASE QueryRemove
  BY <1>0, <1>1, <1>17 DEF QueryRemove, GrantQuery, RefuseQuery, Answer, Quiet
<1>18. CASE CancelStop
  BY <1>0, <1>1, <1>18 DEF CancelStop, Answer, Quiet
<1>19. CASE CancelRemove
  BY <1>0, <1>1, <1>19 DEF CancelRemove, Answer, Quiet
<1>20. CASE Stop
  BY <1>0, <1>1, <1>20 DEF Stop, PnpGo, Quiet
<1>21. CASE SurpriseRemoval
  BY <1>0, <1>1, <1>21 DEF SurpriseRemoval, PnpGo, Quiet
<1>22. CASE RemoveDevice
  BY <1>0, <1>1, <1>22 DEF RemoveDevice, PnpGo, Quiet
<1>23. CASE KillPendingIrps
  <2>1. stalled' = <<>> /\ \A i \in Irps : place'[i] # "stalled"
    BY <1>0, <1>23 DEF KillPendingIrps
  <2>. QED  BY <2>1 DEF StallQueueExact, At, Range, IsInjective
<1>24. CASE DecrementForEntry
  BY <1>0, <1>1, <1>24 DEF DecrementForEntry, PnpGo, Quiet
<1>25. CASE DecrementPlaceholder
  BY <1>0, <1>1, <1>25 DEF DecrementPlaceholder, PnpGo, Quiet
<1>26. CASE WaitForPendingIrps
  BY <1>0, <1>1, <1>26 DEF WaitForPendingIrps, PnpGo, Quiet
<1>27. CASE FinishStop
  BY <1>0, <1>1, <1>27 DEF FinishStop, Quiet
<1>28. CASE FinishSurpriseRemoval
  BY <1>0, <1>1, <1>28 DEF FinishSurpriseRemoval, Quiet
<1>29. CASE FinishRemove
  BY <1>0, <1>1, <1>29 DEF FinishRemove, Quiet
<1>30. CASE StartFailsBelow
  BY <1>0, <1>1, <1>30 DEF StartFailsBelow, Answer, Quiet
<1>31. CASE RestartWithoutMemory
  BY <1>0, <1>1, <1>31 DEF RestartWithoutMemory, Answer, Quiet
<1>32. CASE Restart
  BY <1>0, <1>1, <1>32 DEF Restart, PnpGo, Quiet
<1>33. CASE UnstallIrp
  <2>1. stalled # <<>> /\ stalled' = Tail(stalled) /\ cancel' = cancel
    BY <1>33 DEF UnstallIrp
  <2>2. /\ Head(stalled) \in Irps
        /\ IsInjective(Tail(stalled))
        /\ \A y : y \in Range(Tail(stalled)) <=> y \in Range(stalled) /\ y # Head(stalled)
    BY <1>0, <2>1, HeadEntries DEF StallQueueExact
  <2>3. \A j \in Irps :
            place'[j] = "stalled" <=> j # Head(stalled) /\ place[j] = "stalled"
    BY <1>0, <1>33, <2>2 DEF UnstallIrp, Move
  <2>. QED  BY <2>1, <2>2, <2>3 DEF StallQueueExact, At
<1>34. CASE DispatchReturns
  BY <1>0, <1>1, <1>34 DEF DispatchReturns, Quiet
<1>35. CASE Restarted
  BY <1>0, <1>1, <1>35 DEF Restarted, Quiet
<1>36. CASE Leave
  BY <1>0, <1>1, <1>36 DEF Leave, Quiet
<1>37. CASE LeaveSignal
  BY <1>0, <1>1, <1>37 DEF LeaveSignal, Quiet
<1>38. CASE UNCHANGED vars
  BY <1>0, <1>1, <1>38 DEF Quiet
<1>. QED
  BY <1>2, <1>3, <1>4, <1>5, <1>6, <1>7, <1>8, <1>9, <1>10, <1>11, <1>12,
     <1>13, <1>14, <1>15, <1>16, <1>17, <1>18, <1>19, <1>20, <1>21, <1>22,
     <1>23, <1>24, <1>25, <1>26, <1>27, <1>28, <1>29, <1>30, <1>31, <1>32,
     <1>33, <1>34, <1>35, <1>36, <1>37, <1>38
  DEF Next, Serve, ServePnp

-----------------------------------------------------------------------------
(* The gate during a query. *)

\* Once a query is granted no create gets past the gate that is not past it yet.
LEMMA ClosedStep == TypeOK /\ ClosedInv /\ [Next]_vars => ClosedInv'
<1>. SUFFICES ASSUME TypeOK /\ ClosedInv, [Next]_vars PROVE ClosedInv'
  OBVIOUS
<1>. USE SerialPnpAssumption
   DEF ClosedInv, vars, gateVars, openVars, countVars, irpVars, pnpVars
<1>0. place \in [Irps -> Places] /\ opened \in BOOLEAN /\ Creates \subseteq Irps
  BY DEF TypeOK
<1>1. ASSUME NEW i \in Irps, Submit(i) PROVE ClosedInv'
  BY <1>0, <1>1 DEF Submit, Move, At
<1>2. ASSUME NEW i \in Irps, CheckCreate(i) PROVE ClosedInv'
  BY <1>0, <1>2 DEF CheckCreate, Complete, Move, At
<1>3. ASSUME NEW i \in Irps, Prologue(i) PROVE ClosedInv'
  BY <1>0, <1>3 DEF Prologue, Move, At
<1>4. ASSUME NEW i \in Irps, Filter(i) PROVE ClosedInv'
  BY <1>0, <1>4 DEF Filter, Move, At
<1>5. ASSUME NEW i \in Irps, Stall(i) PROVE ClosedInv'
  BY <1>0, <1>5 DEF Stall, Move, At
<1>6. ASSUME NEW i \in Irps, Cancel(i) PROVE ClosedInv'
  BY <1>0, <1>6 DEF Cancel, Move, At
<1>7. ASSUME NEW i \in Irps, Open(i) PROVE ClosedInv'
  BY <1>0, <1>7 DEF Open, Move, At
<1>8. ASSUME NEW i \in Irps, Close(i) PROVE ClosedInv'
  BY <1>0, <1>8 DEF Close, Move, At
<1>9. ASSUME NEW i \in Irps, Perform(i) PROVE ClosedInv'
  BY <1>0, <1>9 DEF Perform, Move, At
<1>10. ASSUME NEW i \in Irps, EndPending(i) PROVE ClosedInv'
  BY <1>0, <1>10 DEF EndPending, Move, At
<1>11. ASSUME NEW i \in Irps, CompleteRequest(i) PROVE ClosedInv'
  BY <1>0, <1>11 DEF CompleteRequest, Complete, Move, At
<1>12. ASSUME NEW i \in Irps, Epilogue(i) PROVE ClosedInv'
  BY <1>0, <1>12 DEF Epilogue, Move, At
<1>13. ASSUME NEW i \in Irps, Signal(i) PROVE ClosedInv'
  BY <1>0, <1>13 DEF Signal, Move, At
<1>14. ASSUME NEW o \in PnpOps, Enter(o) PROVE ClosedInv'
  BY <1>0, <1>14 DEF Enter
<1>15. CASE QueryStop
  <2>1. CASE GrantQuery("query_stop", "stop granted", "qstop", "stopping")
    <3>1. pnpState' = "qstop" /\ accept' = accept \cup {"stopping"}
      BY <2>1 DEF GrantQuery
    <3>2. UNCHANGED <<opened, place>> /\ ~opened
      BY <2>1 DEF GrantQuery, Answer
    <3>3. \A i \in Creates : place[i] # "accepted"
      BY <2>1 DEF GrantQuery, OpenMutexFree
    <3>. QED  BY <3>1, <3>2, <3>3
  <2>2. CASE RefuseQuery("query_stop", "stop refused")
    BY <2>2 DEF RefuseQuery, Answer
  <2>. QED  BY <1>15, <2>1, <2>2 DEF QueryStop
<1>16. CASE QueryRemove
  <2>1. CASE GrantQuery("query_remove", "remove granted", "qremove", "removing")
    <3>1. pnpState' = "qremove" /\ accept' = accept \cup {"removing"}
      BY <2>1 DEF GrantQuery
    <3>2. UNCHANGED <<opened, place>> /\ ~opened
      BY <2>1 DEF GrantQuery, Answer
    <3>3. \A i \in Creates : place[i] # "accepted"
      BY <2>1 DEF GrantQuery, OpenMutexFree
    <3>. QED  BY <3>1, <3>2, <3>3
  <2>2. CASE RefuseQuery("query_remove", "remove refused")
    BY <2>2 DEF RefuseQuery, Answer
  <2>. QED  BY <1>16, <2>1, <2>2 DEF QueryRemove
<1>17. CASE CancelStop
  BY <1>0, <1>17 DEF CancelStop, Answer
<1>18. CASE CancelRemove
  BY <1>0, <1>18 DEF CancelRemove, Answer
<1>19. CASE Stop
  BY <1>0, <1>19 DEF Stop, PnpGo
<1>20. CASE SurpriseRemoval
  BY <1>0, <1>20 DEF SurpriseRemoval, PnpGo
<1>21. CASE RemoveDevice
  BY <1>0, <1>21 DEF RemoveDevice, PnpGo
<1>22. CASE KillPendingIrps
  BY <1>0, <1>22 DEF KillPendingIrps
<1>23. CASE DecrementForEntry
  BY <1>0, <1>23 DEF DecrementForEntry, PnpGo
<1>24. CASE DecrementPlaceholder
  BY <1>0, <1>24 DEF DecrementPlaceholder, PnpGo
<1>25. CASE WaitForPendingIrps
  BY <1>0, <1>25 DEF WaitForPendingIrps, PnpGo
<1>26. CASE FinishStop
  BY <1>0, <1>26 DEF FinishStop
<1>27. CASE FinishSurpriseRemoval
  BY <1>0, <1>27 DEF FinishSurpriseRemoval
<1>28. CASE FinishRemove
  BY <1>0, <1>28 DEF FinishRemove
<1>29. CASE StartFailsBelow
  BY <1>0, <1>29 DEF StartFailsBelow, Answer
<1>30. CASE RestartWithoutMemory
  BY <1>0, <1>30 DEF RestartWithoutMemory, Answer
<1>31. CASE Restart
  BY <1>0, <1>31 DEF Restart, PnpGo
<1>32. CASE UnstallIrp
  BY <1>0, <1>32 DEF UnstallIrp, Move
<1>33. CASE DispatchReturns
  BY <1>0, <1>33 DEF DispatchReturns
<1>34. CASE Restarted
  BY <1>0, <1>34 DEF Restarted
<1>35. CASE Leave
  BY <1>0, <1>35 DEF Leave
<1>36. CASE LeaveSignal
  BY <1>0, <1>36 DEF LeaveSignal
<1>37. CASE UNCHANGED vars
  BY <1>0, <1>37
<1>. QED
  BY <1>1, <1>2, <1>3, <1>4, <1>5, <1>6, <1>7, <1>8, <1>9, <1>10, <1>11,
     <1>12, <1>13, <1>14, <1>15, <1>16, <1>17, <1>18, <1>19, <1>20, <1>21,
     <1>22, <1>23, <1>24, <1>25, <1>26, <1>27, <1>28, <1>29, <1>30, <1>31,
     <1>32, <1>33, <1>34, <1>35, <1>36, <1>37
  DEF Next, Serve, ServePnp

\* The three parts together: types, stall queue and gate, whatever PnP requests
\* are sent.
THEOREM Inductive == Spec => []IInv
<1>1. Init => IInv
  <2>. SUFFICES ASSUME Init PROVE IInv
    OBVIOUS
  <2>1. TypeOK
    <3>1. <<>> \in Seq(Irps)
      BY EmptySeq
    <3>2. /\ cancel \in [Irps -> BOOLEAN]
          /\ place \in [Irps -> Places]
          /\ completions \in [Irps -> Nat]
      BY PlaceNames DEF Init
    <3>3. /\ pendingIRPCnt \in Int /\ openCount \in 0..1
          /\ pc \in PnpPlaces
      BY PlaceNames DEF Init
    <3>. QED  BY <3>1, <3>2, <3>3 DEF Init, TypeOK
  <2>2. StallQueueExact
    BY DEF Init, StallQueueExact, At, Range, IsInjective
  <2>3. ClosedInv
    BY SerialPnpAssumption DEF Init, ClosedInv
  <2>. QED  BY <2>1, <2>2, <2>3 DEF IInv
<1>2. IInv /\ [Next]_vars => IInv'
  BY TypeOKStep, StallStep, ClosedStep DEF IInv
<1>. QED  BY <1>1, <1>2, PTL DEF Spec

\* Every variable of the gate has its type.
THEOREM TypeCorrect == Spec => []TypeOK
<1>1. IInv => TypeOK
  BY DEF IInv
<1>. QED  BY <1>1, Inductive, PTL

\* The stall queue holds each stalled request once, and none that is cancelled.
THEOREM StallQueueAlwaysExact == Spec => []StallQueueExact
<1>1. IInv => StallQueueExact
  BY DEF IInv
<1>. QED  BY <1>1, Inductive, PTL

\* A port for which a stop or remove query was granted is not opened.
THEOREM QueriedPortAlwaysClosed == Spec => []QueriedPortStaysClosed
<1>1. IInv => QueriedPortStaysClosed
  BY DEF IInv, ClosedInv, QueriedPortStaysClosed
<1>. QED  BY <1>1, Inductive, PTL

-----------------------------------------------------------------------------
(* The count of a port that is only queried and removed. *)

\* The requests in the driver can be counted.
LEMMA InDriverFinite ==
    /\ IsFiniteSet(InDriver)
    /\ Cardinality(InDriver) \in Nat
    /\ Cardinality(InDriver) = 0 <=> InDriver = {}
<1>1. IsFiniteSet(InDriver)
  BY SerialPnpAssumption, FS_Subset DEF InDriver
<1>. QED  BY <1>1, FS_CardinalityType, FS_EmptySet

\* A request that comes to the driver raises the count by one; ...
LEMMA ComesIn ==
    ASSUME TypeOK, NEW i \in Irps, place[i] \notin Counted,
           NEW p \in Counted, Move(i, p)
    PROVE  Cardinality(InDriver') = Cardinality(InDriver) + 1
<1>1. p \in Places
  BY DEF Places
<1>2. InDriver' = InDriver \cup {i} /\ i \notin InDriver
  BY <1>1, MoveFacts DEF InDriver
<1>. QED  BY <1>2, InDriverFinite, FS_AddElement

\* ... one that leaves it lowers it by one.
LEMMA GoesOut ==
    ASSUME TypeOK, NEW i \in Irps, place[i] \in Counted,
           NEW p \in Places \ Counted, Move(i, p)
    PROVE  /\ InDriver' = InDriver \ {i}
           /\ Cardinality(InDriver') = Cardinality(InDriver) - 1
<1>1. InDriver' = InDriver \ {i} /\ i \in InDriver
  BY MoveFacts DEF InDriver
<1>. QED  BY <1>1, InDriverFinite, FS_RemoveElement

\* A request passes the prologue or the epilogue.
Passage == \E j \in Irps : Prologue(j) \/ Epilogue(j)

\* Only a prologue and an epilogue change which requests are in the driver.
LEMMA InDriverKept ==
    TypeOK /\ pc # "unstall" /\ [Next]_vars => (UNCHANGED InDriver \/ Passage)
<1>. SUFFICES ASSUME TypeOK /\ pc # "unstall", [Next]_vars
              PROVE  (UNCHANGED InDriver \/ Passage)
  OBVIOUS
<1>. USE
   DEF InDriver, Passage, vars, gateVars, openVars, countVars, irpVars, pnpVars
<1>0. place \in [Irps -> Places] /\ stalled \in Seq(Irps)
  BY DEF TypeOK
<1>1. ASSUME NEW i \in Irps, Submit(i) PROVE (UNCHANGED InDriver \/ Passage)
  BY <1>0, <1>1 DEF Submit, Move, At, Counted
<1>2. ASSUME NEW i \in Irps, CheckCreate(i) PROVE (UNCHANGED InDriver \/ Passage)
  BY <1>0, <1>2 DEF CheckCreate, Complete, Move, At, Counted
<1>3. ASSUME NEW i \in Irps, Prologue(i) PROVE (UNCHANGED InDriver \/ Passage)
  BY <1>0, <1>3 DEF Prologue, Move, At, Counted
<1>4. ASSUME NEW i \in Irps, Filter(i) PROVE (UNCHANGED InDriver \/ Passage)
  BY <1>0, <1>4 DEF Filter, Move, At, Counted
<1>5. ASSUME NEW i \in Irps, Stall(i) PROVE (UNCHANGED InDriver \/ Passage)
  BY <1>0, <1>5 DEF Stall, Move, At, Counted
<1>6. ASSUME NEW i \in Irps, Cancel(i) PROVE (UNCHANGED InDriver \/ Passage)
  BY <1>0, <1>6 DEF Cancel, Move, At, Counted
<1>7. ASSUME NEW i \in Irps, Open(i) PROVE (UNCHANGED InDriver \/ Passage)
  BY <1>0, <1>7 DEF Open, Move, At, Counted
<1>8. ASSUME NEW i \in Irps, Close(i) PROVE (UNCHANGED InDriver \/ Passage)
  BY <1>0, <1>8 DEF Close, Move, At, Counted
<1>9. ASSUME NEW i \in Irps, Perform(i) PROVE (UNCHANGED InDriver \/ Passage)
  BY <1>0, <1>9 DEF Perform, Move, At, Counted
<1>10. ASSUME NEW i \in Irps, EndPending(i) PROVE (UNCHANGED InDriver \/ Passage)
  BY <1>0, <1>10 DEF EndPending, Move, At, Counted
<1>11. ASSUME NEW i \in Irps, CompleteRequest(i) PROVE (UNCHANGED InDriver \/ Passage)
  BY <1>0, <1>11 DEF CompleteRequest, Complete, Move, At, Counted
<1>12. ASSUME NEW i \in Irps, Epilogue(i) PROVE (UNCHANGED InDriver \/ Passage)
  BY <1>0, <1>12 DEF Epilogue, Move, At, Counted
<1>13. ASSUME NEW i \in Irps, Signal(i) PROVE (UNCHANGED InDriver \/ Passage)
  BY <1>0, <1>13 DEF Signal, Move, At, Counted
<1>14. ASSUME NEW o \in PnpOps, Enter(o) PROVE (UNCHANGED InDriver \/ Passage)
  BY <1>0, <1>14 DEF Enter, Counted
<1>15. CASE QueryStop
  BY <1>0, <1>15 DEF QueryStop, GrantQuery, RefuseQuery, Answer, Counted
<1>16. CASE QueryRemove
  BY <1>0, <1>16 DEF QueryRemove, GrantQuery, RefuseQuery, Answer, Counted
<1>17. CASE CancelStop
  BY <1>0, <1>17 DEF CancelStop, Answer, Counted
<1>18. CASE CancelRemove
  BY <1>0, <1>18 DEF CancelRemove, Answer, Counted
<1>19. CASE Stop
  BY <1>0, <1>19 DEF Stop, PnpGo, Counted
<1>20. CASE SurpriseRemoval
  BY <1>0, <1>20 DEF SurpriseRemoval, PnpGo, Counted
<1>21. CASE RemoveDevice
  BY <1>0, <1>21 DEF RemoveDevice, PnpGo, Counted
<1>22. CASE KillPendingIrps
  BY <1>0, <1>22 DEF KillPendingIrps, Counted
<1>23. CASE DecrementForEntry
  BY <1>0, <1>23 DEF DecrementForEntry, PnpGo, Counted
<1>24. CASE DecrementPlaceholder
  BY <1>0, <1>24 DEF DecrementPlaceholder, PnpGo, Counted
<1>25. CASE WaitForPendingIrps
  BY <1>0, <1>25 DEF WaitForPendingIrps, PnpGo, Counted
<1>26. CASE FinishStop
  BY <1>0, <1>26 DEF FinishStop, Counted
<1>27. CASE FinishSurpriseRemoval
  BY <1>0, <1>27 DEF FinishSurpriseRemoval, Counted
<1>28. CASE FinishRemove
  BY <1>0, <1>28 DEF FinishRemove, Counted
<1>29. CASE StartFailsBelow
  BY <1>0, <1>29 DEF StartFailsBelow, Answer, Counted
<1>30. CASE RestartWithoutMemory
  BY <1>0, <1>30 DEF RestartWithoutMemory, Answer, Counted
<1>31. CASE Restart
  BY <1>0, <1>31 DEF Restart, PnpGo, Counted
<1>32. CASE UnstallIrp
  BY <1>0, <1>32 DEF UnstallIrp, Move, Counted
<1>33. CASE DispatchReturns
  BY <1>0, <1>33 DEF DispatchReturns, Counted
<1>34. CASE Restarted
  BY <1>0, <1>34 DEF Restarted, Counted
<1>35. CASE Leave
  BY <1>0, <1>35 DEF Leave, Counted
<1>36. CASE LeaveSignal
  BY <1>0, <1>36 DEF LeaveSignal, Counted
<1>37. CASE UNCHANGED vars
  BY <1>0, <1>37 DEF Counted
<1>. QED
  BY <1>1, <1>2, <1>3, <1>4, <1>5, <1>6, <1>7, <1>8, <1>9, <1>10, <1>11,
     <1>12, <1>13, <1>14, <1>15, <1>16, <1>17, <1>18, <1>19, <1>20, <1>21,
     <1>22, <1>23, <1>24, <1>25, <1>26, <1>27, <1>28, <1>29, <1>30, <1>31,
     <1>32, <1>33, <1>34, <1>35, <1>36, <1>37
  DEF Next, Serve, ServePnp

\* What the parts below may rely on.
Counting == PnpOps \subseteq CountingOps /\ TypeOK /\ CountInv

\* The count when the PnP request has not taken the placeholder yet.
LEMMA CountFacts ==
    ASSUME Counting
    PROVE  /\ pendingIRPCnt \in Nat
           /\ pc = "drain" => pendingIRPCnt = 1 + Cardinality(InDriver)
           /\ pc = "leave" => pendingIRPCnt > 1
           /\ pc = "wait" => pendingIRPCnt = Cardinality(InDriver)
           /\ pc \in {"idle", "entered", "kill", "entry", "drain", "leave"}
                  /\ manager # "removed" => pendingIRPCnt > Cardinality(InDriver)
<1>1. /\ op = None <=> pc = "idle"
      /\ manager = "removed" => op = None
      /\ pendingIRPCnt = Placeholder + PnpInside + Cardinality(InDriver)
  BY DEF Counting, CountInv, PnpInv, PendingCountExact
<1>2. Cardinality(InDriver) \in Nat
  BY InDriverFinite
<1>3. Placeholder \in {0, 1} /\ PnpInside \in {0, 1}
  BY DEF Placeholder, PnpInside
<1>4. pc = "drain" => Placeholder = 1 /\ PnpInside = 0
  BY <1>1 DEF Placeholder, PnpInside
<1>5. pc = "leave" => Placeholder = 1 /\ PnpInside = 1
  BY <1>1 DEF Placeholder, PnpInside
<1>6. pc = "wait" => Placeholder = 0 /\ PnpInside = 0
  BY DEF Placeholder, PnpInside
<1>7. pc \in {"idle", "entered", "kill", "entry", "drain", "leave"}
          /\ manager # "removed" => Placeholder = 1
  BY DEF Placeholder
<1>. QED  BY <1>1, <1>2, <1>3, <1>4, <1>5, <1>6, <1>7

\* The PnP request goes where it should.
LEMMA PnpInvStep == Counting /\ [Next]_vars => PnpInv'
<1>. SUFFICES ASSUME Counting, [Next]_vars PROVE PnpInv'
  OBVIOUS
<1>. USE DEF PnpInv, vars, gateVars, openVars, countVars, irpVars, pnpVars
<1>0. /\ PnpInv
      /\ op \in CountingOps \cup {None} /\ PnpOps \subseteq CountingOps
      /\ None \notin CountingOps
  BY SerialPnpAssumption DEF Counting, CountInv, TypeOK, CountingOps, AllPnpOps
<1>1. ASSUME NEW i \in Irps, Submit(i) PROVE PnpInv'
  BY <1>0, <1>1 DEF Submit, Move, At
<1>2. ASSUME NEW i \in Irps, CheckCreate(i) PROVE PnpInv'
  BY <1>0, <1>2 DEF CheckCreate, Complete, Move, At
<1>3. ASSUME NEW i \in Irps, Prologue(i) PROVE PnpInv'
  BY <1>0, <1>3 DEF Prologue, Move, At
<1>4. ASSUME NEW i \in Irps, Filter(i) PROVE PnpInv'
  BY <1>0, <1>4 DEF Filter, Move, At
<1>5. ASSUME NEW i \in Irps, Stall(i) PROVE PnpInv'
  BY <1>0, <1>5 DEF Stall, Move, At
<1>6. ASSUME NEW i \in Irps, Cancel(i) PROVE PnpInv'
  BY <1>0, <1>6 DEF Cancel, Move, At
<1>7. ASSUME NEW i \in Irps, Open(i) PROVE PnpInv'
  BY <1>0, <1>7 DEF Open, Move, At
<1>8. ASSUME NEW i \in Irps, Close(i) PROVE PnpInv'
  BY <1>0, <1>8 DEF Close, Move, At
<1>9. ASSUME NEW i \in Irps, Perform(i) PROVE PnpInv'
  BY <1>0, <1>9 DEF Perform, Move, At
<1>10. ASSUME NEW i \in Irps, EndPending(i) PROVE PnpInv'
  BY <1>0, <1>10 DEF EndPending, Move, At
<1>11. ASSUME NEW i \in Irps, CompleteRequest(i) PROVE PnpInv'
  BY <1>0, <1>11 DEF CompleteRequest, Complete, Move, At
<1>12. ASSUME NEW i \in Irps, Epilogue(i) PROVE PnpInv'
  BY <1>0, <1>12 DEF Epilogue, Move, At
<1>13. ASSUME NEW i \in Irps, Signal(i) PROVE PnpInv'
  BY <1>0, <1>13 DEF Signal, Move, At
<1>14. ASSUME NEW o \in PnpOps, Enter(o) PROVE PnpInv'
  BY <1>0, <1>14 DEF Enter, MaySend, CountingOps
<1>15. CASE QueryStop
  BY <1>0, <1>15 DEF QueryStop, GrantQuery, RefuseQuery, Answer
<1>16. CASE QueryRemove
  BY <1>0, <1>16 DEF QueryRemove, GrantQuery, RefuseQuery, Answer
<1>17. CASE CancelStop
  BY <1>0, <1>17 DEF CancelStop, Answer
<1>18. CASE CancelRemove
  BY <1>0, <1>18 DEF CancelRemove, Answer
<1>19. CASE Stop
  BY <1>0, <1>19 DEF Stop, PnpGo, CountingOps
<1>20. CASE SurpriseRemoval
  BY <1>0, <1>20 DEF SurpriseRemoval, PnpGo, CountingOps
<1>21. CASE RemoveDevice
  BY <1>0, <1>21 DEF RemoveDevice, PnpGo
<1>22. CASE KillPendingIrps
  BY <1>0, <1>22 DEF KillPendingIrps
<1>23. CASE DecrementForEntry
  BY <1>0, <1>23 DEF DecrementForEntry, PnpGo
<1>24. CASE DecrementPlaceholder
  BY <1>0, <1>24 DEF DecrementPlaceholder, PnpGo
<1>25. CASE WaitForPendingIrps
  BY <1>0, <1>25 DEF WaitForPendingIrps, PnpGo
<1>26. CASE FinishStop
  BY <1>0, <1>26 DEF FinishStop, CountingOps
<1>27. CASE FinishSurpriseRemoval
  BY <1>0, <1>27 DEF FinishSurpriseRemoval
<1>28. CASE FinishRemove
  BY <1>0, <1>28 DEF FinishRemove
<1>29. CASE StartFailsBelow
  BY <1>0, <1>29 DEF StartFailsBelow, Answer, CountingOps
<1>30. CASE RestartWithoutMemory
  BY <1>0, <1>30 DEF RestartWithoutMemory, Answer
<1>31. CASE Restart
  BY <1>0, <1>31 DEF Restart, PnpGo, CountingOps
<1>32. CASE UnstallIrp
  BY <1>0, <1>32 DEF UnstallIrp, Move
<1>33. CASE DispatchReturns
  BY <1>0, <1>33 DEF DispatchReturns
<1>34. CASE Restarted
  BY <1>0, <1>34 DEF Restarted
<1>35. CASE Leave
  BY <1>0, <1>35, CountFacts DEF Leave
<1>36. CASE LeaveSignal
  BY <1>0, <1>36 DEF LeaveSignal
<1>37. CASE UNCHANGED vars
  BY <1>0, <1>37
<1>. QED
  BY <1>1, <1>2, <1>3, <1>4, <1>5, <1>6, <1>7, <1>8, <1>9, <1>10, <1>11,
     <1>12, <1>13, <1>14, <1>15, <1>16, <1>17, <1>18, <1>19, <1>20, <1>21,
     <1>22, <1>23, <1>24, <1>25, <1>26, <1>27, <1>28, <1>29, <1>30, <1>31,
     <1>32, <1>33, <1>34, <1>35, <1>36, <1>37
  DEF Next, Serve, ServePnp
\* Nothing is sent to the driver during a remove or after it.
LEMMA NoneComesStep == Counting /\ [Next]_vars => NoneComesInv'
<1>. SUFFICES ASSUME Counting, [Next]_vars PROVE NoneComesInv'
  OBVIOUS
<1>. USE DEF NoneComesInv, vars, gateVars, openVars, countVars, irpVars, pnpVars
<1>0. /\ PnpInv /\ NoneComesInv
      /\ place \in [Irps -> Places]
      /\ None # "remove"
  BY SerialPnpAssumption DEF Counting, CountInv, TypeOK, AllPnpOps
<1>1. ASSUME NEW i \in Irps, Submit(i) PROVE NoneComesInv'
  BY <1>0, <1>1 DEF Submit, Move, At
<1>2. ASSUME NEW i \in Irps, CheckCreate(i) PROVE NoneComesInv'
  BY <1>0, <1>2 DEF CheckCreate, Complete, Move, At
<1>3. ASSUME NEW i \in Irps, Prologue(i) PROVE NoneComesInv'
  BY <1>0, <1>3 DEF Prologue, Move, At
<1>4. ASSUME NEW i \in Irps, Filter(i) PROVE NoneComesInv'
  BY <1>0, <1>4 DEF Filter, Move, At
<1>5. ASSUME NEW i \in Irps, Stall(i) PROVE NoneComesInv'
  BY <1>0, <1>5 DEF Stall, Move, At
<1>6. ASSUME NEW i \in Irps, Cancel(i) PROVE NoneComesInv'
  BY <1>0, <1>6 DEF Cancel, Move, At
<1>7. ASSUME NEW i \in Irps, Open(i) PROVE NoneComesInv'
  BY <1>0, <1>7 DEF Open, Move, At
<1>8. ASSUME NEW i \in Irps, Close(i) PROVE NoneComesInv'
  BY <1>0, <1>8 DEF Close, Move, At
<1>9. ASSUME NEW i \in Irps, Perform(i) PROVE NoneComesInv'
  BY <1>0, <1>9 DEF Perform, Move, At
<1>10. ASSUME NEW i \in Irps, EndPending(i) PROVE NoneComesInv'
  BY <1>0, <1>10 DEF EndPending, Move, At
<1>11. ASSUME NEW i \in Irps, CompleteRequest(i) PROVE NoneComesInv'
  BY <1>0, <1>11 DEF CompleteRequest, Complete, Move, At
<1>12. ASSUME NEW i \in Irps, Epilogue(i) PROVE NoneComesInv'
  BY <1>0, <1>12 DEF Epilogue, Move, At
<1>13. ASSUME NEW i \in Irps, Signal(i) PROVE NoneComesInv'
  BY <1>0, <1>13 DEF Signal, Move, At
<1>14. ASSUME NEW o \in PnpOps, Enter(o) PROVE NoneComesInv'
  BY <1>0, <1>14 DEF Enter, MaySend
<1>15. CASE QueryStop
  BY <1>0, <1>15 DEF QueryStop, GrantQuery, RefuseQuery, Answer
<1>16. CASE QueryRemove
  BY <1>0, <1>16 DEF QueryRemove, GrantQuery, RefuseQuery, Answer
<1>17. CASE CancelStop
  BY <1>0, <1>17 DEF CancelStop, Answer
<1>18. CASE CancelRemove
  BY <1>0, <1>18 DEF CancelRemove, Answer
<1>19. CASE Stop
  BY <1>0, <1>19 DEF Stop, PnpGo
<1>20. CASE SurpriseRemoval
  BY <1>0, <1>20 DEF SurpriseRemoval, PnpGo
<1>21. CASE RemoveDevice
  BY <1>0, <1>21 DEF RemoveDevice, PnpGo
<1>22. CASE KillPendingIrps
  BY <1>0, <1>22 DEF KillPendingIrps
<1>23. CASE DecrementForEntry
  BY <1>0, <1>23 DEF DecrementForEntry, PnpGo
<1>24. CASE DecrementPlaceholder
  BY <1>0, <1>24 DEF DecrementPlaceholder, PnpGo
<1>25. CASE WaitForPendingIrps
  BY <1>0, <1>25 DEF WaitForPendingIrps, PnpGo
<1>26. CASE FinishStop
  BY <1>0, <1>26 DEF FinishStop
<1>27. CASE FinishSurpriseRemoval
  BY <1>0, <1>27 DEF FinishSurpriseRemoval
<1>28. CASE FinishRemove
  BY <1>0, <1>28 DEF FinishRemove
<1>29. CASE StartFailsBelow
  BY <1>0, <1>29 DEF StartFailsBelow, Answer
<1>30. CASE RestartWithoutMemory
  BY <1>0, <1>30 DEF RestartWithoutMemory, Answer
<1>31. CASE Restart
  BY <1>0, <1>31 DEF Restart, PnpGo
<1>32. CASE UnstallIrp
  BY <1>0, <1>32 DEF UnstallIrp, Move, PnpInv
<1>33. CASE DispatchReturns
  BY <1>0, <1>33 DEF DispatchReturns
<1>34. CASE Restarted
  BY <1>0, <1>34 DEF Restarted
<1>35. CASE Leave
  BY <1>0, <1>35 DEF Leave, PnpInv
<1>36. CASE LeaveSignal
  BY <1>0, <1>36 DEF LeaveSignal, PnpInv
<1>37. CASE UNCHANGED vars
  BY <1>0, <1>37
<1>. QED
  BY <1>1, <1>2, <1>3, <1>4, <1>5, <1>6, <1>7, <1>8, <1>9, <1>10, <1>11,
     <1>12, <1>13, <1>14, <1>15, <1>16, <1>17, <1>18, <1>19, <1>20, <1>21,
     <1>22, <1>23, <1>24, <1>25, <1>26, <1>27, <1>28, <1>29, <1>30, <1>31,
     <1>32, <1>33, <1>34, <1>35, <1>36, <1>37
  DEF Next, Serve, ServePnp
\* A remove drains the driver before it deletes the device.
LEMMA DrainedStep == Counting /\ [Next]_vars => DrainedInv'
<1>. SUFFICES ASSUME Counting, [Next]_vars PROVE DrainedInv'
  OBVIOUS
<1>. USE DEF DrainedInv, vars, gateVars, openVars, countVars, irpVars, pnpVars
<1>0. PnpInv /\ NoneComesInv /\ DrainedInv
  BY SerialPnpAssumption DEF Counting, CountInv, TypeOK, AllPnpOps
<1>1. /\ pc = "drain" /\ pendingIRPCnt = 1 => InDriver = {}
      /\ pc = "wait" /\ pendingIRPCnt = 0 => InDriver = {}
  BY CountFacts, InDriverFinite
<1>2. pendingIRPEvent => pendingIRPCnt = 0
  BY DEF Counting, CountInv, SignalInv
<1>3. UNCHANGED InDriver \/ Passage
  BY <1>0, InDriverKept DEF Counting, PnpInv
<1>4. ASSUME NEW i \in Irps, Prologue(i) PROVE DrainedInv'
  BY <1>0, <1>4 DEF Prologue, PnpInv, NoneComesInv, At
<1>5. ASSUME NEW i \in Irps, Epilogue(i) PROVE DrainedInv'
  <2>1. InDriver # {}
    BY <1>5 DEF Epilogue, At, InDriver, Counted
  <2>. QED  BY <1>0, <1>5, <2>1 DEF Epilogue
<1>6. Passage => DrainedInv'
  BY <1>4, <1>5 DEF Passage
<1>7. ASSUME NEW i \in Irps, Submit(i) PROVE DrainedInv'
  BY <1>0, <1>3, <1>6, <1>7 DEF Submit, Move, At
<1>8. ASSUME NEW i \in Irps, CheckCreate(i) PROVE DrainedInv'
  BY <1>0, <1>3, <1>6, <1>8 DEF CheckCreate, Complete, Move, At
<1>9. ASSUME NEW i \in Irps, Filter(i) PROVE DrainedInv'
  BY <1>0, <1>3, <1>6, <1>9 DEF Filter, Move, At
<1>10. ASSUME NEW i \in Irps, Stall(i) PROVE DrainedInv'
  BY <1>0, <1>3, <1>6, <1>10 DEF Stall, Move, At
<1>11. ASSUME NEW i \in Irps, Cancel(i) PROVE DrainedInv'
  BY <1>0, <1>3, <1>6, <1>11 DEF Cancel, Move, At
<1>12. ASSUME NEW i \in Irps, Open(i) PROVE DrainedInv'
  BY <1>0, <1>3, <1>6, <1>12 DEF Open, Move, At
<1>13. ASSUME NEW i \in Irps, Close(i) PROVE DrainedInv'
  BY <1>0, <1>3, <1>6, <1>13 DEF Close, Move, At
<1>14. ASSUME NEW i \in Irps, Perform(i) PROVE DrainedInv'
  BY <1>0, <1>3, <1>6, <1>14 DEF Perform, Move, At
<1>15. ASSUME NEW i \in Irps, EndPending(i) PROVE DrainedInv'
  BY <1>0, <1>3, <1>6, <1>15 DEF EndPending, Move, At
<1>16. ASSUME NEW i \in Irps, CompleteRequest(i) PROVE DrainedInv'
  BY <1>0, <1>3, <1>6, <1>16 DEF CompleteRequest, Complete, Move, At
<1>17. ASSUME NEW i \in Irps, Signal(i) PROVE DrainedInv'
  BY <1>0, <1>3, <1>6, <1>17 DEF Signal, Move, At
<1>18. ASSUME NEW o \in PnpOps, Enter(o) PROVE DrainedInv'
  BY <1>0, <1>3, <1>6, <1>18 DEF Enter
<1>19. CASE QueryStop
  BY <1>0, <1>3, <1>6, <1>19 DEF QueryStop, GrantQuery, RefuseQuery, Answer
<1>20. CASE QueryRemove
  BY <1>0, <1>3, <1>6, <1>20 DEF QueryRemove, GrantQuery, RefuseQuery, Answer
<1>21. CASE CancelStop
  BY <1>0, <1>3, <1>6, <1>21 DEF CancelStop, Answer
<1>22. CASE CancelRemove
  BY <1>0, <1>3, <1>6, <1>22 DEF CancelRemove, Answer
<1>23. CASE Stop
  BY <1>0, <1>3, <1>6, <1>23 DEF Stop, PnpGo
<1>24. CASE SurpriseRemoval
  BY <1>0, <1>3, <1>6, <1>24 DEF SurpriseRemoval, PnpGo
<1>25. CASE RemoveDevice
  BY <1>0, <1>3, <1>6, <1>25 DEF RemoveDevice, PnpGo
<1>26. CASE KillPendingIrps
  BY <1>0, <1>3, <1>6, <1>26 DEF KillPendingIrps
<1>27. CASE DecrementForEntry
  BY <1>0, <1>3, <1>6, <1>27 DEF DecrementForEntry, PnpGo
<1>28. CASE DecrementPlaceholder
  BY <1>0, <1>3, <1>6, <1>28, <1>1 DEF DecrementPlaceholder, PnpGo
<1>29. CASE WaitForPendingIrps
  BY <1>0, <1>3, <1>6, <1>29, <1>1, <1>2 DEF WaitForPendingIrps, PnpGo
<1>30. CASE FinishStop
  BY <1>0, <1>3, <1>6, <1>30 DEF FinishStop
<1>31. CASE FinishSurpriseRemoval
  BY <1>0, <1>3, <1>6, <1>31 DEF FinishSurpriseRemoval
<1>32. CASE FinishRemove
  BY <1>0, <1>3, <1>6, <1>32 DEF FinishRemove
<1>33. CASE StartFailsBelow
  BY <1>0, <1>3, <1>6, <1>33 DEF StartFailsBelow, Answer
<1>34. CASE RestartWithoutMemory
  BY <1>0, <1>3, <1>6, <1>34 DEF RestartWithoutMemory, Answer
<1>35. CASE Restart
  BY <1>0, <1>3, <1>6, <1>35 DEF Restart, PnpGo
<1>36. CASE UnstallIrp
  BY <1>0, <1>3, <1>6, <1>36 DEF UnstallIrp, Move
<1>37. CASE DispatchReturns
  BY <1>0, <1>3, <1>6, <1>37 DEF DispatchReturns
<1>38. CASE Restarted
  BY <1>0, <1>3, <1>6, <1>38 DEF Restarted
<1>39. CASE Leave
  BY <1>0, <1>3, <1>6, <1>39 DEF Leave
<1>40. CASE LeaveSignal
  BY <1>0, <1>3, <1>6, <1>40 DEF LeaveSignal
<1>41. CASE UNCHANGED vars
  BY <1>0, <1>3, <1>6, <1>41
<1>. QED
  BY <1>7, <1>8, <1>9, <1>10, <1>11, <1>12, <1>13, <1>14, <1>15, <1>16,
     <1>17, <1>18, <1>19, <1>20, <1>21, <1>22, <1>23, <1>24, <1>25, <1>26,
     <1>27, <1>28, <1>29, <1>30, <1>31, <1>32, <1>33, <1>34, <1>35, <1>36,
     <1>37, <1>38, <1>39, <1>40, <1>41, <1>6
  DEF Next, Serve, ServePnp, Passage
\* The event is set once, when the count has come to zero for a remove that
\* waits.
LEMMA SignalStep == Counting /\ [Next]_vars => SignalInv'
<1>. SUFFICES ASSUME Counting, [Next]_vars PROVE SignalInv'
  OBVIOUS
<1>. USE DEF vars, gateVars, openVars, countVars, irpVars, pnpVars
<1>0. /\ PnpInv /\ NoneComesInv /\ DrainedInv /\ SignalInv
      /\ place \in [Irps -> Places]
      /\ op = None <=> pc = "idle"
  BY SerialPnpAssumption DEF Counting, CountInv, TypeOK, PnpInv
<1>1. pc = "wait" /\ pendingIRPCnt = 0 => op = "remove" /\ InDriver = {}
  BY <1>0, CountFacts, InDriverFinite DEF PnpInv
<1>2. pendingIRPEvent \/ (\E j \in Irps : place[j] = "signal") =>
          pc = "wait" /\ pendingIRPCnt = 0
  BY <1>0 DEF SignalInv, At
<1>3. ~pendingIRPEvent' /\ (\A j \in Irps : place'[j] # "signal") => SignalInv'
  BY DEF SignalInv, At
<1>4. pc # "wait" /\ UNCHANGED <<place, pendingIRPEvent>> => SignalInv'
  BY <1>2, <1>3
<1>5. ASSUME NEW i \in InDriver, pendingIRPCnt = 1 PROVE pc = "wait"
  <2>1. pc # "drained" /\ manager # "removed"
    BY <1>0, <1>5 DEF DrainedInv
  <2>2. Cardinality(InDriver) \in Nat /\ Cardinality(InDriver) # 0
    BY <1>5, InDriverFinite
  <2>3. pc \in {"idle", "entered", "kill", "entry", "drain", "leave", "wait"}
    BY <1>0, <2>1 DEF PnpInv, Counting, TypeOK, PnpPlaces
  <2>. QED  BY <1>5, <2>1, <2>2, <2>3, CountFacts
<1>6. ASSUME NEW i \in Irps, Submit(i) PROVE SignalInv'
  BY <1>0, <1>4, <1>6 DEF Submit, Move, At, SignalInv
<1>7. ASSUME NEW i \in Irps, CheckCreate(i) PROVE SignalInv'
  BY <1>0, <1>4, <1>7 DEF CheckCreate, Complete, Move, At, SignalInv
<1>8. ASSUME NEW i \in Irps, Prologue(i) PROVE SignalInv'
  <2>1. op # "remove"
    BY <1>0, <1>8 DEF Prologue, NoneComesInv, At
  <2>2. ~pendingIRPEvent /\ \A j \in Irps : place[j] # "signal"
    BY <1>1, <1>2, <2>1
  <2>. QED  BY <1>0, <1>3, <1>8, <2>2 DEF Prologue, Move, At
<1>9. ASSUME NEW i \in Irps, Filter(i) PROVE SignalInv'
  BY <1>0, <1>4, <1>9 DEF Filter, Move, At, SignalInv
<1>10. ASSUME NEW i \in Irps, Stall(i) PROVE SignalInv'
  BY <1>0, <1>4, <1>10 DEF Stall, Move, At, SignalInv
<1>11. ASSUME NEW i \in Irps, Cancel(i) PROVE SignalInv'
  BY <1>0, <1>4, <1>11 DEF Cancel, Move, At, SignalInv
<1>12. ASSUME NEW i \in Irps, Open(i) PROVE SignalInv'
  BY <1>0, <1>4, <1>12 DEF Open, Move, At, SignalInv
<1>13. ASSUME NEW i \in Irps, Close(i) PROVE SignalInv'
  BY <1>0, <1>4, <1>13 DEF Close, Move, At, SignalInv
<1>14. ASSUME NEW i \in Irps, Perform(i) PROVE SignalInv'
  BY <1>0, <1>4, <1>14 DEF Perform, Move, At, SignalInv
<1>15. ASSUME NEW i \in Irps, EndPending(i) PROVE SignalInv'
  BY <1>0, <1>4, <1>15 DEF EndPending, Move, At, SignalInv
<1>16. ASSUME NEW i \in Irps, CompleteRequest(i) PROVE SignalInv'
  BY <1>0, <1>4, <1>16 DEF CompleteRequest, Complete, Move, At, SignalInv
<1>17. ASSUME NEW i \in Irps, Epilogue(i) PROVE SignalInv'
  <2>1. i \in InDriver /\ place[i] = "leaving"
    BY <1>17 DEF Epilogue, At, InDriver, Counted
  <2>2. ~pendingIRPEvent /\ \A j \in Irps : place[j] # "signal"
    BY <1>1, <1>2, <2>1
  <2>3. pendingIRPCnt = 1 => pc = "wait"
    BY <1>0, <1>5, <2>1
  <2>4. CASE pendingIRPCnt = 1
    <3>1. pendingIRPCnt' = 0 /\ Move(i, "signal") /\ UNCHANGED <<pc, pendingIRPEvent>>
      BY <1>17, <2>4 DEF Epilogue
    <3>. QED  BY <1>0, <2>2, <2>3, <2>4, <3>1 DEF Move, SignalInv, At
  <2>5. CASE pendingIRPCnt # 1
    <3>1. Move(i, "gone") /\ UNCHANGED <<pc, pendingIRPEvent>>
      BY <1>17, <2>5 DEF Epilogue
    <3>. QED  BY <1>0, <1>3, <2>2, <3>1 DEF Move, At
  <2>. QED  BY <2>4, <2>5
<1>18. ASSUME NEW i \in Irps, Signal(i) PROVE SignalInv'
  BY <1>0, <1>4, <1>18 DEF Signal, Move, At, SignalInv
<1>19. ASSUME NEW o \in PnpOps, Enter(o) PROVE SignalInv'
  BY <1>0, <1>4, <1>19 DEF Enter
<1>20. CASE QueryStop
  BY <1>0, <1>4, <1>20 DEF QueryStop, GrantQuery, RefuseQuery, Answer
<1>21. CASE QueryRemove
  BY <1>0, <1>4, <1>21 DEF QueryRemove, GrantQuery, RefuseQuery, Answer
<1>22. CASE CancelStop
  BY <1>0, <1>4, <1>22 DEF CancelStop, Answer
<1>23. CASE CancelRemove
  BY <1>0, <1>4, <1>23 DEF CancelRemove, Answer
<1>24. CASE Stop
  BY <1>0, <1>4, <1>24 DEF Stop, PnpGo
<1>25. CASE SurpriseRemoval
  BY <1>0, <1>4, <1>25 DEF SurpriseRemoval, PnpGo
<1>26. CASE RemoveDevice
  BY <1>0, <1>4, <1>26 DEF RemoveDevice, PnpGo
<1>27. CASE KillPendingIrps
  BY <1>0, <1>4, <1>27, <1>2, <1>3 DEF KillPendingIrps
<1>28. CASE DecrementForEntry
  BY <1>0, <1>4, <1>28 DEF DecrementForEntry, PnpGo
<1>29. CASE DecrementPlaceholder
  BY <1>0, <1>4, <1>29 DEF DecrementPlaceholder, PnpGo
<1>30. CASE WaitForPendingIrps
  <2>1. pendingIRPEvent /\ ~pendingIRPEvent' /\ place' = place
    BY <1>30 DEF WaitForPendingIrps
  <2>2. \A j \in Irps : place[j] # "signal"
    BY <1>0, <2>1 DEF SignalInv, At
  <2>. QED  BY <1>3, <2>1, <2>2
<1>31. CASE FinishStop
  BY <1>0, <1>4, <1>31 DEF FinishStop
<1>32. CASE FinishSurpriseRemoval
  BY <1>0, <1>4, <1>32 DEF FinishSurpriseRemoval
<1>33. CASE FinishRemove
  BY <1>0, <1>4, <1>33 DEF FinishRemove
<1>34. CASE StartFailsBelow
  BY <1>0, <1>4, <1>34 DEF StartFailsBelow, Answer
<1>35. CASE RestartWithoutMemory
  BY <1>0, <1>4, <1>35 DEF RestartWithoutMemory, Answer
<1>36. CASE Restart
  BY <1>0, <1>4, <1>36 DEF Restart, PnpGo
<1>37. CASE UnstallIrp
  BY <1>0, <1>4, <1>37, <1>2, <1>3 DEF UnstallIrp, Move
<1>38. CASE DispatchReturns
  BY <1>0, <1>4, <1>38 DEF DispatchReturns
<1>39. CASE Restarted
  BY <1>0, <1>4, <1>39 DEF Restarted
<1>40. CASE Leave
  BY <1>0, <1>4, <1>40 DEF Leave
<1>41. CASE LeaveSignal
  BY <1>0, <1>4, <1>41, <1>2 DEF LeaveSignal, PnpInv
<1>42. CASE UNCHANGED vars
  BY <1>0, <1>4, <1>42 DEF SignalInv, At
<1>. QED
  BY <1>6, <1>7, <1>8, <1>9, <1>10, <1>11, <1>12, <1>13, <1>14, <1>15,
     <1>16, <1>17, <1>18, <1>19, <1>20, <1>21, <1>22, <1>23, <1>24, <1>25,
     <1>26, <1>27, <1>28, <1>29, <1>30, <1>31, <1>32, <1>33, <1>34, <1>35,
     <1>36, <1>37, <1>38, <1>39, <1>40, <1>41, <1>42
  DEF Next, Serve, ServePnp
\* The count is exact after every step.
LEMMA CountStep == Counting /\ [Next]_vars => PendingCountExact'
<1>. SUFFICES ASSUME Counting, [Next]_vars PROVE PendingCountExact'
  OBVIOUS
<1>. USE DEF vars, gateVars, openVars, countVars, irpVars, pnpVars
<1>1. /\ PnpInv /\ TypeOK /\ pendingIRPCnt \in Int
      /\ PendingCountExact
      /\ Cardinality(InDriver) \in Nat
      /\ Placeholder \in {0, 1} /\ PnpInside \in {0, 1}
  BY InDriverFinite DEF Counting, CountInv, TypeOK, Placeholder, PnpInside
<1>2. pendingIRPCnt' \in Int /\ Placeholder' \in {0, 1} /\ PnpInside' \in {0, 1}
  BY <1>1, CountTypes DEF CountsTyped, Placeholder, PnpInside
<1>3. ASSUME NEW i \in Irps, Prologue(i) PROVE PendingCountExact'
  <2>1. place[i] \notin Counted /\ Move(i, "counted")
    BY <1>3 DEF Prologue, At, Counted
  <2>2. Cardinality(InDriver') = Cardinality(InDriver) + 1
    BY <1>1, <2>1, ComesIn DEF Counted
  <2>3. pendingIRPCnt' = pendingIRPCnt + 1 /\ UNCHANGED <<Placeholder, PnpInside>>
    BY <1>3 DEF Prologue, Placeholder, PnpInside
  <2>. QED  BY <1>1, <2>2, <2>3 DEF PendingCountExact
<1>4. ASSUME NEW i \in Irps, Epilogue(i) PROVE PendingCountExact'
  <2>1. place[i] \in Counted
    BY <1>4 DEF Epilogue, At, Counted
  <2>2. PICK p \in {"signal", "gone"} : Move(i, p)
    BY <1>4 DEF Epilogue
  <2>3. p \in Places \ Counted
    BY DEF Places, Counted
  <2>4. Cardinality(InDriver') = Cardinality(InDriver) - 1
    BY <1>1, <2>1, <2>2, <2>3, GoesOut
  <2>5. pendingIRPCnt' = pendingIRPCnt - 1 /\ UNCHANGED <<Placeholder, PnpInside>>
    BY <1>4 DEF Epilogue, Placeholder, PnpInside
  <2>. QED  BY <1>1, <2>4, <2>5 DEF PendingCountExact
<1>5. UNCHANGED InDriver \/ PendingCountExact'
  BY <1>1, <1>3, <1>4, InDriverKept DEF PnpInv, Passage
<1>6. pendingIRPCnt' - Placeholder' - PnpInside' =
          pendingIRPCnt - Placeholder - PnpInside => PendingCountExact'
  BY <1>1, <1>2, <1>5 DEF PendingCountExact
<1>7. UNCHANGED <<pendingIRPCnt, pc, manager>> => PendingCountExact'
  BY <1>6 DEF Placeholder, PnpInside
<1>8. /\ op = None <=> pc = "idle"
      /\ manager = "removed" => op = None
      /\ pc \notin {"unstall", "dispatch", "signal"}
      /\ pc = "drained" => op = "remove"
      /\ pendingIRPCnt \in Int
  BY <1>1 DEF PnpInv
<1>9. ASSUME NEW i \in Irps, Submit(i) PROVE PendingCountExact'
  BY <1>6, <1>7, <1>8, <1>9 DEF Submit, Move, At
<1>10. ASSUME NEW i \in Irps, CheckCreate(i) PROVE PendingCountExact'
  BY <1>6, <1>7, <1>8, <1>10 DEF CheckCreate, Complete, Move, At
<1>11. ASSUME NEW i \in Irps, Filter(i) PROVE PendingCountExact'
  BY <1>6, <1>7, <1>8, <1>11 DEF Filter, Move, At
<1>12. ASSUME NEW i \in Irps, Stall(i) PROVE PendingCountExact'
  BY <1>6, <1>7, <1>8, <1>12 DEF Stall, Move, At
<1>13. ASSUME NEW i \in Irps, Cancel(i) PROVE PendingCountExact'
  BY <1>6, <1>7, <1>8, <1>13 DEF Cancel, Move, At
<1>14. ASSUME NEW i \in Irps, Open(i) PROVE PendingCountExact'
  BY <1>6, <1>7, <1>8, <1>14 DEF Open, Move, At
<1>15. ASSUME NEW i \in Irps, Close(i) PROVE PendingCountExact'
  BY <1>6, <1>7, <1>8, <1>15 DEF Close, Move, At
<1>16. ASSUME NEW i \in Irps, Perform(i) PROVE PendingCountExact'
  BY <1>6, <1>7, <1>8, <1>16 DEF Perform, Move, At
<1>17. ASSUME NEW i \in Irps, EndPending(i) PROVE PendingCountExact'
  BY <1>6, <1>7, <1>8, <1>17 DEF EndPending, Move, At
<1>18. ASSUME NEW i \in Irps, CompleteRequest(i) PROVE PendingCountExact'
  BY <1>6, <1>7, <1>8, <1>18 DEF CompleteRequest, Complete, Move, At
<1>19. ASSUME NEW i \in Irps, Signal(i) PROVE PendingCountExact'
  BY <1>6, <1>7, <1>8, <1>19 DEF Signal, Move, At
<1>20. ASSUME NEW o \in PnpOps, Enter(o) PROVE PendingCountExact'
  BY <1>6, <1>7, <1>8, <1>20 DEF Enter, Placeholder, PnpInside
<1>21. CASE QueryStop
  BY <1>6, <1>7, <1>8, <1>21
     DEF QueryStop, GrantQuery, RefuseQuery, Answer, Placeholder, PnpInside
<1>22. CASE QueryRemove
  BY <1>6, <1>7, <1>8, <1>22
     DEF QueryRemove, GrantQuery, RefuseQuery, Answer, Placeholder, PnpInside
<1>23. CASE CancelStop
  BY <1>6, <1>7, <1>8, <1>23 DEF CancelStop, Answer, Placeholder, PnpInside
<1>24. CASE CancelRemove
  BY <1>6, <1>7, <1>8, <1>24 DEF CancelRemove, Answer, Placeholder, PnpInside
<1>25. CASE Stop
  BY <1>6, <1>7, <1>8, <1>25 DEF Stop, PnpGo, Placeholder, PnpInside
<1>26. CASE SurpriseRemoval
  BY <1>6, <1>7, <1>8, <1>26 DEF SurpriseRemoval, PnpGo, Placeholder, PnpInside
<1>27. CASE RemoveDevice
  BY <1>6, <1>7, <1>8, <1>27 DEF RemoveDevice, PnpGo, Placeholder, PnpInside
<1>28. CASE KillPendingIrps
  BY <1>6, <1>7, <1>8, <1>28 DEF KillPendingIrps, Placeholder, PnpInside
<1>29. CASE DecrementForEntry
  BY <1>6, <1>7, <1>8, <1>29
     DEF DecrementForEntry, PnpGo, Placeholder, PnpInside
<1>30. CASE DecrementPlaceholder
  BY <1>6, <1>7, <1>8, <1>30, CountFacts
     DEF DecrementPlaceholder, PnpGo, Placeholder, PnpInside
<1>31. CASE WaitForPendingIrps
  BY <1>6, <1>7, <1>8, <1>31
     DEF WaitForPendingIrps, PnpGo, Placeholder, PnpInside
<1>32. CASE FinishStop
  BY <1>6, <1>7, <1>8, <1>32 DEF FinishStop, Placeholder, PnpInside
<1>33. CASE FinishSurpriseRemoval
  BY <1>6, <1>7, <1>8, <1>33 DEF FinishSurpriseRemoval, Placeholder, PnpInside
<1>34. CASE FinishRemove
  BY <1>6, <1>7, <1>8, <1>34 DEF FinishRemove, Placeholder, PnpInside
<1>35. CASE StartFailsBelow
  BY <1>6, <1>7, <1>8, <1>35 DEF StartFailsBelow, Answer, Placeholder, PnpInside
<1>36. CASE RestartWithoutMemory
  BY <1>6, <1>7, <1>8, <1>36
     DEF RestartWithoutMemory, Answer, Placeholder, PnpInside
<1>37. CASE Restart
  BY <1>6, <1>7, <1>8, <1>37 DEF Restart, PnpGo, Placeholder, PnpInside
<1>38. CASE UnstallIrp
  BY <1>6, <1>7, <1>8, <1>38 DEF UnstallIrp, Move, Placeholder, PnpInside
<1>39. CASE DispatchReturns
  BY <1>6, <1>7, <1>8, <1>39 DEF DispatchReturns, Placeholder, PnpInside
<1>40. CASE Restarted
  BY <1>6, <1>7, <1>8, <1>40 DEF Restarted, Placeholder, PnpInside
<1>41. CASE Leave
  BY <1>6, <1>7, <1>8, <1>41, CountFacts DEF Leave, Placeholder, PnpInside
<1>42. CASE LeaveSignal
  BY <1>6, <1>7, <1>8, <1>42 DEF LeaveSignal, Placeholder, PnpInside
<1>43. CASE UNCHANGED vars
  BY <1>6, <1>7, <1>8, <1>43
<1>. QED
  BY <1>9, <1>10, <1>11, <1>12, <1>13, <1>14, <1>15, <1>16, <1>17, <1>18,
     <1>19, <1>20, <1>21, <1>22, <1>23, <1>24, <1>25, <1>26, <1>27, <1>28,
     <1>29, <1>30, <1>31, <1>32, <1>33, <1>34, <1>35, <1>36, <1>37, <1>38,
     <1>39, <1>40, <1>41, <1>42, <1>43, <1>3, <1>4
  DEF Next, Serve, ServePnp

\* A port that is only queried and removed counts its requests exactly, ...
THEOREM CountingInductive ==
    ASSUME PnpOps \subseteq CountingOps
    PROVE  Spec => []CountInv
<1>1. Init => CountInv
  <2>. SUFFICES ASSUME Init PROVE CountInv
    OBVIOUS
  <2>1. InDriver = {}
    BY DEF Init, InDriver, Counted
  <2>2. PendingCountExact
    <3>1. Placeholder = 1 /\ PnpInside = 0 /\ Cardinality(InDriver) = 0
      BY <2>1, FS_EmptySet DEF Init, Placeholder, PnpInside
    <3>. QED  BY <3>1 DEF Init, PendingCountExact
  <2>3. PnpInv
    BY DEF Init, PnpInv
  <2>4. NoneComesInv /\ DrainedInv
    BY <2>1, SerialPnpAssumption DEF Init, NoneComesInv, DrainedInv, AllPnpOps
  <2>5. SignalInv
    BY DEF Init, SignalInv, At
  <2>. QED  BY <2>2, <2>3, <2>4, <2>5 DEF CountInv
<1>2. TypeOK /\ CountInv /\ [Next]_vars => CountInv'
  BY PnpInvStep, NoneComesStep, DrainedStep, SignalStep, CountStep
  DEF CountInv, Counting
<1>. QED  BY <1>1, <1>2, TypeCorrect, PTL DEF Spec

\* ... PendingIRPCnt is the number of requests between prologue and epilogue,
\* with the PnP request and the placeholder, ...
THEOREM PendingCountAlwaysExact ==
    ASSUME PnpOps \subseteq CountingOps
    PROVE  Spec => []PendingCountExact
<1>1. CountInv => PendingCountExact
  BY DEF CountInv
<1>. QED  BY <1>1, CountingInductive, PTL

\* ... and a remove that has waited finds the driver empty.
THEOREM RemoveAlwaysDrains ==
    ASSUME PnpOps \subseteq CountingOps
    PROVE  Spec => []RemoveDrains
<1>1. CountInv => RemoveDrains
  BY DEF CountInv, DrainedInv, RemoveDrains
<1>. QED  BY <1>1, CountingInductive, PTL
=============================================================================
