-------------------------- MODULE SerialWriteProofs --------------------------
(***************************************************************************)
(* Proofs about SerialWrite for any number of requests and of contexts:    *)
(* its inductive invariant IInv, the safety properties that follow from    *)
(* it, and that its write queue implements IrpQueue.                       *)
(*                                                                         *)
(* The facts come first: for each action, which fields it changes and how  *)
(* (<action>Facts).  SerialTryToCompleteCurrent, which the four routines   *)
(* that end a request share, is one step there (Ending).  From the facts   *)
(* each conjunct of IInv has a lemma <conjunct>Step with one step per      *)
(* action; the actions that have nothing to do with a conjunct are sorted  *)
(* out once, by what they leave alone (Aside, SlotKept, LineKept).         *)
(*                                                                         *)
(* TotalCharsQueued is counted in units: a request on the books has as     *)
(* many as it has characters, and a step changes those of one request at   *)
(* most (CountRaised, CountLowered).                                       *)
(*                                                                         *)
(* The invariant needs what write.c asserts of an XOFF counter that is     *)
(* started, that no other is current (CounterSlotFree).  With two counters *)
(* the assertion can fail; with one, it holds (OneCounterIsFree).          *)
(***************************************************************************)
EXTENDS SerialWrite, QueueLemmas, FiniteSetTheorems

-----------------------------------------------------------------------------
(* What the actions do, field by field. *)

\* Nothing but request i changes.
OnlyRequest(i) ==
    \A j \in Irps : j # i =>
        irp'[j] = irp[j] /\ completions'[j] = completions[j]

\* Nothing but slot s changes.
OnlySlot(s) == \A r \in Slots : r # s => slot'[r] = slot[r]

\* Context c goes to p and nobody else moves.
Moves(c, p) == pc'[c] = p /\ \A d \in Contexts : d # c => pc'[d] = pc[d]

\* The fields of a request that only the UART's side changes.
SameProgress(i) == irp'[i].info = irp[i].info /\ irp'[i].wire = irp[i].wire

SameHolders(i) == irp'[i].refs = irp[i].refs /\ irp'[i].routine = irp[i].routine

\* The request is completed, with n characters that stay counted.
Finished(i, n) ==
    /\ OnlyRequest(i)
    /\ completions'[i] = completions[i] + 1
    /\ irp'[i].status = "done"
    /\ irp'[i].refs = {} /\ irp'[i].routine = "none"
    /\ ~irp'[i].cancel
    /\ irp'[i].length = n /\ irp'[i].info = 0 /\ irp'[i].wire = 0

\* The request is accepted and gets routine r.
Accepted(i, r) ==
    /\ OnlyRequest(i)
    /\ completions' = completions
    /\ irp'[i].status = "pending"
    /\ irp'[i].length \in Lengths(i)
    /\ irp'[i].routine = r
    /\ irp'[i].refs = irp[i].refs
    /\ irp'[i].cancel = irp[i].cancel
    /\ SameProgress(i)
    /\ chars' = chars + irp'[i].length

\* Slot s gets request i, to do n characters.
Handed(s, i, n) ==
    /\ OnlyRequest(i) /\ OnlySlot(s)
    /\ completions' = completions
    /\ irp'[i].routine = s
    /\ \A r : r \in irp'[i].refs <=> \/ r \in {"cancel", "isr"}
                                     \/ r = "timer" /\ slot'[s].timer
    /\ irp'[i].status = irp[i].status
    /\ irp'[i].cancel = irp[i].cancel
    /\ irp'[i].length = irp[i].length
    /\ SameProgress(i)
    /\ slot'[s].irp = i /\ slot'[s].owed = n
    /\ slot'[s].timer \in BOOLEAN
    /\ slot'[s].sent = slot[s].sent /\ slot'[s].late = slot[s].late

\* The request's status becomes st.
Becomes(i, st) ==
    /\ OnlyRequest(i)
    /\ completions' = completions
    /\ irp'[i].status = st
    /\ SameHolders(i) /\ SameProgress(i)
    /\ irp'[i].cancel = irp[i].cancel
    /\ irp'[i].length = irp[i].length

\* The types of a request's fields.
LEMMA RequestTypes ==
    ASSUME TypeOK, NEW i \in Irps
    PROVE  /\ irp[i].cancel \in BOOLEAN
           /\ irp[i].routine \in {"none", "queued"} \cup Slots
           /\ irp[i].refs \subseteq RefTypes
           /\ irp[i].length \in 0..MaxLen
           /\ irp[i].info \in 0..MaxLen
           /\ irp[i].wire \in 0..MaxLen
           /\ irp[i].status \in {"new", "pending", "success", "timeout",
                                 "cancelled", "done"}
           /\ completions[i] \in Nat
  BY DEF TypeOK, Irp

\* The types of a slot's fields.
LEMMA SlotTypes ==
    ASSUME TypeOK, NEW s \in Slots
    PROVE  /\ slot[s].irp \in Irps \cup {None}
           /\ slot[s].owed \in 0..(MaxLen + MaxCounter)
           /\ slot[s].timer \in BOOLEAN
           /\ slot[s].sent \in BOOLEAN
           /\ slot[s].late \in BOOLEAN
  BY DEF TypeOK, Slot

\* The fields of a request that is new, and of one that has ended.
LEMMA NewFields ==
    /\ New.status = "new" /\ New.refs = {} /\ New.routine = "none"
    /\ New.cancel = FALSE
    /\ New.length = 0 /\ New.info = 0 /\ New.wire = 0
    /\ Ended.status = "done" /\ Ended.refs = {} /\ Ended.routine = "none"
    /\ Ended.cancel = FALSE
    /\ Ended.length = 0 /\ Ended.info = 0 /\ Ended.wire = 0
  BY DEF New, Ended

\* Completing a request leaves nothing on the books,
LEMMA FinishFacts ==
    ASSUME TypeOK, NEW i \in Irps, Finish(i)
    PROVE  Finished(i, 0)
  BY NewFields DEF Finish, Complete, Finished, OnlyRequest, TypeOK

\* or, when it was cancelled too early for that, its characters.
LEMMA FinishCountedFacts ==
    ASSUME TypeOK, NEW i \in Irps, NEW n, FinishCounted(i, n)
    PROVE  Finished(i, n)
  BY DEF FinishCounted, Complete, Finished, OnlyRequest, TypeOK, New, Ended

\* Going to another place moves one context.
LEMMA MoveFacts ==
    ASSUME TypeOK, NEW c \in Contexts, NEW p, Go(c, p)
    PROVE  Moves(c, p)
  BY DEF TypeOK, Go, Moves

\* HandToIsr changes one slot and the request it is given.
LEMMA HandFacts ==
    ASSUME TypeOK, NEW s \in Slots, NEW i \in Irps, NEW n, HandToIsr(s, i, n),
           UNCHANGED completions
    PROVE  Handed(s, i, n)
<1>1. PICK t \in TimerChoices :
          /\ irp' = [irp EXCEPT ![i].routine = s,
                                ![i].refs = {"cancel", "isr"} \cup
                                            (IF t THEN {"timer"} ELSE {})]
          /\ slot' = [slot EXCEPT ![s].irp = i, ![s].owed = n, ![s].timer = t]
  BY DEF HandToIsr
<1>2. t \in BOOLEAN
  BY SerialWriteAssumption
<1>3. /\ slot'[s].irp = i /\ slot'[s].owed = n
      /\ slot'[s].timer = t
      /\ slot'[s].sent = slot[s].sent /\ slot'[s].late = slot[s].late
      /\ OnlySlot(s)
  BY <1>1 DEF TypeOK, Slot, OnlySlot
<1>4. /\ irp'[i].routine = s
      /\ irp'[i].refs = {"cancel", "isr"} \cup (IF t THEN {"timer"} ELSE {})
      /\ irp'[i].status = irp[i].status
      /\ irp'[i].cancel = irp[i].cancel
      /\ irp'[i].length = irp[i].length
      /\ SameProgress(i)
      /\ OnlyRequest(i)
  BY <1>1 DEF TypeOK, Irp, SameProgress, OnlyRequest
<1>. QED  BY <1>2, <1>3, <1>4 DEF Handed

\* SerialStartOrQueue with nothing in the way: the request is the current write.
LEMMA StartFacts ==
    ASSUME TypeOK, NEW c \in Contexts, NEW i \in Irps, StartAtDispatch(c, i)
    PROVE  /\ AtPlace(c, "idle") /\ i \in QueueIrps /\ Fresh(i)
           /\ queue = <<>> /\ CurrentWrite = None
           /\ Accepted(i, irp[i].routine)
           /\ OnlySlot("write")
           /\ slot'["write"].irp = i
           /\ slot'["write"].owed = slot["write"].owed
           /\ slot'["write"].timer = slot["write"].timer
           /\ slot'["write"].sent = slot["write"].sent
           /\ slot'["write"].late = slot["write"].late
           /\ Moves(c, IF i \in Flushes THEN "pop" ELSE "start")
           /\ UNCHANGED <<queue, uartVars>>
<1>1. "write" \in Slots
  BY DEF Slots
<1>2. Moves(c, IF i \in Flushes THEN "pop" ELSE "start")
  BY MoveFacts DEF StartAtDispatch
<1>3. Accepted(i, irp[i].routine)
  BY DEF StartAtDispatch, Accepted, OnlyRequest, SameProgress, TypeOK, Irp
<1>. QED  BY <1>1, <1>2, <1>3 DEF StartAtDispatch, OnlySlot, TypeOK, Slot

\* SerialStartOrQueue with a write before it: the request waits its turn.
LEMMA QueueFacts ==
    ASSUME TypeOK, NEW i \in Irps, QueueAtDispatch(i)
    PROVE  /\ i \in QueueIrps /\ Fresh(i) /\ ~irp[i].cancel
           /\ queue # <<>> \/ CurrentWrite # None
           /\ Accepted(i, "queued")
           /\ queue' = Append(queue, i)
           /\ UNCHANGED <<slot, uartVars, pc>>
  BY DEF QueueAtDispatch, Accepted, OnlyRequest, SameProgress, TypeOK, Irp

\* An immediate character goes to its slot, never to the queue.
LEMMA ImmediateFacts ==
    ASSUME TypeOK, NEW c \in Contexts, NEW i \in Irps, ImmediateAtDispatch(c, i)
    PROVE  /\ AtPlace(c, "idle") /\ i \in Immediates /\ Fresh(i)
           /\ CurrentImmediate = None
           /\ Accepted(i, irp[i].routine)
           /\ OnlySlot("immediate")
           /\ slot'["immediate"].irp = i
           /\ slot'["immediate"].owed = slot["immediate"].owed
           /\ slot'["immediate"].timer = slot["immediate"].timer
           /\ slot'["immediate"].sent = slot["immediate"].sent
           /\ slot'["immediate"].late = slot["immediate"].late
           /\ Moves(c, "istart")
           /\ UNCHANGED <<queue, uartVars>>
<1>1. "immediate" \in Slots
  BY DEF Slots
<1>2. Moves(c, "istart")
  BY MoveFacts DEF ImmediateAtDispatch
<1>3. 1 \in Lengths(i)
  BY SerialWriteAssumption DEF ImmediateAtDispatch, Lengths, QueueIrps
<1>4. Accepted(i, irp[i].routine)
  BY <1>3
     DEF ImmediateAtDispatch, Accepted, OnlyRequest, SameProgress, TypeOK, Irp
<1>. QED
  BY <1>1, <1>2, <1>4 DEF ImmediateAtDispatch, OnlySlot, TypeOK, Slot

\* What is in a slot is a request.
LEMMA CurrentRequest ==
    ASSUME TypeOK, NEW s \in Slots, slot[s].irp # None
    PROVE  slot[s].irp \in Irps
  BY SlotTypes

\* The three slots.
LEMMA SlotNames ==
    "write" \in Slots /\ "xoff" \in Slots /\ "immediate" \in Slots
  BY DEF Slots

\* IoCancelIrp of a request without a cancel routine leaves a mark.
LEMMA FlagFacts ==
    ASSUME TypeOK, NEW i \in Irps, FlagCancel(i)
    PROVE  /\ completions[i] = 0 \/ i = CurrentWrite
           /\ irp[i].routine = "none" /\ ~irp[i].cancel
           /\ OnlyRequest(i)
           /\ irp'[i].cancel
           /\ SameHolders(i) /\ SameProgress(i)
           /\ irp'[i].status = irp[i].status
           /\ irp'[i].length = irp[i].length
           /\ UNCHANGED <<completions, queue, slot, chars, uartVars, pc>>
  BY DEF FlagCancel, OnlyRequest, SameHolders, SameProgress, TypeOK, Irp

\* A write that was cancelled before it got to the ISR is not given to it.
LEMMA CancelledFacts ==
    ASSUME TypeOK, NEW c \in Contexts, FinishCancelled(c), CurrentWrite # None
    PROVE  /\ Giving(c)
           /\ irp[CurrentWrite].cancel
           /\ CurrentWrite \in Irps
           /\ Becomes(CurrentWrite, "cancelled")
           /\ Moves(c, "next")
           /\ UNCHANGED <<queue, slot, chars, uartVars>>
<1>1. CurrentWrite \in Irps
  BY CurrentRequest, SlotNames DEF CurrentWrite
<1>2. Moves(c, "next")
  BY MoveFacts DEF FinishCancelled
<1>. QED
  BY <1>1, <1>2 DEF FinishCancelled, Becomes, OnlyRequest, SameHolders,
                    SameProgress, TypeOK, Irp

\* A write that was not goes to the ISR.
LEMMA GiveFacts ==
    ASSUME TypeOK, NEW c \in Contexts, GiveWrite(c), CurrentWrite # None
    PROVE  /\ Giving(c)
           /\ ~irp[CurrentWrite].cancel
           /\ CurrentWrite \in Irps
           /\ Handed("write", CurrentWrite, irp[CurrentWrite].length)
           /\ Tickle(slot["immediate"].owed = 0)
           /\ Moves(c, "idle")
           /\ UNCHANGED <<queue, chars, held, holdingEmpty, flowChar, emptied,
                          announced>>
<1>1. CurrentWrite \in Irps
  BY CurrentRequest, SlotNames DEF CurrentWrite
<1>2. Moves(c, "idle")
  BY MoveFacts DEF GiveWrite
<1>3. Handed("write", CurrentWrite, irp[CurrentWrite].length)
  BY <1>1, HandFacts, SlotNames DEF GiveWrite
<1>. QED  BY <1>1, <1>2, <1>3 DEF GiveWrite

\* A counter whose character was sent leaves the write slot to count.
LEMMA AccountXoffFacts ==
    ASSUME TypeOK, NEW c \in Contexts, AccountXoff(c), CurrentWrite # None
    PROVE  /\ AtPlace(c, "next")
           /\ StartsCounting(CurrentWrite)
           /\ CurrentWrite \in Irps
           /\ chars' = chars - 1
           /\ \/ /\ irp[CurrentWrite].cancel
                 /\ Becomes(CurrentWrite, "cancelled")
                 /\ UNCHANGED slot
                 /\ Moves(c, "pop")
              \/ /\ ~irp[CurrentWrite].cancel
                 /\ \E n \in 1..MaxCounter : Handed("xoff", CurrentWrite, n)
                 /\ Moves(c, "keep")
           /\ UNCHANGED <<queue, uartVars>>
<1>1. CurrentWrite \in Irps
  BY CurrentRequest, SlotNames DEF CurrentWrite
<1>2. /\ AtPlace(c, "next") /\ StartsCounting(CurrentWrite)
      /\ chars' = chars - 1
      /\ UNCHANGED <<completions, queue, uartVars>>
  BY DEF AccountXoff
<1>3. CASE irp[CurrentWrite].cancel
  <2>1. Moves(c, "pop")
    BY <1>3, MoveFacts DEF AccountXoff
  <2>3. irp' = [irp EXCEPT ![CurrentWrite].status = "cancelled"]
    BY <1>3 DEF AccountXoff
  <2>2. Becomes(CurrentWrite, "cancelled")
    BY <1>1, <1>2, <2>3 DEF Becomes, OnlyRequest, SameHolders, SameProgress,
                            TypeOK, Irp
  <2>. QED  BY <1>1, <1>2, <1>3, <2>1, <2>2 DEF AccountXoff
<1>4. CASE ~irp[CurrentWrite].cancel
  <2>1. Moves(c, "keep")
    BY <1>4, MoveFacts DEF AccountXoff
  <2>2. PICK n \in 1..MaxCounter : HandToIsr("xoff", CurrentWrite, n)
    BY <1>4 DEF AccountXoff
  <2>3. Handed("xoff", CurrentWrite, n)
    BY <1>1, <1>2, <2>2, HandFacts, SlotNames
  <2>. QED  BY <1>1, <1>2, <1>4, <2>1, <2>3
<1>. QED  BY <1>3, <1>4

\* SerialGetNextWrite ends the current write and takes the next from the queue.
LEMMA NextIrpFacts ==
    ASSUME TypeOK, NEW c \in Contexts, GetNextIrp(c)
    PROVE  LET next == IF queue = <<>> THEN None ELSE Head(queue)
               ended(i) == AtPlace(c, "pop") /\ i = CurrentWrite
           IN  /\ pc[c] \in {"pop", "keep"}
               /\ \A i \in Irps : ended(i) => /\ irp'[i] = Ended
                                              /\ completions'[i]
                                                     = completions[i] + 1
               /\ \A i \in Irps : ~ended(i) => completions'[i] = completions[i]
               /\ \A i \in Irps : ~ended(i) /\ i # next => irp'[i] = irp[i]
               /\ \A i \in Irps : ~ended(i) /\ i = next =>
                      irp'[i] = [irp[i] EXCEPT !.routine = "none"]
               /\ OnlySlot("write")
               /\ slot'["write"].irp = next
               /\ slot'["write"].owed = slot["write"].owed
               /\ slot'["write"].timer = slot["write"].timer
               /\ slot'["write"].sent = slot["write"].sent
               /\ slot'["write"].late = slot["write"].late
               /\ queue' = IF queue = <<>> THEN <<>> ELSE Tail(queue)
               /\ Moves(c, IF queue = <<>> THEN "empty"
                           ELSE IF next \in Flushes THEN pc[c] ELSE "start")
               /\ UNCHANGED <<chars, uartVars>>
<1>. DEFINE next == IF queue = <<>> THEN None ELSE Head(queue)
            ended == IF AtPlace(c, "pop") THEN {CurrentWrite} ELSE {}
<1>1. /\ pc[c] \in {"pop", "keep"}
      /\ irp' = [i \in Irps |->
                    IF i \in ended THEN Ended
                    ELSE IF i = next THEN [irp[i] EXCEPT !.routine = "none"]
                    ELSE irp[i]]
      /\ completions' = [i \in Irps |->
                            completions[i] + IF i \in ended THEN 1 ELSE 0]
      /\ slot' = [slot EXCEPT !["write"].irp = next]
      /\ queue' = IF queue = <<>> THEN <<>> ELSE Tail(queue)
      /\ Go(c, IF queue = <<>> THEN "empty"
               ELSE IF next \in Flushes THEN pc[c] ELSE "start")
      /\ UNCHANGED <<chars, uartVars>>
  BY DEF GetNextIrp
<1>2. Moves(c, IF queue = <<>> THEN "empty"
               ELSE IF next \in Flushes THEN pc[c] ELSE "start")
  BY <1>1, MoveFacts
<1>3. /\ OnlySlot("write")
      /\ slot'["write"].irp = next
      /\ slot'["write"].owed = slot["write"].owed
      /\ slot'["write"].timer = slot["write"].timer
      /\ slot'["write"].sent = slot["write"].sent
      /\ slot'["write"].late = slot["write"].late
  BY <1>1, SlotNames DEF OnlySlot, TypeOK, Slot
<1>4. \A i \in Irps : completions[i] \in Nat
  BY DEF TypeOK
<1>. HIDE DEF next
<1>5. \A i \in Irps : i \in ended => /\ irp'[i] = Ended
                                     /\ completions'[i] = completions[i] + 1
  BY <1>1
<1>6. \A i \in Irps : i \notin ended => completions'[i] = completions[i]
  BY <1>1, <1>4
<1>7. \A i \in Irps : i \notin ended /\ i # next => irp'[i] = irp[i]
  BY <1>1
<1>8. \A i \in Irps : i \notin ended /\ i = next =>
                      irp'[i] = [irp[i] EXCEPT !.routine = "none"]
  BY <1>1
<1>9. \A i : i \in ended <=> AtPlace(c, "pop") /\ i = CurrentWrite
  OBVIOUS
<1>. HIDE DEF ended
<1>. QED  BY <1>1, <1>2, <1>3, <1>5, <1>6, <1>7, <1>8, <1>9 DEF next

\* The same for an immediate character: cancelled before it got to the ISR,
LEMMA ImmediateCancelledFacts ==
    ASSUME TypeOK, NEW c \in Contexts, FinishImmediateCancelled(c),
           CurrentImmediate # None
    PROVE  /\ AtPlace(c, "istart")
           /\ irp[CurrentImmediate].cancel
           /\ CurrentImmediate \in Irps
           /\ Finished(CurrentImmediate, 1)
           /\ OnlySlot("immediate")
           /\ slot'["immediate"] = [slot["immediate"] EXCEPT !.irp = None]
           /\ Moves(c, "idle")
           /\ UNCHANGED <<queue, chars, uartVars>>
<1>1. CurrentImmediate \in Irps
  BY CurrentRequest, SlotNames DEF CurrentImmediate
<1>2. Moves(c, "idle")
  BY MoveFacts DEF FinishImmediateCancelled
<1>3. Finished(CurrentImmediate, 1)
  BY <1>1, FinishCountedFacts DEF FinishImmediateCancelled
<1>. QED
  BY <1>1, <1>2, <1>3, SlotNames DEF FinishImmediateCancelled, OnlySlot, TypeOK

\* or given to it,
LEMMA GiveImmediateFacts ==
    ASSUME TypeOK, NEW c \in Contexts, GiveImmediate(c), CurrentImmediate # None
    PROVE  /\ AtPlace(c, "istart")
           /\ ~irp[CurrentImmediate].cancel
           /\ CurrentImmediate \in Irps
           /\ Handed("immediate", CurrentImmediate, 1)
           /\ Tickle(slot["write"].owed = 0)
           /\ Moves(c, "idle")
           /\ UNCHANGED <<queue, chars, held, holdingEmpty, flowChar, emptied,
                          announced>>
<1>1. CurrentImmediate \in Irps
  BY CurrentRequest, SlotNames DEF CurrentImmediate
<1>2. Moves(c, "idle")
  BY MoveFacts DEF GiveImmediate
<1>3. Handed("immediate", CurrentImmediate, 1)
  BY <1>1, HandFacts, SlotNames DEF GiveImmediate
<1>. QED  BY <1>1, <1>2, <1>3 DEF GiveImmediate

\* and completed at the end.
LEMMA NextImmediateFacts ==
    ASSUME TypeOK, NEW c \in Contexts, GetNextImmediate(c),
        CurrentImmediate # None
    PROVE  /\ AtPlace(c, "inext")
           /\ CurrentImmediate \in Irps
           /\ Finished(CurrentImmediate, 0)
           /\ OnlySlot("immediate")
           /\ slot'["immediate"] = [slot["immediate"] EXCEPT !.irp = None]
           /\ Moves(c, "idle")
           /\ chars' = chars - 1
           /\ Announce(slot["immediate"].owed = 0, CurrentWrite = None)
           /\ UNCHANGED <<queue, held, holdingEmpty, uart, flowChar, emptied,
                          stranded>>
<1>1. CurrentImmediate \in Irps
  BY CurrentRequest, SlotNames DEF CurrentImmediate
<1>2. Moves(c, "idle")
  BY MoveFacts DEF GetNextImmediate
<1>3. Finished(CurrentImmediate, 0)
  BY <1>1, FinishFacts DEF GetNextImmediate
<1>. QED
  BY <1>1, <1>2, <1>3, SlotNames DEF GetNextImmediate, OnlySlot, TypeOK

\* A received character is one less for the counter to wait for.
LEMMA CountFacts ==
    ASSUME TypeOK, CountSinceXoff
    PROVE  /\ slot["xoff"].owed > 0
           /\ OnlySlot("xoff")
           /\ slot'["xoff"].irp = slot["xoff"].irp
           /\ slot'["xoff"].owed = slot["xoff"].owed - 1
           /\ slot'["xoff"].timer = slot["xoff"].timer
           /\ slot'["xoff"].sent <=> slot["xoff"].sent \/ slot["xoff"].owed = 1
           /\ slot'["xoff"].late = slot["xoff"].late
           /\ UNCHANGED <<irp, completions, queue, chars, uartVars, pc>>
  BY SlotNames DEF CountSinceXoff, OnlySlot, TypeOK, Slot

\* A timer that expires queues its DPC.
LEMMA ExpireFacts ==
    ASSUME TypeOK, NEW s \in Slots, Expire(s)
    PROVE  /\ slot[s].timer
           /\ OnlySlot(s)
           /\ slot'[s].irp = slot[s].irp
           /\ slot'[s].owed = slot[s].owed
           /\ ~slot'[s].timer
           /\ slot'[s].sent = slot[s].sent
           /\ slot'[s].late
           /\ UNCHANGED <<irp, completions, queue, chars, uartVars, pc>>
  BY DEF Expire, OnlySlot, TypeOK, Slot

\* SerialCancelQueued takes a request out of the queue and completes it.
LEMMA WithdrawFacts ==
    ASSUME TypeOK, NEW i \in Irps, CancelQueuedIrp(i)
    PROVE  /\ irp[i].routine = "queued"
           /\ \E n \in 1..Len(queue) :
                  queue[n] = i /\ queue' = RemoveAt(queue, n)
           /\ Finished(i, 0)
           /\ chars' = chars - irp[i].length
           /\ UNCHANGED <<slot, uartVars, pc>>
<1>1. DOMAIN queue = 1..Len(queue)
  BY LenProperties DEF TypeOK
<1>. QED  BY <1>1, FinishFacts DEF CancelQueuedIrp

\* The UART takes the immediate character.
LEMMA SendImmediateFacts ==
    ASSUME TypeOK, SendImmediate, CurrentImmediate # None
    PROVE  /\ CurrentImmediate \in Irps
           /\ OnlySlot("immediate")
           /\ slot'["immediate"].irp = slot["immediate"].irp
           /\ slot'["immediate"].owed = 0
           /\ slot'["immediate"].timer = slot["immediate"].timer
           /\ slot'["immediate"].sent
           /\ slot'["immediate"].late = slot["immediate"].late
           /\ \A j \in Irps : j # CurrentImmediate => irp'[j] = irp[j]
           /\ LET i == CurrentImmediate
              IN  /\ SameHolders(i)
                  /\ irp'[i].wire = 1 /\ irp'[i].info = irp[i].info
                  /\ irp'[i].status = irp[i].status
                  /\ irp'[i].length = irp[i].length
                  /\ irp'[i].cancel = irp[i].cancel
<1>1. CurrentImmediate \in Irps
  BY CurrentRequest, SlotNames DEF CurrentImmediate
<1>2. /\ OnlySlot("immediate")
      /\ slot'["immediate"].irp = slot["immediate"].irp
      /\ slot'["immediate"].owed = 0
      /\ slot'["immediate"].timer = slot["immediate"].timer
      /\ slot'["immediate"].sent
      /\ slot'["immediate"].late = slot["immediate"].late
  BY SlotNames DEF SendImmediate, OnlySlot, TypeOK, Slot
<1>. QED
  BY <1>1, <1>2 DEF SendImmediate, SameHolders, TypeOK, Irp

\* The UART takes one character of the write, or a FIFO full of them.
LEMMA SendWriteFacts ==
    ASSUME TypeOK, SendWrite, CurrentWrite # None, slot["write"].owed > 0
    PROVE  LET i == CurrentWrite
               old == slot["write"].owed
               new == slot'["write"].owed
           IN  /\ i \in Irps
               /\ new \in 0..(old - 1)
               /\ OnlySlot("write")
               /\ slot'["write"].irp = i
               /\ slot'["write"].timer = slot["write"].timer
               /\ slot'["write"].sent <=> slot["write"].sent \/ new = 0
               /\ slot'["write"].late = slot["write"].late
               /\ \A j \in Irps : j # i => irp'[j] = irp[j]
               /\ SameHolders(i)
               /\ irp'[i].wire = irp[i].wire + (old - new)
               /\ irp'[i].info = IF new = 0 /\ i \in Writes THEN irp[i].length
                                 ELSE irp[i].info
               /\ irp'[i].status = irp[i].status
               /\ irp'[i].length = irp[i].length
               /\ irp'[i].cancel = irp[i].cancel
<1>. DEFINE n == Lesser(FifoSize, slot["write"].owed)
            last == n = slot["write"].owed
<1>1. CurrentWrite \in Irps
  BY CurrentRequest, SlotNames DEF CurrentWrite
<1>2. slot["write"].owed \in Nat
  BY SlotTypes, SlotNames, SerialWriteAssumption
<1>3. n \in 1..slot["write"].owed
  BY <1>2, SerialWriteAssumption DEF Lesser
<1>4. /\ slot' = [slot EXCEPT !["write"].owed = @ - n,
                              !["write"].sent = @ \/ last]
      /\ irp' = [irp EXCEPT ![CurrentWrite].wire = @ + n,
                            ![CurrentWrite].info =
                                IF last /\ CurrentWrite \in Writes
                                THEN irp[CurrentWrite].length ELSE @]
  BY DEF SendWrite
<1>. HIDE DEF n
<1>5. /\ OnlySlot("write")
      /\ slot'["write"].irp = slot["write"].irp
      /\ slot'["write"].owed = slot["write"].owed - n
      /\ slot'["write"].timer = slot["write"].timer
      /\ slot'["write"].sent <=> slot["write"].sent \/ last
      /\ slot'["write"].late = slot["write"].late
  BY <1>4, SlotNames DEF OnlySlot, TypeOK, Slot
<1>6. last <=> slot'["write"].owed = 0
  BY <1>2, <1>3, <1>5
<1>7. /\ slot'["write"].owed \in 0..(slot["write"].owed - 1)
      /\ n = slot["write"].owed - slot'["write"].owed
  BY <1>2, <1>3, <1>5
<1>8. /\ \A j \in Irps : j # CurrentWrite => irp'[j] = irp[j]
      /\ SameHolders(CurrentWrite)
      /\ irp'[CurrentWrite].wire = irp[CurrentWrite].wire + n
      /\ irp'[CurrentWrite].info = IF last /\ CurrentWrite \in Writes
                                   THEN irp[CurrentWrite].length
                                   ELSE irp[CurrentWrite].info
      /\ irp'[CurrentWrite].status = irp[CurrentWrite].status
      /\ irp'[CurrentWrite].length = irp[CurrentWrite].length
      /\ irp'[CurrentWrite].cancel = irp[CurrentWrite].cancel
  BY <1>1, <1>4 DEF SameHolders, TypeOK, Irp
<1>. HIDE DEF last
<1>. QED  BY <1>1, <1>5, <1>6, <1>7, <1>8 DEF CurrentWrite


-----------------------------------------------------------------------------
(* The four endings are one: whoever gives up its reference h to the       *)
(* request of slot s leaves those of the DPCs that are still to come.      *)

EndingOf(h, st) ==
    <<h, st>> \in { <<"isr", "success">>, <<"xoffref", "success">>,
                    <<"timer", "timeout">>, <<"cancel", "cancelled">> }

Ending(c, s, h, st) ==
    LET i == slot[s].irp
        sent == slot[s].sent /\ h # "isr"
        late == slot[s].late /\ h # "timer"
        last == ~sent /\ ~late
    IN  /\ i \in Irps /\ ~InHand(s)
        /\ AtPlace(c, "idle") \/ (AtPlace(c, "start") /\ s = "xoff")
        /\ h = "isr" => slot[s].sent
        /\ h = "timer" => slot[s].late
        /\ h = "xoffref" => s = "xoff"
        /\ OnlyRequest(i) /\ OnlySlot(s)
        /\ slot'[s].irp = IF last /\ s = "xoff" THEN None ELSE i
        /\ slot'[s].owed = 0 /\ ~slot'[s].timer
        /\ slot'[s].sent <=> sent
        /\ slot'[s].late <=> late
        /\ last /\ s = "xoff" => Finished(i, 0)
        /\ ~(last /\ s = "xoff") =>
               /\ completions'[i] = completions[i]
               /\ \A r : r \in irp'[i].refs <=>
                      (r = "isr" /\ sent) \/ (r = "timer" /\ late)
               /\ irp'[i].routine = "none"
               /\ irp'[i].status = IF last THEN st ELSE irp[i].status
               /\ irp'[i].info =
                      IF i \notin Writes \/ (last /\ st = "cancelled") THEN 0
                      ELSE IF slot[s].owed > 0 THEN AmountSent(i)
                      ELSE irp[i].info
               /\ irp'[i].wire = irp[i].wire
               /\ irp'[i].length = irp[i].length
        /\ Moves(c, IF last /\ s = "write" THEN "next"
                    ELSE IF last /\ s = "immediate" THEN "inext"
                    ELSE IF AtPlace(c, "start") THEN "give" ELSE "idle")
        /\ UNCHANGED <<queue, chars, uartVars>>

\* What RefsExact says of a slot somebody holds.
LEMMA HeldRefs ==
    ASSUME TypeOK, RefsMatchHolders, NEW s \in Slots, slot[s].irp # None,
        ~InHand(s)
    PROVE  LET refs == irp[slot[s].irp].refs
           IN  /\ "isr" \in refs <=> slot[s].owed > 0 \/ slot[s].sent
               /\ "timer" \in refs <=> slot[s].timer \/ slot[s].late
               /\ "cancel" \in refs <=> irp[slot[s].irp].routine = s
               /\ refs # {} /\ refs \subseteq RefTypes
               /\ slot[s].sent => ~(slot[s].owed > 0)
               /\ slot[s].late => ~slot[s].timer
<1>1. RefsExact(s)
  BY DEF RefsMatchHolders
<1>2. irp[slot[s].irp].refs \subseteq RefTypes
  BY RequestTypes, CurrentRequest
<1>. QED  BY <1>1, <1>2 DEF RefsExact

\* SerialTryToCompleteCurrent ends what is in a slot, or leaves it to others.
LEMMA EndingFacts ==
    ASSUME TypeOK, RefsMatchHolders,
           NEW c \in Contexts, NEW s \in Slots, NEW h, NEW st,
           NEW sync \in BOOLEAN, NEW timed \in BOOLEAN,
           TryToCompleteCurrent(c, s, h, st, sync, timed),
           slot[s].irp # None, ~InHand(s), EndingOf(h, st),
           \A r \in Slots : irp[slot[s].irp].routine = r => r = s,
           irp[slot[s].irp].routine # "queued",
           AtPlace(c, "idle") \/ (AtPlace(c, "start") /\ s = "xoff"),
           ~sync => slot[s].sent,
           ~timed => slot[s].late,
           h = "isr" => slot[s].sent,
           h = "timer" => slot[s].late,
           h = "xoffref" => s = "xoff"
    PROVE  Ending(c, s, h, st)
<1>. DEFINE i == slot[s].irp
            left == ReferencesLeft(s, h, sync, timed)
            last == left = {}
            sent == slot[s].sent /\ h # "isr"
            late == slot[s].late /\ h # "timer"
<1>1. /\ i \in Irps
      /\ irp[i].routine \in {"none", s}
      /\ irp[i].refs \subseteq RefTypes
      /\ slot[s].owed \in Nat
  <2>1. i \in Irps
    BY CurrentRequest
  <2>2. /\ irp[i].routine \in {"none", "queued"} \cup Slots
        /\ irp[i].refs \subseteq RefTypes
    BY <2>1, RequestTypes
  <2>3. slot[s].owed \in Nat
    BY SlotTypes, SerialWriteAssumption
  <2>. QED  BY <2>1, <2>2, <2>3
<1>2. /\ slot[s].sent \in BOOLEAN /\ slot[s].late \in BOOLEAN
      /\ slot[s].timer \in BOOLEAN
  BY SlotTypes
<1>3. s # "none"
  BY DEF Slots
<1>4. \A r : r \in left <=> /\ r \in irp[i].refs /\ r # h
                            /\ r = "isr" => ~(sync /\ slot[s].owed > 0)
                            /\ r = "timer" => ~(timed /\ slot[s].timer)
                            /\ r = "cancel" => irp[i].routine = "none"
  BY DEF ReferencesLeft
<1>5. \A r : r \in left <=> (r = "isr" /\ sent) \/ (r = "timer" /\ late)
  <2>1. h \in {"isr", "xoffref", "timer", "cancel"}
    BY DEF EndingOf
  <2>2. "cancel" \notin left
    BY <1>1, <1>3, <1>4, HeldRefs
  <2>3. "isr" \in left <=> sent
    BY <1>4, HeldRefs
  <2>4. "timer" \in left <=> late
    BY <1>4, HeldRefs
  <2>5. \A r \in left : r \in {"isr", "timer", "cancel"}
    BY <1>1, <1>4 DEF RefTypes
  <2>. SUFFICES ASSUME NEW r
                PROVE  r \in left <=>
                            (r = "isr" /\ sent) \/ (r = "timer" /\ late)
    OBVIOUS
  <2>6. CASE r \in {"isr", "timer"}
    <3>1. CASE r = "isr"
      BY <2>3, <3>1
    <3>2. CASE r = "timer"
      BY <2>4, <3>2
    <3>. QED  BY <2>6, <3>1, <3>2
  <2>7. CASE r \notin {"isr", "timer"}
    BY <2>2, <2>5, <2>7
  <2>. QED  BY <2>6, <2>7
<1>6. last <=> ~sent /\ ~late
  <2>. HIDE DEF left
  <2>. QED  BY <1>5
<1>. DEFINE dropped ==
                [irp[i] EXCEPT
                    !.cancel = @ \/ h = "cancel",
                    !.refs = left,
                    !.routine = "none",
                    !.status = IF last THEN st ELSE @,
                    !.info = IF i \notin Writes \/ (last /\ st = "cancelled")
                            THEN 0
                             ELSE IF sync /\ slot[s].owed > 0 THEN AmountSent(i)
                             ELSE @]
<1>7. /\ slot' = [slot EXCEPT ![s] =
                     [irp |-> IF last /\ s = "xoff" THEN None ELSE i,
                      owed |-> IF sync THEN 0 ELSE @.owed,
                      timer |-> @.timer /\ ~timed,
                      sent |-> @.sent /\ h # "isr",
                      late |-> @.late /\ h # "timer"]]
      /\ IF last /\ s = "xoff" THEN Finish(i)
         ELSE irp' = [irp EXCEPT ![i] = dropped] /\ UNCHANGED completions
      /\ Go(c, CASE last /\ s = "write" -> "next"
                 [] last /\ s = "immediate" -> "inext"
                 [] OTHER -> IF AtPlace(c, "start") THEN "give" ELSE "idle")
      /\ UNCHANGED <<queue, chars, uartVars>>
  BY DEF TryToCompleteCurrent
<1>. HIDE DEF left
<1>8. /\ OnlySlot(s)
      /\ slot'[s].irp = IF last /\ s = "xoff" THEN None ELSE i
      /\ slot'[s].owed = 0 /\ ~slot'[s].timer
      /\ slot'[s].sent <=> sent
      /\ slot'[s].late <=> late
  <2>1. OnlySlot(s)
    BY <1>7 DEF OnlySlot, TypeOK
  <2>2. slot'[s] = [irp |-> IF last /\ s = "xoff" THEN None ELSE i,
                    owed |-> IF sync THEN 0 ELSE slot[s].owed,
                    timer |-> slot[s].timer /\ ~timed,
                    sent |-> slot[s].sent /\ h # "isr",
                    late |-> slot[s].late /\ h # "timer"]
    BY <1>7 DEF TypeOK
  <2>3. ~sync => slot[s].owed = 0
    BY <1>1, HeldRefs
  <2>4. ~timed => ~slot[s].timer
    BY HeldRefs
  <2>5. /\ slot'[s].irp = IF last /\ s = "xoff" THEN None ELSE i
        /\ slot'[s].owed = IF sync THEN 0 ELSE slot[s].owed
        /\ slot'[s].timer = (slot[s].timer /\ ~timed)
        /\ slot'[s].sent = (slot[s].sent /\ h # "isr")
        /\ slot'[s].late = (slot[s].late /\ h # "timer")
    <3>. DEFINE x == IF last /\ s = "xoff" THEN None ELSE i
                y == IF sync THEN 0 ELSE slot[s].owed
                t == slot[s].timer /\ ~timed
                u == slot[s].sent /\ h # "isr"
                v == slot[s].late /\ h # "timer"
    <3>1. slot'[s] = [irp |-> x, owed |-> y, timer |-> t, sent |-> u,
              late |-> v]
      BY <2>2
    <3>. HIDE DEF x, y, t, u, v
    <3>2. /\ slot'[s].irp = x /\ slot'[s].owed = y /\ slot'[s].timer = t
          /\ slot'[s].sent = u /\ slot'[s].late = v
      BY <3>1
    <3>. QED  BY <3>2 DEF x, y, t, u, v
  <2>6. slot'[s].owed = 0
    BY <2>3, <2>5
  <2>7. ~slot'[s].timer
    BY <1>2, <2>4, <2>5
  <2>. QED  BY <2>1, <2>5, <2>6, <2>7
<1>9. Moves(c, IF last /\ s = "write" THEN "next"
               ELSE IF last /\ s = "immediate" THEN "inext"
               ELSE IF AtPlace(c, "start") THEN "give" ELSE "idle")
  <2>. DEFINE p == CASE last /\ s = "write" -> "next"
                     [] last /\ s = "immediate" -> "inext"
                     [] OTHER -> IF AtPlace(c, "start") THEN "give" ELSE "idle"
  <2>1. p = IF last /\ s = "write" THEN "next"
            ELSE IF last /\ s = "immediate" THEN "inext"
            ELSE IF AtPlace(c, "start") THEN "give" ELSE "idle"
    OBVIOUS
  <2>2. Go(c, p)
    BY <1>7
  <2>. HIDE DEF p
  <2>. QED  BY <2>1, <2>2, MoveFacts
<1>10. last /\ s = "xoff" => Finished(i, 0)
  BY <1>1, <1>7, FinishFacts
<1>11. ASSUME ~(last /\ s = "xoff")
       PROVE  /\ OnlyRequest(i)
              /\ completions'[i] = completions[i]
              /\ irp'[i].refs = left
              /\ irp'[i].routine = "none"
              /\ irp'[i].status = IF last THEN st ELSE irp[i].status
              /\ irp'[i].info = IF i \notin Writes \/ (last /\ st = "cancelled")
                                THEN 0
                                ELSE IF slot[s].owed > 0 THEN AmountSent(i)
                                ELSE irp[i].info
              /\ irp'[i].wire = irp[i].wire
              /\ irp'[i].length = irp[i].length
  <2>1. irp' = [irp EXCEPT ![i] = dropped] /\ UNCHANGED completions
    BY <1>7, <1>11
  <2>2. sync /\ slot[s].owed > 0 <=> slot[s].owed > 0
    BY <1>1, HeldRefs
  <2>. HIDE DEF last
  <2>3. OnlyRequest(i) /\ completions'[i] = completions[i]
    BY <2>1, <1>1 DEF OnlyRequest, TypeOK
  <2>4. irp'[i] = dropped
    BY <2>1, <1>1 DEF TypeOK
  <2>5. irp[i] \in Irp
    BY <1>1 DEF TypeOK
  <2>6. /\ irp'[i].refs = left
        /\ irp'[i].routine = "none"
        /\ irp'[i].status = IF last THEN st ELSE irp[i].status
        /\ irp'[i].info = IF i \notin Writes \/ (last /\ st = "cancelled")
                           THEN 0
                           ELSE IF sync /\ slot[s].owed > 0 THEN AmountSent(i)
                           ELSE irp[i].info
        /\ irp'[i].wire = irp[i].wire
        /\ irp'[i].length = irp[i].length
    BY <2>4, <2>5 DEF Irp
  <2>. QED  BY <2>2, <2>3, <2>6
<1>12. OnlyRequest(i)
  BY <1>10, <1>11 DEF Finished
<1>. HIDE DEF last, dropped
<1>. QED
  BY <1>1, <1>5, <1>6, <1>7, <1>8, <1>9, <1>10, <1>11, <1>12 DEF Ending

\* A request that is refused is completed at once.
LEMMA RefuseFacts ==
    ASSUME TypeOK, NEW i \in Irps, RefuseAtDispatch(i)
    PROVE  /\ Fresh(i) /\ Finished(i, 0)
           /\ UNCHANGED <<queue, slot, chars, uartVars, pc>>
  BY FinishFacts DEF RefuseAtDispatch

\* So is one that was cancelled before, but it stays on the books.
LEMMA CancelledAtDispatchFacts ==
    ASSUME TypeOK, NEW i \in Irps, CancelledAtDispatch(i)
    PROVE  /\ i \in QueueIrps /\ Fresh(i)
           /\ \E n \in Lengths(i) : Finished(i, n) /\ chars' = chars + n
           /\ UNCHANGED <<queue, slot, uartVars, pc>>
  BY FinishCountedFacts DEF CancelledAtDispatch

\* A write that is through leaves the books.
LEMMA AccountFacts ==
    ASSUME TypeOK, NEW c \in Contexts, Account(c)
    PROVE  /\ AtPlace(c, "next") /\ ~StartsCounting(CurrentWrite)
           /\ chars' = chars - irp[CurrentWrite].length
           /\ Moves(c, "pop")
           /\ UNCHANGED <<irp, completions, queue, slot, uartVars>>
  BY MoveFacts DEF Account

\* Reporting that the transmitter is empty changes no request.
LEMMA EmptyFacts ==
    ASSUME TypeOK, NEW c \in Contexts, ProcessEmptyTransmit(c)
    PROVE  /\ AtPlace(c, "empty")
           /\ Announce(slot["immediate"].owed = 0, CurrentWrite = None)
           /\ Moves(c, "idle")
           /\ UNCHANGED <<irp, completions, queue, slot, chars, held,
                          holdingEmpty, uart, flowChar, emptied, stranded>>
  BY MoveFacts DEF ProcessEmptyTransmit

\* A slot whose holders exist is in nobody's hand.
LEMMA HeldSlot ==
    ASSUME RefsMatchHolders, NEW s \in Slots,
           slot[s].owed > 0 \/ slot[s].sent \/ slot[s].timer \/ slot[s].late
    PROVE  slot[s].irp # None /\ ~InHand(s)
  BY DEF RefsMatchHolders, RefsExact

\* The current write and the XOFF counter are two requests, except at "keep".
LEMMA TwoSlots ==
    ASSUME TypeOK, KindInv, HeldInv, WriterInv,
           NEW s \in Slots, NEW r \in Slots, r # s,
           slot[s].irp # None, slot[r].irp = slot[s].irp
    PROVE  /\ {s, r} = {"write", "xoff"}
           /\ \E c \in Contexts : AtPlace(c, "keep")
<1>1. {s, r} = {"write", "xoff"}
  BY SerialWriteAssumption
     DEF KindInv, Slots, CurrentWrite, CurrentImmediate, QueueIrps, Irps
<1>2. slot["write"].irp = slot["xoff"].irp /\ slot["write"].irp # None
  BY <1>1
<1>3. ~InHand("xoff")
  BY DEF InHand
<1>4. InHand("write")
  BY <1>2, <1>3, SlotNames DEF HeldInv, HeldOK
<1>5. PICK c \in Contexts : Writing(c)
  BY <1>4 DEF InHand
<1>6. AtPlace(c, "keep")
  BY <1>2, <1>5 DEF WriterInv, WriterOK, AtPlace, CurrentWrite
<1>. QED  BY <1>1, <1>6

\* A request somebody may reach has its slot's cancel routine or none.
LEMMA HeldRoutine ==
    ASSUME IInv, NEW s \in Slots, slot[s].irp # None, ~InHand(s)
    PROVE  /\ \A r \in Slots : irp[slot[s].irp].routine = r => r = s
           /\ irp[slot[s].irp].routine # "queued"
<1>. DEFINE i == slot[s].irp
<1>1. i \in Irps /\ RequestOK(i)
  BY CurrentRequest DEF IInv, RequestInv
<1>2. irp[i].routine # "queued"
  BY <1>1 DEF RequestOK, Unknown
<1>3. ASSUME NEW r \in Slots, irp[i].routine = r, r # s
      PROVE  FALSE
  <2>1. slot[r].irp = i
    BY <1>1, <1>3 DEF RequestOK
  <2>2. {s, r} = {"write", "xoff"} /\ \E c \in Contexts : AtPlace(c, "keep")
    BY <1>3, <2>1, TwoSlots DEF IInv
  <2>3. PICK c \in Contexts : AtPlace(c, "keep")
    BY <2>2
  <2>4. Writing(c)
    BY <2>3 DEF Writing, AtPlace
  <2>5. irp[CurrentWrite].routine # "write"
    BY <2>4 DEF IInv, WriterInv, WriterOK
  <2>6. r # "write"
    BY <2>5, <1>3, <2>1 DEF CurrentWrite
  <2>7. s = "write"
    BY <2>2, <2>6
  <2>. QED  BY <2>4, <2>7 DEF InHand
<1>. QED  BY <1>2, <1>3

\* Of the four who end a request: a new write, for the counter before it,
LEMMA PreemptIsEnding ==
    ASSUME IInv, NEW c \in Contexts, PreemptXoff(c)
    PROVE  Ending(c, "xoff", "xoffref", "success")
<1>1. slot["xoff"].irp # None /\ ~InHand("xoff")
  BY DEF PreemptXoff, InHand
<1>2. EndingOf("xoffref", "success")
  BY DEF EndingOf
<1>3. /\ AtPlace(c, "start")
      /\ TryToCompleteCurrent(c, "xoff", "xoffref", "success", TRUE, TRUE)
  BY DEF PreemptXoff
<1>. QED
  BY <1>1, <1>2, <1>3, SlotNames, HeldRoutine, EndingFacts DEF IInv

\* the DPC of the ISR,
LEMMA CompleteIsEnding ==
    ASSUME IInv, NEW c \in Contexts, NEW s \in Slots, CompleteDpc(c, s)
    PROVE  Ending(c, s, "isr", "success")
<1>1. slot[s].sent
  BY DEF CompleteDpc
<1>2. slot[s].irp # None /\ ~InHand(s)
  BY <1>1, HeldSlot DEF IInv
<1>3. EndingOf("isr", "success")
  BY DEF EndingOf
<1>4. /\ AtPlace(c, "idle")
      /\ TryToCompleteCurrent(c, s, "isr", "success", FALSE, TRUE)
  BY DEF CompleteDpc
<1>. QED  BY <1>1, <1>2, <1>3, <1>4, HeldRoutine, EndingFacts DEF IInv

\* the DPC of the timer,
LEMMA TimeoutIsEnding ==
    ASSUME IInv, NEW c \in Contexts, NEW s \in Slots, TimeoutDpc(c, s)
    PROVE  Ending(c, s, "timer", "timeout")
<1>1. slot[s].late
  BY DEF TimeoutDpc
<1>2. slot[s].irp # None /\ ~InHand(s)
  BY <1>1, HeldSlot DEF IInv
<1>3. EndingOf("timer", "timeout")
  BY DEF EndingOf
<1>. DEFINE timed == s # "xoff"
<1>4. /\ AtPlace(c, "idle")
      /\ TryToCompleteCurrent(c, s, "timer", "timeout", TRUE, timed)
  BY DEF TimeoutDpc
<1>5. timed \in BOOLEAN
  OBVIOUS
<1>. HIDE DEF timed
<1>. QED  BY <1>1, <1>2, <1>3, <1>4, <1>5, HeldRoutine, EndingFacts DEF IInv

\* and the cancel routine.
LEMMA CancelIsEnding ==
    ASSUME IInv, NEW c \in Contexts, NEW s \in Slots, CancelCurrentIrp(c, s)
    PROVE  Ending(c, s, "cancel", "cancelled")
<1>1. slot[s].irp # None /\ irp[slot[s].irp].routine = s
  BY DEF CancelCurrentIrp
<1>2. ASSUME InHand(s) PROVE FALSE
  <2>1. CASE s = "write"
    BY <1>1, <1>2, <2>1 DEF InHand, IInv, WriterInv, WriterOK, CurrentWrite
  <2>2. CASE s = "immediate"
    BY <1>1, <1>2, <2>2
       DEF InHand, IInv, InterposerInv, InterposerOK, CurrentImmediate, Loose
  <2>. QED  BY <1>2, <2>1, <2>2 DEF InHand
<1>3. EndingOf("cancel", "cancelled")
  BY DEF EndingOf
<1>4. /\ AtPlace(c, "idle")
      /\ TryToCompleteCurrent(c, s, "cancel", "cancelled", TRUE, TRUE)
  BY DEF CancelCurrentIrp
<1>. QED  BY <1>1, <1>2, <1>3, <1>4, HeldRoutine, EndingFacts DEF IInv

-----------------------------------------------------------------------------
(* What the steps are to the requests.  The UART only matters when it sends. *)

Outside == UNCHANGED <<irp, completions, queue, slot, chars, pc>>

SentImmediate ==
    LET i == CurrentImmediate
    IN  /\ i \in Irps
        /\ slot["immediate"].owed > 0
        /\ OnlyRequest(i) /\ OnlySlot("immediate")
        /\ UNCHANGED <<completions, queue, chars, pc>>
        /\ slot'["immediate"].irp = i
        /\ slot'["immediate"].owed = 0
        /\ slot'["immediate"].timer = slot["immediate"].timer
        /\ slot'["immediate"].sent
        /\ slot'["immediate"].late = slot["immediate"].late
        /\ SameHolders(i)
        /\ irp'[i].wire = 1 /\ irp'[i].info = irp[i].info
        /\ irp'[i].status = irp[i].status
        /\ irp'[i].length = irp[i].length
        /\ irp'[i].cancel = irp[i].cancel

SentWrite ==
    LET i == CurrentWrite
        old == slot["write"].owed
        new == slot'["write"].owed
    IN  /\ i \in Irps
        /\ old > 0 /\ new \in 0..(old - 1)
        /\ OnlyRequest(i) /\ OnlySlot("write")
        /\ UNCHANGED <<completions, queue, chars, pc>>
        /\ slot'["write"].irp = i
        /\ slot'["write"].timer = slot["write"].timer
        /\ slot'["write"].sent <=> slot["write"].sent \/ new = 0
        /\ slot'["write"].late = slot["write"].late
        /\ SameHolders(i)
        /\ irp'[i].wire = irp[i].wire + (old - new)
        /\ irp'[i].info = IF new = 0 /\ i \in Writes THEN irp[i].length
                          ELSE irp[i].info
        /\ irp'[i].status = irp[i].status
        /\ irp'[i].length = irp[i].length
        /\ irp'[i].cancel = irp[i].cancel

\* The ISR prefers the immediate character to the write.
LEMMA SendsFacts ==
    ASSUME TypeOK, RefsMatchHolders, 
           UNCHANGED <<completions, queue, chars, pc>>,
           NEW h, SendsImmediate(h) \/ SendsWrite(h),
           IF SendsImmediate(h) THEN SendImmediate ELSE SendWrite
    PROVE  SentImmediate \/ SentWrite
<1>1. CASE SendsImmediate(h)
  <2>1. slot["immediate"].owed > 0 /\ SendImmediate
    BY <1>1 DEF SendsImmediate
  <2>2. CurrentImmediate # None
    BY <2>1, HeldSlot, SlotNames DEF CurrentImmediate
  <2>. QED
    BY <2>1, <2>2, SendImmediateFacts
       DEF SentImmediate, OnlyRequest, CurrentImmediate
<1>2. CASE ~SendsImmediate(h)
  <2>1. slot["write"].owed > 0 /\ SendWrite
    BY <1>2 DEF SendsWrite
  <2>2. CurrentWrite # None
    BY <2>1, HeldSlot, SlotNames DEF CurrentWrite
  <2>. QED
    BY <2>1, <2>2, SendWriteFacts DEF SentWrite, OnlyRequest
<1>. QED  BY <1>1, <1>2

\* So an interrupt sends the one or the other, or nothing of a request.
LEMMA IsrFacts ==
    ASSUME TypeOK, RefsMatchHolders,
           ThrInterrupt \/ XonReceived \/ OtherInterrupt
    PROVE  SentImmediate \/ SentWrite \/ Outside
<1>1. UNCHANGED <<completions, queue, chars, pc>>
  BY DEF ThrInterrupt, XonReceived, OtherInterrupt, LeaveIsr
<1>2. (\E h : Transmit(h)) \/ UNCHANGED <<slot, irp>>
  BY DEF ThrInterrupt, XonReceived, OtherInterrupt, LeaveIsr
<1>3. ASSUME NEW h, Transmit(h) PROVE SentImmediate \/ SentWrite \/ Outside
  BY <1>1, <1>3, SendsFacts DEF Transmit, Outside
<1>. QED  BY <1>1, <1>2, <1>3 DEF Outside

\* What a step is, with the four endings as one.
RawStep ==
    \/ \E i \in Irps : \/ RefuseAtDispatch(i) \/ QueueAtDispatch(i)
                       \/ CancelledAtDispatch(i)
                       \/ CancelQueuedIrp(i) \/ FlagCancel(i)
    \/ \E c \in Contexts :
           \/ \E i \in Irps : StartAtDispatch(c, i) \/ ImmediateAtDispatch(c, i)
           \/ FinishCancelled(c) \/ GiveWrite(c)
           \/ Account(c) \/ AccountXoff(c) \/ GetNextIrp(c)
           \/ ProcessEmptyTransmit(c)
           \/ FinishImmediateCancelled(c) \/ GiveImmediate(c)
           \/ GetNextImmediate(c)
           \/ \E s \in Slots : \E h, st : EndingOf(h, st) /\ Ending(c, s, h, st)
    \/ \E s \in Slots : Expire(s)
    \/ CountSinceXoff \/ ThrInterrupt \/ XonReceived \/ OtherInterrupt \/ Drain
    \/ \E r \in HoldReasons : Hold(r) \/ Release(r)
    \/ \E ch \in {"xon", "xoff"} : ProdXonXoff(ch)
    \/ DropAutoTransmit
    \/ UNCHANGED vars

\* Every step, as the facts put it;
LEMMA RawSteps == IInv /\ [Next]_vars => RawStep
<1>. SUFFICES ASSUME IInv, [Next]_vars PROVE RawStep
  OBVIOUS
<1>1. CASE \E i \in Irps : \/ RefuseAtDispatch(i) \/ QueueAtDispatch(i)
                           \/ CancelledAtDispatch(i)
                           \/ CancelQueuedIrp(i) \/ FlagCancel(i)
  BY <1>1 DEF RawStep
<1>2. CASE \E c \in Threads : \E i \in Irps : \/ StartAtDispatch(c, i)
                                              \/ ImmediateAtDispatch(c, i)
  BY <1>2 DEF RawStep, Contexts
<1>3. ASSUME NEW c \in Threads, NEW s \in Slots, CancelCurrentIrp(c, s)
      PROVE  RawStep
  <2>1. c \in Contexts
    BY DEF Contexts
  <2>2. Ending(c, s, "cancel", "cancelled") /\ EndingOf("cancel", "cancelled")
    BY <1>3, <2>1, CancelIsEnding DEF EndingOf
  <2>. QED  BY <2>1, <2>2 DEF RawStep
<1>4. ASSUME NEW c \in Contexts, Work(c)
      PROVE  RawStep
  <2>1. CASE PreemptXoff(c)
    <3>1. /\ Ending(c, "xoff", "xoffref", "success")
          /\ EndingOf("xoffref", "success")
      BY <2>1, PreemptIsEnding DEF EndingOf
    <3>. QED  BY <3>1, SlotNames DEF RawStep
  <2>2. CASE ~PreemptXoff(c)
    BY <1>4, <2>2 DEF Work, RawStep
  <2>. QED  BY <2>1, <2>2
<1>5. ASSUME NEW s \in Slots, Expire(s) \/ RunDpc(s)
      PROVE  RawStep
  <2>1. CASE Expire(s)
    BY <2>1 DEF RawStep
  <2>2. ASSUME NEW c \in Cpus, CompleteDpc(c, s)
        PROVE  RawStep
    <3>1. c \in Contexts
      BY DEF Contexts
    <3>2. Ending(c, s, "isr", "success") /\ EndingOf("isr", "success")
      BY <2>2, <3>1, CompleteIsEnding DEF EndingOf
    <3>. QED  BY <3>1, <3>2 DEF RawStep
  <2>3. ASSUME NEW c \in Cpus, TimeoutDpc(c, s)
        PROVE  RawStep
    <3>1. c \in Contexts
      BY DEF Contexts
    <3>2. Ending(c, s, "timer", "timeout") /\ EndingOf("timer", "timeout")
      BY <2>3, <3>1, TimeoutIsEnding DEF EndingOf
    <3>. QED  BY <3>1, <3>2 DEF RawStep
  <2>. QED  BY <1>5, <2>1, <2>2, <2>3 DEF RunDpc
<1>6. CASE \/ ThrInterrupt \/ XonReceived \/ OtherInterrupt \/ Drain
           \/ CountSinceXoff
           \/ \E r \in HoldReasons : Hold(r) \/ Release(r)
           \/ \E ch \in {"xon", "xoff"} : ProdXonXoff(ch)
           \/ DropAutoTransmit
           \/ UNCHANGED vars
  BY <1>6 DEF RawStep
<1>. QED
  BY <1>1, <1>2, <1>3, <1>4, <1>5, <1>6 DEF Next

NormalStep ==
    \/ \E i \in Irps : \/ RefuseAtDispatch(i) \/ QueueAtDispatch(i)
                       \/ CancelledAtDispatch(i)
                       \/ CancelQueuedIrp(i) \/ FlagCancel(i)
    \/ \E c \in Contexts :
           \/ \E i \in Irps : StartAtDispatch(c, i) \/ ImmediateAtDispatch(c, i)
           \/ FinishCancelled(c) \/ GiveWrite(c)
           \/ Account(c) \/ AccountXoff(c) \/ GetNextIrp(c)
           \/ ProcessEmptyTransmit(c)
           \/ FinishImmediateCancelled(c) \/ GiveImmediate(c)
           \/ GetNextImmediate(c)
           \/ \E s \in Slots : \E h, st : EndingOf(h, st) /\ Ending(c, s, h, st)
    \/ \E s \in Slots : Expire(s)
    \/ CountSinceXoff \/ SentImmediate \/ SentWrite \/ Outside

\* the same with the four endings as one.
LEMMA StepCases == IInv /\ [Next]_vars => NormalStep
<1>. SUFFICES ASSUME IInv, RawStep PROVE NormalStep
  BY RawSteps
<1>1. CASE ThrInterrupt \/ XonReceived \/ OtherInterrupt
  BY <1>1, IsrFacts DEF NormalStep, IInv
<1>2. CASE \/ Drain
           \/ \E r \in HoldReasons : Hold(r) \/ Release(r)
           \/ \E ch \in {"xon", "xoff"} : ProdXonXoff(ch)
           \/ DropAutoTransmit
  BY <1>2 DEF Drain, Hold, Release, ProdXonXoff, DropAutoTransmit, NormalStep,
     Outside
<1>3. CASE UNCHANGED vars
  BY <1>3 DEF vars, NormalStep, Outside
<1>. QED  BY <1>1, <1>2, <1>3 DEF RawStep, NormalStep

\* A context that works on the write queue has the current write in hand.
LEMMA WriterFacts ==
    ASSUME IInv, NEW c \in Contexts, Writing(c)
    PROVE  /\ CurrentWrite \in Irps /\ CurrentWrite # None
           /\ RequestOK(CurrentWrite)
           /\ WriterOK(c)
           /\ InHand("write")
           /\ \A d \in Contexts : Writing(d) => c = d
<1>1. WriterOK(c) /\ \A d \in Contexts : Writing(d) => c = d
  BY DEF IInv, WriterInv
<1>2. CurrentWrite # None
  BY <1>1 DEF WriterOK
<1>3. CurrentWrite \in Irps
  BY <1>2, CurrentRequest, SlotNames DEF IInv, CurrentWrite
<1>. QED  BY <1>1, <1>2, <1>3 DEF InHand, IInv, RequestInv

\* A context in SerialStartImmediate is alone there, with a request.
LEMMA InterposerFacts ==
    ASSUME IInv, NEW c \in Contexts, Interposing(c)
    PROVE  /\ CurrentImmediate \in Irps /\ CurrentImmediate # None
           /\ RequestOK(CurrentImmediate)
           /\ InterposerOK(c)
           /\ InHand("immediate")
           /\ \A d \in Contexts : Interposing(d) => c = d
<1>1. InterposerOK(c) /\ \A d \in Contexts : Interposing(d) => c = d
  BY DEF IInv, InterposerInv
<1>2. CurrentImmediate # None
  BY <1>1 DEF InterposerOK
<1>3. CurrentImmediate \in Irps
  BY <1>2, CurrentRequest, SlotNames DEF IInv, CurrentImmediate
<1>. QED  BY <1>1, <1>2, <1>3 DEF InHand, IInv, RequestInv

\* The steps of SerialStartWrite and SerialGetNextWrite are taken by a writer.
LEMMA WorkingWriter ==
    ASSUME NEW c \in Contexts,
           \/ FinishCancelled(c) \/ GiveWrite(c) \/ Account(c) \/ AccountXoff(c)
           \/ GetNextIrp(c)
    PROVE  Writing(c)
  BY DEF FinishCancelled, GiveWrite, Giving, Account, AccountXoff, GetNextIrp,
     Writing, AtPlace

\* Whoever takes one of its steps is in it.
LEMMA WorkingInterposer ==
    ASSUME NEW c \in Contexts,
           \/ FinishImmediateCancelled(c) \/ GiveImmediate(c)
           \/ GetNextImmediate(c)
    PROVE  Interposing(c)
  BY DEF FinishImmediateCancelled, GiveImmediate, GetNextImmediate,
     Interposing, AtPlace

\* The slots keep the kinds of their requests.
LEMMA KindInvStep == IInv /\ [Next]_vars => KindInv'
<1>. SUFFICES ASSUME IInv, [Next]_vars PROVE KindInv'
  OBVIOUS
<1>0. TypeOK /\ KindInv /\ QueueInv
  BY DEF IInv
<1>1. ASSUME NEW i \in Irps, RefuseAtDispatch(i)
      PROVE  KindInv'
  BY <1>0, <1>1, RefuseFacts DEF KindInv, CurrentWrite, CurrentImmediate
<1>2. ASSUME NEW i \in Irps, QueueAtDispatch(i)
      PROVE  KindInv'
  BY <1>0, <1>2, QueueFacts DEF KindInv, CurrentWrite, CurrentImmediate
<1>3. ASSUME NEW i \in Irps, CancelledAtDispatch(i)
      PROVE  KindInv'
  BY <1>0, <1>3, CancelledAtDispatchFacts DEF KindInv, CurrentWrite,
     CurrentImmediate
<1>4. ASSUME NEW i \in Irps, CancelQueuedIrp(i)
      PROVE  KindInv'
  BY <1>0, <1>4, WithdrawFacts DEF KindInv, CurrentWrite, CurrentImmediate
<1>5. ASSUME NEW i \in Irps, FlagCancel(i)
      PROVE  KindInv'
  BY <1>0, <1>5, FlagFacts DEF KindInv, CurrentWrite, CurrentImmediate
<1>6. ASSUME NEW c \in Contexts, NEW i \in Irps, StartAtDispatch(c, i)
      PROVE  KindInv'
  BY <1>0, <1>6, StartFacts, SlotNames DEF KindInv, OnlySlot, CurrentWrite,
     CurrentImmediate
<1>7. ASSUME NEW c \in Contexts, NEW i \in Irps, ImmediateAtDispatch(c, i)
      PROVE  KindInv'
  BY <1>0, <1>7, ImmediateFacts, SlotNames DEF KindInv, OnlySlot,
     CurrentWrite, CurrentImmediate
<1>8. ASSUME NEW c \in Contexts, FinishCancelled(c)
      PROVE  KindInv'
  BY <1>0, <1>8, WorkingWriter, WriterFacts, CancelledFacts DEF KindInv,
     CurrentWrite, CurrentImmediate
<1>9. ASSUME NEW c \in Contexts, GiveWrite(c)
      PROVE  KindInv'
  BY <1>0, <1>9, WorkingWriter, WriterFacts, GiveFacts, SlotNames DEF KindInv,
     OnlySlot, Handed, CurrentWrite, CurrentImmediate
<1>10. ASSUME NEW c \in Contexts, Account(c)
      PROVE  KindInv'
  BY <1>0, <1>10, AccountFacts DEF KindInv, CurrentWrite, CurrentImmediate
<1>11. ASSUME NEW c \in Contexts, AccountXoff(c)
      PROVE  KindInv'
  BY <1>0, <1>11, WorkingWriter, WriterFacts, AccountXoffFacts, SlotNames
     DEF KindInv, OnlySlot, Handed, StartsCounting, CurrentWrite,
     CurrentImmediate
<1>12. ASSUME NEW c \in Contexts, GetNextIrp(c)
      PROVE  KindInv'
  <2>1. queue # <<>> => Head(queue) \in QueueIrps
    BY <1>0, <1>0, HeadEntries DEF QueueInv, TypeOK
  <2>. QED  BY <1>0, <1>12, <2>1, NextIrpFacts, SlotNames DEF KindInv,
               OnlySlot, CurrentWrite, CurrentImmediate
<1>13. ASSUME NEW c \in Contexts, ProcessEmptyTransmit(c)
      PROVE  KindInv'
  BY <1>0, <1>13, EmptyFacts DEF KindInv, CurrentWrite, CurrentImmediate
<1>14. ASSUME NEW c \in Contexts, FinishImmediateCancelled(c)
      PROVE  KindInv'
  BY <1>0, <1>14, WorkingInterposer, InterposerFacts, ImmediateCancelledFacts,
     SlotNames, SlotTypes DEF KindInv, OnlySlot, TypeOK, Slot, CurrentWrite,
     CurrentImmediate
<1>15. ASSUME NEW c \in Contexts, GiveImmediate(c)
      PROVE  KindInv'
  BY <1>0, <1>15, WorkingInterposer, InterposerFacts, GiveImmediateFacts,
     SlotNames DEF KindInv, OnlySlot, Handed, CurrentWrite, CurrentImmediate
<1>16. ASSUME NEW c \in Contexts, GetNextImmediate(c)
      PROVE  KindInv'
  BY <1>0, <1>16, WorkingInterposer, InterposerFacts, NextImmediateFacts,
     SlotNames DEF KindInv, OnlySlot, TypeOK, Slot, CurrentWrite,
     CurrentImmediate
<1>17. ASSUME NEW c \in Contexts, NEW s \in Slots, NEW h, NEW st, EndingOf(h,
  st),
           Ending(c, s, h, st)
      PROVE  KindInv'
  BY <1>0, <1>17, SlotNames DEF KindInv, Ending, OnlySlot, Slots,
     CurrentWrite, CurrentImmediate
<1>18. ASSUME NEW s \in Slots, Expire(s)
      PROVE  KindInv'
  BY <1>0, <1>18, ExpireFacts, SlotNames DEF KindInv, OnlySlot, Slots,
     CurrentWrite, CurrentImmediate
<1>19. CASE CountSinceXoff
  BY <1>0, <1>19, CountFacts, SlotNames DEF KindInv, OnlySlot, CurrentWrite,
     CurrentImmediate
<1>20. CASE SentImmediate
  BY <1>0, <1>20, SlotNames DEF KindInv, SentImmediate, OnlySlot,
     CurrentWrite, CurrentImmediate
<1>21. CASE SentWrite
  BY <1>0, <1>21, SlotNames DEF KindInv, SentWrite, OnlySlot, CurrentWrite,
     CurrentImmediate
<1>22. CASE Outside
  BY <1>0, <1>22 DEF Outside, KindInv, CurrentWrite, CurrentImmediate
<1>. QED
  BY StepCases, <1>1, <1>2, <1>3, <1>4, <1>5, <1>6, <1>7, <1>8, <1>9, <1>10,
     <1>11, <1>12, <1>13, <1>14, <1>15, <1>16, <1>17, <1>18, <1>19, <1>20,
     <1>21, <1>22
     DEF NormalStep

\* The queue stays without repetitions, and waits for the current write.
LEMMA QueueInvStep == IInv /\ [Next]_vars => QueueInv'
<1>. SUFFICES ASSUME IInv, [Next]_vars PROVE QueueInv'
  OBVIOUS
<1>0. TypeOK /\ KindInv /\ QueueInv /\ RequestInv
  BY DEF IInv
<1>1. ASSUME NEW i \in Irps, RefuseAtDispatch(i)
      PROVE  QueueInv'
  BY <1>0, <1>1, RefuseFacts DEF QueueInv, CurrentWrite
<1>2. ASSUME NEW i \in Irps, QueueAtDispatch(i)
      PROVE  QueueInv'
  <2>1. i \in QueueIrps /\ queue' = Append(queue, i) /\ UNCHANGED slot
    BY <1>0, <1>2, QueueFacts
  <2>2. i \notin Range(queue)
    BY <1>0, <1>2, QueueFacts DEF RequestInv, RequestOK, Fresh
  <2>3. CurrentWrite # None
    BY <1>0, <1>2, QueueFacts DEF QueueInv
  <2>. QED  BY <1>0, <2>1, <2>2, <2>3, AppendEntries DEF QueueInv, TypeOK,
               CurrentWrite
<1>3. ASSUME NEW i \in Irps, CancelledAtDispatch(i)
      PROVE  QueueInv'
  BY <1>0, <1>3, CancelledAtDispatchFacts DEF QueueInv, CurrentWrite
<1>4. ASSUME NEW i \in Irps, CancelQueuedIrp(i)
      PROVE  QueueInv'
  <2>1. PICK n \in 1..Len(queue) : queue[n] = i /\ queue' = RemoveAt(queue, n)
    BY <1>0, <1>4, WithdrawFacts
  <2>2. UNCHANGED slot
    BY <1>0, <1>4, WithdrawFacts
  <2>3. queue # <<>>
    BY <2>1, EmptySeq
  <2>. QED  BY <1>0, <2>1, <2>2, <2>3, RemoveEntries DEF QueueInv, TypeOK,
               CurrentWrite
<1>5. ASSUME NEW i \in Irps, FlagCancel(i)
      PROVE  QueueInv'
  BY <1>0, <1>5, FlagFacts DEF QueueInv, CurrentWrite
<1>6. ASSUME NEW c \in Contexts, NEW i \in Irps, StartAtDispatch(c, i)
      PROVE  QueueInv'
  BY <1>0, <1>6, StartFacts DEF QueueInv, CurrentWrite
<1>7. ASSUME NEW c \in Contexts, NEW i \in Irps, ImmediateAtDispatch(c, i)
      PROVE  QueueInv'
  BY <1>0, <1>7, ImmediateFacts, SlotNames DEF QueueInv, CurrentWrite, OnlySlot
<1>8. ASSUME NEW c \in Contexts, FinishCancelled(c)
      PROVE  QueueInv'
  BY <1>0, <1>8, WorkingWriter, WriterFacts, CancelledFacts DEF QueueInv,
     CurrentWrite
<1>9. ASSUME NEW c \in Contexts, GiveWrite(c)
      PROVE  QueueInv'
  BY <1>0, <1>9, WorkingWriter, WriterFacts, GiveFacts DEF QueueInv,
     CurrentWrite, Handed
<1>10. ASSUME NEW c \in Contexts, Account(c)
      PROVE  QueueInv'
  BY <1>0, <1>10, AccountFacts DEF QueueInv, CurrentWrite
<1>11. ASSUME NEW c \in Contexts, AccountXoff(c)
      PROVE  QueueInv'
  BY <1>0, <1>11, WorkingWriter, WriterFacts, AccountXoffFacts, SlotNames
     DEF QueueInv, CurrentWrite, OnlySlot, Handed
<1>12. ASSUME NEW c \in Contexts, GetNextIrp(c)
      PROVE  QueueInv'
  <2>1. CASE queue = <<>>
    BY <1>0, <1>12, <2>1, NextIrpFacts DEF QueueInv, CurrentWrite
  <2>2. CASE queue # <<>>
    <3>1. /\ queue' = Tail(queue) /\ slot'["write"].irp = Head(queue)
      BY <1>0, <1>12, <2>2, NextIrpFacts
    <3>2. Head(queue) \in QueueIrps /\ IsInjective(Tail(queue))
      BY <1>0, <2>2, HeadEntries DEF QueueInv, TypeOK
    <3>3. Head(queue) # None
      BY <3>2, SerialWriteAssumption DEF Irps
    <3>. QED  BY <3>1, <3>2, <3>3 DEF QueueInv, CurrentWrite
  <2>. QED  BY <2>1, <2>2
<1>13. ASSUME NEW c \in Contexts, ProcessEmptyTransmit(c)
      PROVE  QueueInv'
  BY <1>0, <1>13, EmptyFacts DEF QueueInv, CurrentWrite
<1>14. ASSUME NEW c \in Contexts, FinishImmediateCancelled(c)
      PROVE  QueueInv'
  BY <1>0, <1>14, WorkingInterposer, InterposerFacts, ImmediateCancelledFacts,
     SlotNames DEF QueueInv, CurrentWrite, OnlySlot
<1>15. ASSUME NEW c \in Contexts, GiveImmediate(c)
      PROVE  QueueInv'
  BY <1>0, <1>15, WorkingInterposer, InterposerFacts, GiveImmediateFacts,
     SlotNames DEF QueueInv, CurrentWrite, OnlySlot, Handed
<1>16. ASSUME NEW c \in Contexts, GetNextImmediate(c)
      PROVE  QueueInv'
  BY <1>0, <1>16, WorkingInterposer, InterposerFacts, NextImmediateFacts,
     SlotNames DEF QueueInv, CurrentWrite, OnlySlot
<1>17. ASSUME NEW c \in Contexts, NEW s \in Slots, NEW h, NEW st, EndingOf(h,
  st),
           Ending(c, s, h, st)
      PROVE  QueueInv'
  <2>1. slot'["write"].irp = slot["write"].irp
    BY <1>17, SlotNames DEF Ending, OnlySlot
  <2>2. queue' = queue
    BY <1>17 DEF Ending
  <2>. QED  BY <1>0, <2>1, <2>2 DEF QueueInv, CurrentWrite
<1>18. ASSUME NEW s \in Slots, Expire(s)
      PROVE  QueueInv'
  BY <1>0, <1>18, ExpireFacts, SlotNames DEF QueueInv, CurrentWrite, OnlySlot
<1>19. CASE CountSinceXoff
  BY <1>0, <1>19, CountFacts, SlotNames DEF QueueInv, CurrentWrite, OnlySlot
<1>20. CASE SentImmediate
  BY <1>0, <1>20, SlotNames DEF QueueInv, CurrentWrite, SentImmediate, OnlySlot
<1>21. CASE SentWrite
  BY <1>0, <1>21, SlotNames DEF QueueInv, CurrentWrite, SentWrite
<1>22. CASE Outside
  BY <1>0, <1>22 DEF Outside, QueueInv, CurrentWrite
<1>. QED
  BY StepCases, <1>1, <1>2, <1>3, <1>4, <1>5, <1>6, <1>7, <1>8, <1>9, <1>10,
     <1>11, <1>12, <1>13, <1>14, <1>15, <1>16, <1>17, <1>18, <1>19, <1>20,
     <1>21, <1>22
     DEF NormalStep

\* A step leaves request j where and as it is.
Elsewhere(j) ==
    /\ SameHolders(j) /\ SameProgress(j)
    /\ irp'[j].status = irp[j].status /\ irp'[j].length = irp[j].length
    /\ completions'[j] = completions[j]
    /\ j \in Range(queue') <=> j \in Range(queue)
    /\ \A s \in Slots : slot'[s].irp = j <=> slot[s].irp = j

Keeping == \E c \in Contexts : AtPlace(c, "keep")

\* A request a step leaves alone is as well as it was.
LEMMA RequestFrame ==
    ASSUME NEW j \in Irps, RequestOK(j), Elsewhere(j), Keeping => Keeping'
    PROVE  RequestOK(j)'
  BY DEF RequestOK, Elsewhere, Keeping, Fresh, Unknown, Untouched, Loose,
     SameHolders, SameProgress

\* Only one who keeps the current write can stop keeping it.
LEMMA KeepingStays ==
    ASSUME NEW c \in Contexts, NEW p, Moves(c, p), pc[c] # "keep"
    PROVE  Keeping => Keeping'
  BY DEF Keeping, Moves, AtPlace

\* What RequestOK asks of a request the driver has, and of a completed one.
LEMMA LiveRequest ==
    ASSUME NEW i \in Irps,
           completions'[i] = 0,
           irp'[i].status \notin {"new", "done"},
           irp'[i].length \in Lengths(i),
           irp'[i].routine = "queued" <=> i \in Range(queue'),
           irp'[i].routine = "queued" =>
               Unknown(i)' /\ Untouched(i)' /\ irp'[i].status = "pending",
           \A s \in Slots : irp'[i].routine = s => slot'[s].irp = i,
           irp'[i].refs # {} => ~Unknown(i)'
    PROVE  RequestOK(i)'
  BY DEF RequestOK, Fresh

\* A request that has been completed once and is nowhere is well.
LEMMA DoneRequest ==
    ASSUME NEW i \in Irps,
           completions'[i] = 1,
           irp'[i].status = "done",
           irp'[i].routine = "none", irp'[i].refs = {},
           i \notin Range(queue'),
           \A s \in Slots : slot'[s].irp = i => s = "write" /\ Keeping'
    PROVE  RequestOK(i)'
  BY SlotNames DEF RequestOK, Fresh, Loose, Keeping, Slots

\* What it says of one the driver has.
LEMMA LiveFacts ==
    ASSUME NEW i \in Irps, RequestOK(i), irp[i].status \notin {"new", "done"}
    PROVE  /\ completions[i] = 0
           /\ irp[i].length \in Lengths(i)
           /\ irp[i].routine = "queued" <=> i \in Range(queue)
           /\ \A s \in Slots : irp[i].routine = s => slot[s].irp = i
           /\ irp[i].refs # {} => ~Unknown(i)
           /\ irp[i].routine = "queued" =>
                  Unknown(i) /\ Untouched(i) /\ irp[i].status = "pending"
  BY DEF RequestOK

\* A request that was not sent is known to nobody.
LEMMA FreshFacts ==
    ASSUME NEW i \in Irps, RequestOK(i), Fresh(i)
    PROVE  /\ completions[i] = 0
           /\ Unknown(i) /\ Untouched(i)
           /\ irp[i].routine = "none" /\ i \notin Range(queue)
  BY DEF RequestOK, Fresh

\* What stays where it is, with all its fields, is left alone.
LEMMA RequestElsewhere ==
    ASSUME NEW i, OnlyRequest(i), NEW j \in Irps, j # i,
           j \in Range(queue') <=> j \in Range(queue),
           \A s \in Slots : slot'[s].irp = j <=> slot[s].irp = j
    PROVE  Elsewhere(j)
  BY DEF OnlyRequest, Elsewhere, SameHolders, SameProgress

\* No change of the slots' requests.
LEMMA SlotsKept ==
    ASSUME NEW s \in Slots, OnlySlot(s), slot'[s].irp = slot[s].irp
    PROVE  \A r \in Slots : slot'[r].irp = slot[r].irp
  BY DEF OnlySlot

\* Who knows a request stays in step with its status.
LEMMA RequestInvStep == IInv /\ CounterSlotFree /\ [Next]_vars => RequestInv'
<1>. SUFFICES ASSUME IInv, CounterSlotFree, [Next]_vars PROVE RequestInv'
  OBVIOUS
<1>0. /\ IInv /\ TypeOK /\ KindInv /\ QueueInv /\ HeldInv /\ WriterInv
      /\ RefsMatchHolders
      /\ \A i \in Irps : RequestOK(i)
  BY DEF IInv, RequestInv
<1>00. CounterSlotFree
  OBVIOUS
<1>1. ASSUME NEW i \in Irps, RefuseAtDispatch(i)
      PROVE  RequestInv'
  <2>1. /\ Fresh(i) /\ Finished(i, 0)
        /\ UNCHANGED <<queue, slot, pc>>
    BY <1>0, <1>1, RefuseFacts
  <2>2. Keeping => Keeping'
    BY <2>1 DEF Keeping, AtPlace
  <2>8. RequestOK(i)'
    <3>1. /\ completions[i] = 0 /\ i \notin Range(queue)
          /\ \A s \in Slots : slot[s].irp # i
      BY <1>0, <2>1, FreshFacts DEF Unknown
    <3>. QED  BY <2>1, <3>1, DoneRequest DEF Finished
  <2>9. ASSUME NEW j \in Irps, j # i PROVE RequestOK(j)'
    <3>1. Elsewhere(j)
      BY <2>9, <2>1, RequestElsewhere DEF Finished
    <3>. QED  BY <1>0, <2>2, <3>1, RequestFrame
  <2>. QED  BY <2>8, <2>9 DEF RequestInv
<1>2. ASSUME NEW i \in Irps, QueueAtDispatch(i)
      PROVE  RequestInv'
  <2>1. /\ i \in QueueIrps /\ Fresh(i) /\ Accepted(i, "queued")
        /\ queue' = Append(queue, i)
        /\ UNCHANGED <<slot, pc>>
    BY <1>0, <1>2, QueueFacts
  <2>2. Keeping => Keeping'
    BY <2>1 DEF Keeping, AtPlace
  <2>3. /\ i \notin Range(queue) /\ completions[i] = 0 /\ Untouched(i)
        /\ \A s \in Slots : slot[s].irp # i
    BY <1>0, <2>1, FreshFacts DEF Unknown
  <2>4. \A j : j \in Range(queue') <=> j \in Range(queue) \/ j = i
    BY <1>0, <2>1, <2>3, AppendEntries DEF QueueInv, TypeOK
  <2>8. RequestOK(i)'
    <3>1. /\ irp'[i].routine = "queued" /\ irp'[i].status = "pending"
          /\ irp'[i].length \in Lengths(i) /\ completions'[i] = 0
      BY <2>1, <2>3 DEF Accepted
    <3>2. irp'[i].refs = {} /\ Unknown(i)' /\ Untouched(i)'
      BY <2>1, <2>3 DEF Accepted, SameProgress, Untouched, Unknown
    <3>3. "queued" \notin Slots
      BY DEF Slots
    <3>. QED  BY <2>4, <3>1, <3>2, <3>3, LiveRequest
  <2>9. ASSUME NEW j \in Irps, j # i PROVE RequestOK(j)'
    <3>1. Elsewhere(j)
      BY <2>9, <2>1, <2>4, RequestElsewhere DEF Accepted
    <3>. QED  BY <1>0, <2>2, <3>1, RequestFrame
  <2>. QED  BY <2>8, <2>9 DEF RequestInv
<1>3. ASSUME NEW i \in Irps, CancelledAtDispatch(i)
      PROVE  RequestInv'
  <2>1. /\ Fresh(i) /\ \E n \in Lengths(i) : Finished(i, n)
        /\ UNCHANGED <<queue, slot, pc>>
    BY <1>0, <1>3, CancelledAtDispatchFacts
  <2>2. Keeping => Keeping'
    BY <2>1 DEF Keeping, AtPlace
  <2>8. RequestOK(i)'
    <3>1. /\ completions[i] = 0 /\ i \notin Range(queue)
          /\ \A s \in Slots : slot[s].irp # i
      BY <1>0, <2>1, FreshFacts DEF Unknown
    <3>. QED  BY <2>1, <3>1, DoneRequest DEF Finished
  <2>9. ASSUME NEW j \in Irps, j # i PROVE RequestOK(j)'
    <3>1. Elsewhere(j)
      BY <2>9, <2>1, RequestElsewhere DEF Finished
    <3>. QED  BY <1>0, <2>2, <3>1, RequestFrame
  <2>. QED  BY <2>8, <2>9 DEF RequestInv
<1>4. ASSUME NEW i \in Irps, CancelQueuedIrp(i)
      PROVE  RequestInv'
  <2>1. /\ irp[i].routine = "queued" /\ Finished(i, 0)
        /\ UNCHANGED <<slot, pc>>
    BY <1>0, <1>4, WithdrawFacts
  <2>2. Keeping => Keeping'
    BY <2>1 DEF Keeping, AtPlace
  <2>3. PICK n \in 1..Len(queue) : queue[n] = i /\ queue' = RemoveAt(queue, n)
    BY <1>0, <1>4, WithdrawFacts
  <2>4. \A j : j \in Range(queue') <=> j \in Range(queue) /\ j # i
    BY <1>0, <2>3, RemoveEntries DEF QueueInv, TypeOK
  <2>8. RequestOK(i)'
    <3>1. completions[i] = 0 /\ \A s \in Slots : slot[s].irp # i
      BY <1>0, <2>1 DEF RequestOK, Unknown
    <3>. QED  BY <2>1, <2>4, <3>1, DoneRequest DEF Finished
  <2>9. ASSUME NEW j \in Irps, j # i PROVE RequestOK(j)'
    <3>1. Elsewhere(j)
      BY <2>9, <2>1, <2>4, RequestElsewhere DEF Finished
    <3>. QED  BY <1>0, <2>2, <3>1, RequestFrame
  <2>. QED  BY <2>8, <2>9 DEF RequestInv
<1>5. ASSUME NEW i \in Irps, FlagCancel(i)
      PROVE  RequestInv'
  <2>1. /\ OnlyRequest(i) /\ SameHolders(i) /\ SameProgress(i)
        /\ irp'[i].status = irp[i].status /\ irp'[i].length = irp[i].length
        /\ UNCHANGED <<completions, queue, slot, pc>>
    BY <1>0, <1>5, FlagFacts
  <2>2. Keeping => Keeping'
    BY <2>1 DEF Keeping, AtPlace
  <2>. SUFFICES ASSUME NEW j \in Irps PROVE RequestOK(j)'
    BY DEF RequestInv
  <2>9. Elsewhere(j)
    BY <2>1 DEF OnlyRequest, Elsewhere, SameHolders, SameProgress
  <2>. QED  BY <1>0, <2>2, <2>9, RequestFrame
<1>6. ASSUME NEW c \in Contexts, NEW i \in Irps, StartAtDispatch(c, i)
      PROVE  RequestInv'
  <2>1. /\ AtPlace(c, "idle") /\ Fresh(i) /\ CurrentWrite = None
        /\ Accepted(i, irp[i].routine) /\ OnlySlot("write")
        /\ slot'["write"].irp = i
        /\ queue' = queue
        /\ Moves(c, IF i \in Flushes THEN "pop" ELSE "start")
    BY <1>0, <1>6, StartFacts
  <2>2. Keeping => Keeping'
    BY <2>1, KeepingStays DEF AtPlace
  <2>3. None \notin Irps
    BY SerialWriteAssumption
  <2>8. RequestOK(i)'
    <3>1. /\ completions[i] = 0 /\ i \notin Range(queue) /\ Untouched(i)
          /\ irp[i].routine = "none"
      BY <1>0, <2>1, FreshFacts
    <3>2. /\ irp'[i].routine = "none" /\ irp'[i].refs = {}
          /\ irp'[i].status = "pending" /\ irp'[i].length \in Lengths(i)
          /\ completions'[i] = 0
      BY <2>1, <3>1 DEF Accepted, Untouched
    <3>3. "none" \notin Slots
      BY DEF Slots
    <3>. QED  BY <2>1, <3>1, <3>2, <3>3, LiveRequest
  <2>9. ASSUME NEW j \in Irps, j # i PROVE RequestOK(j)'
    <3>0. \A s \in Slots : slot'[s].irp = j <=> slot[s].irp = j
      BY <2>1, <2>3, <2>9 DEF OnlySlot, CurrentWrite
    <3>1. Elsewhere(j)
      BY <2>9, <2>1, <3>0, RequestElsewhere DEF Accepted
    <3>. QED  BY <1>0, <2>2, <3>1, RequestFrame
  <2>. QED  BY <2>8, <2>9 DEF RequestInv
<1>7. ASSUME NEW c \in Contexts, NEW i \in Irps, ImmediateAtDispatch(c, i)
      PROVE  RequestInv'
  <2>1. /\ AtPlace(c, "idle") /\ Fresh(i) /\ CurrentImmediate = None
        /\ Accepted(i, irp[i].routine) /\ OnlySlot("immediate")
        /\ slot'["immediate"].irp = i
        /\ queue' = queue
        /\ Moves(c, "istart")
    BY <1>0, <1>7, ImmediateFacts
  <2>2. Keeping => Keeping'
    BY <2>1, KeepingStays DEF AtPlace
  <2>3. None \notin Irps
    BY SerialWriteAssumption
  <2>8. RequestOK(i)'
    <3>1. /\ completions[i] = 0 /\ i \notin Range(queue) /\ Untouched(i)
          /\ irp[i].routine = "none"
      BY <1>0, <2>1, FreshFacts
    <3>2. /\ irp'[i].routine = "none" /\ irp'[i].refs = {}
          /\ irp'[i].status = "pending" /\ irp'[i].length \in Lengths(i)
          /\ completions'[i] = 0
      BY <2>1, <3>1 DEF Accepted, Untouched
    <3>3. "none" \notin Slots
      BY DEF Slots
    <3>. QED  BY <2>1, <3>1, <3>2, <3>3, LiveRequest
  <2>9. ASSUME NEW j \in Irps, j # i PROVE RequestOK(j)'
    <3>0. \A s \in Slots : slot'[s].irp = j <=> slot[s].irp = j
      BY <2>1, <2>3, <2>9 DEF OnlySlot, CurrentImmediate
    <3>1. Elsewhere(j)
      BY <2>9, <2>1, <3>0, RequestElsewhere DEF Accepted
    <3>. QED  BY <1>0, <2>2, <3>1, RequestFrame
  <2>. QED  BY <2>8, <2>9 DEF RequestInv
<1>8. ASSUME NEW c \in Contexts, FinishCancelled(c)
      PROVE  RequestInv'
  <2>0. PICK i \in Irps : i = CurrentWrite
    BY <1>0, <1>8, WorkingWriter, WriterFacts
  <2>00. RequestOK(i) /\ WriterOK(c) /\ CurrentWrite # None
    BY <1>0, <1>8, WorkingWriter, WriterFacts
  <2>1. /\ Giving(c) /\ Becomes(i, "cancelled")
        /\ Moves(c, "next")
        /\ UNCHANGED <<queue, slot>>
    BY <1>0, <1>8, <2>0, <2>00, CancelledFacts
  <2>3. irp[i].status = "pending" /\ Loose(i) /\ pc[c] # "keep"
    BY <2>0, <2>00, <2>1 DEF WriterOK, Giving, AtPlace
  <2>2. Keeping => Keeping'
    BY <2>1, <2>3, KeepingStays
  <2>8. RequestOK(i)'
    <3>1. /\ completions[i] = 0 /\ i \notin Range(queue)
          /\ irp[i].length \in Lengths(i)
      BY <1>0, <2>3, LiveFacts DEF Loose
    <3>2. /\ irp'[i].routine = "none" /\ irp'[i].refs = {}
          /\ irp'[i].status = "cancelled" /\ irp'[i].length \in Lengths(i)
          /\ completions'[i] = 0
      BY <2>1, <2>3, <3>1 DEF Becomes, SameHolders, Loose
    <3>3. "none" \notin Slots
      BY DEF Slots
    <3>. QED  BY <2>1, <3>1, <3>2, <3>3, LiveRequest
  <2>9. ASSUME NEW j \in Irps, j # i PROVE RequestOK(j)'
    <3>1. Elsewhere(j)
      BY <2>9, <2>1, RequestElsewhere DEF Becomes
    <3>. QED  BY <1>0, <2>2, <3>1, RequestFrame
  <2>. QED  BY <2>8, <2>9 DEF RequestInv
<1>9. ASSUME NEW c \in Contexts, GiveWrite(c)
      PROVE  RequestInv'
  <2>0. PICK i \in Irps : i = CurrentWrite
    BY <1>0, <1>9, WorkingWriter, WriterFacts
  <2>00. RequestOK(i) /\ WriterOK(c) /\ CurrentWrite # None
    BY <1>0, <1>9, WorkingWriter, WriterFacts
  <2>1. /\ Giving(c) /\ Handed("write", i, irp[i].length)
        /\ Moves(c, "idle")
        /\ UNCHANGED queue
    BY <1>0, <1>9, <2>0, <2>00, GiveFacts
  <2>3. irp[i].status = "pending" /\ Loose(i) /\ pc[c] # "keep"
    BY <2>0, <2>00, <2>1 DEF WriterOK, Giving, AtPlace
  <2>2. Keeping => Keeping'
    BY <2>1, <2>3, KeepingStays
  <2>4. \A s \in Slots : slot'[s].irp = slot[s].irp
    BY <2>0, <2>1, SlotNames, SlotsKept DEF Handed, CurrentWrite
  <2>8. RequestOK(i)'
    <3>1. /\ completions[i] = 0 /\ i \notin Range(queue)
          /\ irp[i].length \in Lengths(i)
      BY <1>0, <2>3, LiveFacts DEF Loose
    <3>2. /\ irp'[i].routine = "write" /\ slot'["write"].irp = i
          /\ irp'[i].status = "pending" /\ irp'[i].length \in Lengths(i)
          /\ completions'[i] = 0
      BY <2>1, <2>3, <3>1 DEF Handed
    <3>3. ~Unknown(i)'
      BY <3>2, SlotNames DEF Unknown
    <3>. QED  BY <2>1, <3>1, <3>2, <3>3, LiveRequest
  <2>9. ASSUME NEW j \in Irps, j # i PROVE RequestOK(j)'
    <3>1. Elsewhere(j)
      BY <2>9, <2>1, <2>4, RequestElsewhere DEF Handed
    <3>. QED  BY <1>0, <2>2, <3>1, RequestFrame
  <2>. QED  BY <2>8, <2>9 DEF RequestInv
<1>10. ASSUME NEW c \in Contexts, Account(c)
      PROVE  RequestInv'
  <2>1. /\ AtPlace(c, "next") /\ Moves(c, "pop")
        /\ UNCHANGED <<irp, completions, queue, slot>>
    BY <1>0, <1>10, AccountFacts
  <2>2. Keeping => Keeping'
    BY <2>1, KeepingStays DEF AtPlace
  <2>. SUFFICES ASSUME NEW j \in Irps PROVE RequestOK(j)'
    BY DEF RequestInv
  <2>9. Elsewhere(j)
    BY <2>1 DEF Elsewhere, SameHolders, SameProgress
  <2>. QED  BY <1>0, <2>2, <2>9, RequestFrame
<1>11. ASSUME NEW c \in Contexts, AccountXoff(c)
      PROVE  RequestInv'
  <2>0. PICK i \in Irps : i = CurrentWrite
    BY <1>0, <1>11, WorkingWriter, WriterFacts
  <2>00. RequestOK(i) /\ WriterOK(c) /\ CurrentWrite # None
    BY <1>0, <1>11, WorkingWriter, WriterFacts
  <2>1. /\ AtPlace(c, "next") /\ StartsCounting(i) /\ UNCHANGED queue
        /\ \/ /\ Becomes(i, "cancelled") /\ UNCHANGED slot
              /\ Moves(c, "pop")
           \/ /\ \E n \in 1..MaxCounter : Handed("xoff", i, n)
              /\ Moves(c, "keep")
    BY <1>0, <1>11, <2>0, <2>00, AccountXoffFacts
  <2>3. irp[i].status = "success" /\ Loose(i)
    BY <2>0, <2>00, <2>1 DEF StartsCounting, WriterOK, AtPlace
  <2>2. Keeping => Keeping'
    BY <2>1, KeepingStays DEF AtPlace
  <2>4. slot["xoff"].irp = None
    BY <1>00, <2>0, <2>1 DEF CounterSlotFree
  <2>5. /\ completions[i] = 0 /\ i \notin Range(queue)
        /\ irp[i].length \in Lengths(i)
    BY <1>0, <2>3, LiveFacts DEF Loose
  <2>6. "none" \notin Slots /\ None \notin Irps
    BY SerialWriteAssumption DEF Slots
  <2>7. OnlyRequest(i)
    BY <2>1 DEF Becomes, Handed
  <2>8. RequestOK(i)'
    <3>1. CASE Becomes(i, "cancelled") /\ UNCHANGED slot
      <4>2. /\ irp'[i].routine = "none" /\ irp'[i].refs = {}
            /\ irp'[i].status = "cancelled" /\ irp'[i].length \in Lengths(i)
            /\ completions'[i] = 0
        BY <2>3, <2>5, <3>1 DEF Becomes, SameHolders, Loose
      <4>. QED  BY <2>1, <2>5, <2>6, <4>2, LiveRequest
    <3>2. CASE \E n \in 1..MaxCounter : Handed("xoff", i, n)
      <4>2. /\ irp'[i].routine = "xoff" /\ slot'["xoff"].irp = i
            /\ irp'[i].status = "success" /\ irp'[i].length \in Lengths(i)
            /\ completions'[i] = 0
        BY <2>3, <2>5, <3>2 DEF Handed
      <4>3. ~Unknown(i)'
        BY <4>2, SlotNames DEF Unknown
      <4>. QED  BY <2>1, <2>5, <4>2, <4>3, LiveRequest
    <3>. QED  BY <2>1, <3>1, <3>2
  <2>9. ASSUME NEW j \in Irps, j # i PROVE RequestOK(j)'
    <3>0. \A s \in Slots : slot'[s].irp = j <=> slot[s].irp = j
      BY <2>1, <2>4, <2>6, <2>9 DEF Handed, OnlySlot
    <3>1. Elsewhere(j)
      BY <2>9, <2>1, <2>7, <3>0, RequestElsewhere
    <3>. QED  BY <1>0, <2>2, <3>1, RequestFrame
  <2>. QED  BY <2>8, <2>9 DEF RequestInv
<1>12. ASSUME NEW c \in Contexts, GetNextIrp(c)
      PROVE  RequestInv'
  <2>0. PICK i \in Irps : i = CurrentWrite
    BY <1>0, <1>12, WorkingWriter, WriterFacts
  <2>00. RequestOK(i) /\ WriterOK(c) /\ CurrentWrite # None
    BY <1>0, <1>12, WorkingWriter, WriterFacts
  <2>. DEFINE next == IF queue = <<>> THEN None ELSE Head(queue)
  <2>1. /\ pc[c] \in {"pop", "keep"}
        /\ AtPlace(c,
          "pop") => irp'[i] = Ended /\ completions'[i] = completions[i] + 1
        /\ AtPlace(c, "keep") /\ i # next =>
               irp'[i] = irp[i] /\ completions'[i] = completions[i]
        /\ \A j \in Irps : j # i => completions'[j] = completions[j]
        /\ \A j \in Irps : j # i /\ j # next => irp'[j] = irp[j]
        /\ \A j \in Irps : j # i /\ j = next =>
               irp'[j] = [irp[j] EXCEPT !.routine = "none"]
        /\ OnlySlot("write") /\ slot'["write"].irp = next
        /\ queue' = IF queue = <<>> THEN <<>> ELSE Tail(queue)
    BY <1>0, <1>12, <2>0, NextIrpFacts DEF AtPlace
  <2>2. queue # <<>> => /\ next \in Irps /\ next \in Range(queue)
                       /\ \A j : j \in Range(queue')
                              <=> j \in Range(queue) /\ j # next
    BY <1>0, <2>1, HeadEntries DEF QueueInv, TypeOK, Irps
  <2>3. queue = <<>> => next = None /\ queue' = queue
    BY <2>1
  <2>. HIDE DEF next
  <2>4. None \notin Irps /\ i \in Irps /\ i # None
    BY SerialWriteAssumption
  <2>5. next # None => /\ next \in Irps /\ irp[next].routine = "queued"
                      /\ completions[next] = 0 /\ irp[next].status = "pending"
                      /\ irp[next].refs = {}
                      /\ irp[next].length \in Lengths(next)
                      /\ \A s \in Slots : slot[s].irp # next
    <3>1. SUFFICES ASSUME next # None
                   PROVE  /\ next \in Irps /\ irp[next].routine = "queued"
                          /\ completions[next] = 0
                          /\ irp[next].status = "pending"
                          /\ irp[next].refs = {}
                          /\ irp[next].length \in Lengths(next)
                          /\ \A s \in Slots : slot[s].irp # next
      OBVIOUS
    <3>2. next \in Irps /\ next \in Range(queue) /\ RequestOK(next)
      BY <1>0, <2>2, <2>3, <3>1
    <3>. QED  BY <3>2 DEF RequestOK, Unknown, Untouched
  <2>6. next # i
    BY <2>0, <2>4, <2>5, SlotNames DEF CurrentWrite
  <2>7. \A j \in Irps : j # next => (j \in Range(queue') <=> j \in Range(queue))
    BY <2>2, <2>3, <2>4
  <2>8. RequestOK(i)'
    <3>1. i \notin Range(queue) /\ irp[i].routine # "queued"
      BY <2>0, <2>00, SlotNames DEF RequestOK, Unknown, CurrentWrite
    <3>2. i \notin Range(queue')
      BY <2>6, <2>7, <3>1
    <3>3. slot["immediate"].irp # i
      BY <1>0, <2>0, <2>00, TwoSlots, SlotNames DEF CurrentWrite
    <3>4. \A s \in Slots : 
              slot'[s].irp = i <=> s = "xoff" /\ slot["xoff"].irp = i
      BY <2>1, <2>6, <3>3 DEF OnlySlot, Slots
    <3>5. CASE AtPlace(c, "pop")
      <4>1. slot["xoff"].irp # i /\ completions[i] = 0
        BY <2>0, <2>00, <3>5 DEF WriterOK, RequestOK, AtPlace
      <4>2. /\ irp'[i].status = "done" /\ irp'[i].routine = "none"
            /\ irp'[i].refs = {} /\ completions'[i] = 1
        BY <2>1, <3>5, <4>1, NewFields
      <4>. QED  BY <3>2, <3>4, <4>1, <4>2, DoneRequest
    <3>6. CASE AtPlace(c, "keep")
      <4>1. irp'[i] = irp[i] /\ completions'[i] = completions[i]
        BY <2>1, <2>6, <3>6
      <4>2. ~Fresh(i)
        BY <2>0, <2>00, SlotNames DEF RequestOK, Unknown, CurrentWrite
      <4>3. CASE irp[i].status = "done"
        <5>1. slot["xoff"].irp # i /\ completions[i] = 1 /\ Loose(i)
          BY <2>00, <4>3, SlotNames DEF RequestOK
        <5>. QED  BY <3>2, <3>4, <4>1, <4>3, <5>1, DoneRequest DEF Loose
      <4>4. CASE irp[i].status # "done"
        <5>1. completions[i] = 0 /\ irp[i].length \in Lengths(i)
          BY <2>00, <4>2, <4>4, LiveFacts DEF Fresh
        <5>2. i = slot["xoff"].irp \/ Loose(i)
          BY <2>0, <2>00, <3>6, <4>4 DEF WriterOK
        <5>3. \A s \in Slots : irp[i].routine = s => slot'[s].irp = i
          BY <2>0, <2>00, <3>3, <3>4 DEF RequestOK, WriterOK, Slots
        <5>4. irp[i].refs # {} => ~Unknown(i)'
          BY <3>4, <5>2, SlotNames DEF Unknown, Loose
        <5>. QED
          BY <3>1, <3>2, <4>1, <4>2, <4>4, <5>1, <5>3, <5>4, LiveRequest
             DEF Fresh
      <4>. QED  BY <4>3, <4>4
    <3>. QED  BY <2>1, <3>5, <3>6 DEF AtPlace
  <2>9. ASSUME NEW j \in Irps, j = next PROVE RequestOK(j)'
    <3>1. /\ irp'[j] = [irp[j] EXCEPT !.routine = "none"]
          /\ completions'[j] = 0
      BY <2>1, <2>4, <2>5, <2>6, <2>9
    <3>2. /\ irp'[j].routine = "none" /\ irp'[j].refs = {}
          /\ irp'[j].status = "pending" /\ irp'[j].length \in Lengths(j)
      BY <1>0, <2>4, <2>5, <2>9, <3>1 DEF TypeOK, Irp
    <3>3. j \notin Range(queue')
      BY <2>2, <2>3, <2>4, <2>9
    <3>4. "none" \notin Slots
      BY DEF Slots
    <3>. QED  BY <3>1, <3>2, <3>3, <3>4, LiveRequest
  <2>10. ASSUME NEW j \in Irps, j # i, j # next PROVE RequestOK(j)'
    <3>1. irp'[j] = irp[j] /\ completions'[j] = completions[j]
      BY <2>1, <2>10
    <3>2. \A s \in Slots : slot'[s].irp = j <=> slot[s].irp = j
      BY <2>0, <2>1, <2>10 DEF OnlySlot, CurrentWrite
    <3>3. RequestOK(j)
      BY <1>0
    <3>4. irp[j].status = "done" => \A s \in Slots : slot[s].irp # j
      BY <2>0, <2>10, <3>3 DEF RequestOK, CurrentWrite
    <3>. QED
      BY <2>7, <2>10, <3>1, <3>2, <3>3, <3>4
         DEF RequestOK, Fresh, Unknown, Untouched, Loose
  <2>. QED  BY <2>8, <2>9, <2>10 DEF RequestInv
<1>13. ASSUME NEW c \in Contexts, ProcessEmptyTransmit(c)
      PROVE  RequestInv'
  <2>1. /\ AtPlace(c, "empty") /\ Moves(c, "idle")
        /\ UNCHANGED <<irp, completions, queue, slot>>
    BY <1>0, <1>13, EmptyFacts
  <2>2. Keeping => Keeping'
    BY <2>1, KeepingStays DEF AtPlace
  <2>. SUFFICES ASSUME NEW j \in Irps PROVE RequestOK(j)'
    BY DEF RequestInv
  <2>9. Elsewhere(j)
    BY <2>1 DEF Elsewhere, SameHolders, SameProgress
  <2>. QED  BY <1>0, <2>2, <2>9, RequestFrame
<1>14. ASSUME NEW c \in Contexts, FinishImmediateCancelled(c)
      PROVE  RequestInv'
  <2>0. PICK i \in Irps : i = CurrentImmediate
    BY <1>0, <1>14, WorkingInterposer, InterposerFacts
  <2>00. RequestOK(i) /\ InterposerOK(c) /\ CurrentImmediate # None
    BY <1>0, <1>14, WorkingInterposer, InterposerFacts
  <2>1. /\ AtPlace(c, "istart") /\ Finished(i, 1)
        /\ OnlySlot("immediate") /\ Moves(c, "idle")
        /\ slot'["immediate"] = [slot["immediate"] EXCEPT !.irp = None]
        /\ UNCHANGED queue
    BY <1>0, <1>14, <2>0, <2>00, ImmediateCancelledFacts
  <2>2. Keeping => Keeping'
    BY <2>1, KeepingStays DEF AtPlace
  <2>3. slot'["immediate"].irp = None
    BY <1>0, <2>1, SlotNames DEF TypeOK, Slot
  <2>4. None \notin Irps
    BY SerialWriteAssumption
  <2>5. \A s \in Slots : slot'[s].irp # i
    <3>1. \A s \in Slots : slot[s].irp = i => s = "immediate"
      BY <1>0, <2>0, <2>00, TwoSlots, SlotNames DEF CurrentImmediate
    <3>. QED  BY <2>1, <2>3, <2>4, <3>1 DEF OnlySlot
  <2>8. RequestOK(i)'
    <3>1. irp[i].status \notin {"new", "done"} /\ Loose(i)
      BY <2>0, <2>00 DEF InterposerOK
    <3>2. completions[i] = 0 /\ i \notin Range(queue)
      BY <1>0, <3>1, LiveFacts DEF Loose
    <3>. QED  BY <2>1, <2>5, <3>2, DoneRequest DEF Finished
  <2>9. ASSUME NEW j \in Irps, j # i PROVE RequestOK(j)'
    <3>0. \A s \in Slots : slot'[s].irp = j <=> slot[s].irp = j
      BY <2>0, <2>1, <2>3, <2>4, <2>9 DEF OnlySlot, CurrentImmediate
    <3>1. Elsewhere(j)
      BY <2>9, <2>1, <3>0, RequestElsewhere DEF Finished
    <3>. QED  BY <1>0, <2>2, <3>1, RequestFrame
  <2>. QED  BY <2>8, <2>9 DEF RequestInv
<1>15. ASSUME NEW c \in Contexts, GiveImmediate(c)
      PROVE  RequestInv'
  <2>0. PICK i \in Irps : i = CurrentImmediate
    BY <1>0, <1>15, WorkingInterposer, InterposerFacts
  <2>00. RequestOK(i) /\ InterposerOK(c) /\ CurrentImmediate # None
    BY <1>0, <1>15, WorkingInterposer, InterposerFacts
  <2>1. /\ AtPlace(c, "istart") /\ Handed("immediate", i, 1)
        /\ Moves(c, "idle")
        /\ UNCHANGED queue
    BY <1>0, <1>15, <2>0, <2>00, GiveImmediateFacts
  <2>3. irp[i].status = "pending" /\ Loose(i) /\ pc[c] # "keep"
    BY <2>0, <2>00, <2>1 DEF InterposerOK, Giving, AtPlace
  <2>2. Keeping => Keeping'
    BY <2>1, <2>3, KeepingStays
  <2>4. \A s \in Slots : slot'[s].irp = slot[s].irp
    BY <2>0, <2>1, SlotNames, SlotsKept DEF Handed, CurrentImmediate
  <2>8. RequestOK(i)'
    <3>1. /\ completions[i] = 0 /\ i \notin Range(queue)
          /\ irp[i].length \in Lengths(i)
      BY <1>0, <2>3, LiveFacts DEF Loose
    <3>2. /\ irp'[i].routine = "immediate" /\ slot'["immediate"].irp = i
          /\ irp'[i].status = "pending" /\ irp'[i].length \in Lengths(i)
          /\ completions'[i] = 0
      BY <2>1, <2>3, <3>1 DEF Handed
    <3>3. ~Unknown(i)'
      BY <3>2, SlotNames DEF Unknown
    <3>. QED  BY <2>1, <3>1, <3>2, <3>3, LiveRequest
  <2>9. ASSUME NEW j \in Irps, j # i PROVE RequestOK(j)'
    <3>1. Elsewhere(j)
      BY <2>9, <2>1, <2>4, RequestElsewhere DEF Handed
    <3>. QED  BY <1>0, <2>2, <3>1, RequestFrame
  <2>. QED  BY <2>8, <2>9 DEF RequestInv
<1>16. ASSUME NEW c \in Contexts, GetNextImmediate(c)
      PROVE  RequestInv'
  <2>0. PICK i \in Irps : i = CurrentImmediate
    BY <1>0, <1>16, WorkingInterposer, InterposerFacts
  <2>00. RequestOK(i) /\ InterposerOK(c) /\ CurrentImmediate # None
    BY <1>0, <1>16, WorkingInterposer, InterposerFacts
  <2>1. /\ AtPlace(c, "inext") /\ Finished(i, 0)
        /\ OnlySlot("immediate") /\ Moves(c, "idle")
        /\ slot'["immediate"] = [slot["immediate"] EXCEPT !.irp = None]
        /\ UNCHANGED queue
    BY <1>0, <1>16, <2>0, <2>00, NextImmediateFacts
  <2>2. Keeping => Keeping'
    BY <2>1, KeepingStays DEF AtPlace
  <2>3. slot'["immediate"].irp = None
    BY <1>0, <2>1, SlotNames DEF TypeOK, Slot
  <2>4. None \notin Irps
    BY SerialWriteAssumption
  <2>5. \A s \in Slots : slot'[s].irp # i
    <3>1. \A s \in Slots : slot[s].irp = i => s = "immediate"
      BY <1>0, <2>0, <2>00, TwoSlots, SlotNames DEF CurrentImmediate
    <3>. QED  BY <2>1, <2>3, <2>4, <3>1 DEF OnlySlot
  <2>8. RequestOK(i)'
    <3>1. irp[i].status \notin {"new", "done"} /\ Loose(i)
      BY <2>0, <2>00 DEF InterposerOK
    <3>2. completions[i] = 0 /\ i \notin Range(queue)
      BY <1>0, <3>1, LiveFacts DEF Loose
    <3>. QED  BY <2>1, <2>5, <3>2, DoneRequest DEF Finished
  <2>9. ASSUME NEW j \in Irps, j # i PROVE RequestOK(j)'
    <3>0. \A s \in Slots : slot'[s].irp = j <=> slot[s].irp = j
      BY <2>0, <2>1, <2>3, <2>4, <2>9 DEF OnlySlot, CurrentImmediate
    <3>1. Elsewhere(j)
      BY <2>9, <2>1, <3>0, RequestElsewhere DEF Finished
    <3>. QED  BY <1>0, <2>2, <3>1, RequestFrame
  <2>. QED  BY <2>8, <2>9 DEF RequestInv
<1>17. ASSUME NEW c \in Contexts, NEW s \in Slots, NEW h, NEW st, EndingOf(h,
  st),
           Ending(c, s, h, st)
      PROVE  RequestInv'
  <2>. DEFINE last == /\ ~(slot[s].sent /\ h # "isr")
                      /\ ~(slot[s].late /\ h # "timer")
  <2>0. PICK i \in Irps : i = slot[s].irp
    BY <1>17 DEF Ending
  <2>1. /\ ~InHand(s)
        /\ AtPlace(c, "idle") \/ (AtPlace(c, "start") /\ s = "xoff")
        /\ OnlyRequest(i) /\ OnlySlot(s)
        /\ slot'[s].irp = IF last /\ s = "xoff" THEN None ELSE i
        /\ last /\ s = "xoff" => Finished(i, 0)
        /\ ~(last /\ s = "xoff") =>
               /\ completions'[i] = completions[i]
               /\ irp'[i].routine = "none"
               /\ irp'[i].status = IF last THEN st ELSE irp[i].status
               /\ irp'[i].length = irp[i].length
        /\ \E p : Moves(c, p)
        /\ UNCHANGED queue
    BY <1>17, <2>0 DEF Ending
  <2>. HIDE DEF last
  <2>2. Keeping => Keeping'
    BY <2>1, KeepingStays DEF AtPlace
  <2>3. None \notin Irps /\ i # None
    BY SerialWriteAssumption
  <2>4. /\ irp[i].routine # "queued" /\ i \notin Range(queue)
        /\ irp[i].status \in {"pending", "success"}
        /\ completions[i] = 0 /\ irp[i].length \in Lengths(i)
    <3>1. irp[i].routine # "queued"
      BY <1>0, <2>0, <2>1, <2>3, HeldRoutine
    <3>2. irp[i].status \in {"pending", "success"}
      BY <1>0, <2>0, <2>1, <2>3 DEF HeldInv, HeldOK
    <3>. QED  BY <1>0, <3>1, <3>2, LiveFacts
  <2>8. RequestOK(i)'
    <3>1. CASE last /\ s = "xoff"
      <4>1. Finished(i, 0) /\ slot'["xoff"].irp = None
        BY <2>1, <3>1
      <4>2. ASSUME NEW r \in Slots, slot'[r].irp = i
            PROVE  r = "write" /\ Keeping
        <5>1. r # s /\ slot[r].irp = i
          BY <2>1, <2>3, <3>1, <4>1, <4>2 DEF OnlySlot
        <5>. QED  BY <1>0, <2>0, <2>3, <3>1, <5>1, TwoSlots DEF Keeping
      <4>. QED  BY <2>1, <2>2, <2>4, <4>1, <4>2, DoneRequest DEF Finished
    <3>2. CASE ~(last /\ s = "xoff")
      <4>1. st \in {"success", "timeout", "cancelled"}
        BY <1>17 DEF EndingOf
      <4>2. /\ irp'[i].status \notin {"new", "done"} /\ irp'[i].routine = "none"
            /\ completions'[i] = 0 /\ irp'[i].length \in Lengths(i)
        BY <2>1, <2>4, <3>2, <4>1
      <4>3. slot'[s].irp = i
        BY <2>1, <3>2
      <4>4. ~Unknown(i)' /\ "none" \notin Slots
        BY <4>3 DEF Unknown, Slots
      <4>. QED  BY <2>1, <2>4, <4>2, <4>4, LiveRequest
    <3>. QED  BY <3>1, <3>2
  <2>9. ASSUME NEW j \in Irps, j # i PROVE RequestOK(j)'
    <3>0. \A r \in Slots : slot'[r].irp = j <=> slot[r].irp = j
      BY <2>0, <2>1, <2>3, <2>9 DEF OnlySlot
    <3>1. Elsewhere(j)
      BY <2>9, <2>1, <3>0, RequestElsewhere
    <3>. QED  BY <1>0, <2>2, <3>1, RequestFrame
  <2>. QED  BY <2>8, <2>9 DEF RequestInv
<1>18. ASSUME NEW s \in Slots, Expire(s)
      PROVE  RequestInv'
  <2>1. /\ UNCHANGED <<irp, completions, queue, pc>>
        /\ \A r \in Slots : slot'[r].irp = slot[r].irp
    BY <1>0, <1>18, ExpireFacts, SlotsKept
  <2>2. Keeping => Keeping'
    BY <2>1 DEF Keeping, AtPlace
  <2>. SUFFICES ASSUME NEW j \in Irps PROVE RequestOK(j)'
    BY DEF RequestInv
  <2>9. Elsewhere(j)
    BY <2>1 DEF Elsewhere, SameHolders, SameProgress
  <2>. QED  BY <1>0, <2>2, <2>9, RequestFrame
<1>19. CASE CountSinceXoff
  <2>1. /\ UNCHANGED <<irp, completions, queue, pc>>
        /\ \A r \in Slots : slot'[r].irp = slot[r].irp
    BY <1>0, <1>19, CountFacts, SlotsKept, SlotNames
  <2>2. Keeping => Keeping'
    BY <2>1 DEF Keeping, AtPlace
  <2>. SUFFICES ASSUME NEW j \in Irps PROVE RequestOK(j)'
    BY DEF RequestInv
  <2>9. Elsewhere(j)
    BY <2>1 DEF Elsewhere, SameHolders, SameProgress
  <2>. QED  BY <1>0, <2>2, <2>9, RequestFrame
<1>20. CASE SentImmediate
  <2>0. PICK i \in Irps : i = CurrentImmediate
    BY <1>20 DEF SentImmediate
  <2>1. /\ slot["immediate"].owed > 0
        /\ OnlyRequest(i) /\ OnlySlot("immediate")
        /\ slot'["immediate"].irp = i /\ SameHolders(i)
        /\ irp'[i].status = irp[i].status
        /\ irp'[i].length = irp[i].length
        /\ UNCHANGED <<completions, queue, pc>>
    BY <1>20, <2>0 DEF SentImmediate
  <2>2. Keeping => Keeping'
    BY <2>1 DEF Keeping, AtPlace
  <2>3. slot["immediate"].irp # None /\ ~InHand("immediate")
    BY <1>0, <2>1, HeldSlot, SlotNames
  <2>4. irp[i].status = "pending" /\ irp[i].routine # "queued"
    BY <1>0, <2>0, <2>3, HeldRoutine, SlotNames DEF HeldInv, HeldOK,
       CurrentImmediate
  <2>5. \A r \in Slots : slot'[r].irp = slot[r].irp
    BY <2>0, <2>1, SlotsKept, SlotNames DEF CurrentImmediate
  <2>8. RequestOK(i)'
    <3>1. /\ completions[i] = 0 /\ irp[i].length \in Lengths(i)
          /\ i \notin Range(queue)
          /\ \A r \in Slots : irp[i].routine = r => slot[r].irp = i
      BY <1>0, <2>4, LiveFacts
    <3>2. ~Unknown(i)'
      BY <2>1, SlotNames DEF Unknown
    <3>. QED  BY <2>1, <2>4, <2>5, <3>1, <3>2, LiveRequest DEF SameHolders
  <2>9. ASSUME NEW j \in Irps, j # i PROVE RequestOK(j)'
    <3>1. Elsewhere(j)
      BY <2>9, <2>1, <2>5, RequestElsewhere
    <3>. QED  BY <1>0, <2>2, <3>1, RequestFrame
  <2>. QED  BY <2>8, <2>9 DEF RequestInv
<1>21. CASE SentWrite
  <2>0. PICK i \in Irps : i = CurrentWrite
    BY <1>21 DEF SentWrite
  <2>1. /\ slot["write"].owed > 0
        /\ OnlyRequest(i) /\ OnlySlot("write")
        /\ slot'["write"].irp = i /\ SameHolders(i)
        /\ irp'[i].status = irp[i].status
        /\ irp'[i].length = irp[i].length
        /\ UNCHANGED <<completions, queue, pc>>
    BY <1>21, <2>0 DEF SentWrite
  <2>2. Keeping => Keeping'
    BY <2>1 DEF Keeping, AtPlace
  <2>3. slot["write"].irp # None /\ ~InHand("write")
    BY <1>0, <2>1, HeldSlot, SlotNames
  <2>4. irp[i].status = "pending" /\ irp[i].routine # "queued"
    BY <1>0, <2>0, <2>3, HeldRoutine, SlotNames DEF HeldInv, HeldOK,
       CurrentWrite
  <2>5. \A r \in Slots : slot'[r].irp = slot[r].irp
    BY <2>0, <2>1, SlotsKept, SlotNames DEF CurrentWrite
  <2>8. RequestOK(i)'
    <3>1. /\ completions[i] = 0 /\ irp[i].length \in Lengths(i)
          /\ i \notin Range(queue)
          /\ \A r \in Slots : irp[i].routine = r => slot[r].irp = i
      BY <1>0, <2>4, LiveFacts
    <3>2. ~Unknown(i)'
      BY <2>1, SlotNames DEF Unknown
    <3>. QED  BY <2>1, <2>4, <2>5, <3>1, <3>2, LiveRequest DEF SameHolders
  <2>9. ASSUME NEW j \in Irps, j # i PROVE RequestOK(j)'
    <3>1. Elsewhere(j)
      BY <2>9, <2>1, <2>5, RequestElsewhere
    <3>. QED  BY <1>0, <2>2, <3>1, RequestFrame
  <2>. QED  BY <2>8, <2>9 DEF RequestInv
<1>22. CASE Outside
  <2>1. UNCHANGED <<irp, completions, queue, slot, pc>>
    BY <1>22 DEF Outside
  <2>2. Keeping => Keeping'
    BY <2>1 DEF Keeping, AtPlace
  <2>. SUFFICES ASSUME NEW j \in Irps PROVE RequestOK(j)'
    BY DEF RequestInv
  <2>9. Elsewhere(j)
    BY <2>1 DEF Elsewhere, SameHolders, SameProgress
  <2>. QED  BY <1>0, <2>2, <2>9, RequestFrame
<1>. QED
  BY StepCases, <1>1, <1>2, <1>3, <1>4, <1>5, <1>6, <1>7, <1>8, <1>9, <1>10,
     <1>11, <1>12, <1>13, <1>14, <1>15, <1>16, <1>17, <1>18, <1>19, <1>20,
     <1>21, <1>22
     DEF NormalStep

-----------------------------------------------------------------------------
(* What the steps are to the slots: those that do not concern a slot leave    *)
(* it and the requests in it alone (Aside).                                   *)

\* The requests in the slots are left alone, but for the Cancel flag.
Aside ==
    /\ UNCHANGED <<slot, pc>>
    /\ \A s \in Slots : slot[s].irp # None =>
           LET i == slot[s].irp
           IN  /\ SameHolders(i) /\ SameProgress(i)
               /\ irp'[i].status = irp[i].status
               /\ irp'[i].length = irp[i].length

SlotStep ==
    \/ Aside
    \/ \E c \in Contexts :
           \/ \E i \in Irps : StartAtDispatch(c, i) \/ ImmediateAtDispatch(c, i)
           \/ FinishCancelled(c) \/ GiveWrite(c)
           \/ Account(c) \/ AccountXoff(c) \/ GetNextIrp(c)
           \/ ProcessEmptyTransmit(c)
           \/ FinishImmediateCancelled(c) \/ GiveImmediate(c)
           \/ GetNextImmediate(c)
           \/ \E s \in Slots : \E h, st : EndingOf(h, st) /\ Ending(c, s, h, st)
    \/ \E s \in Slots : Expire(s)
    \/ CountSinceXoff \/ SentImmediate \/ SentWrite

\* A step about a request nobody knows is none about the slots.
LEMMA AsideFacts ==
    ASSUME NEW i \in Irps, Unknown(i), OnlyRequest(i), UNCHANGED <<slot, pc>>,
      TypeOK
    PROVE  Aside
<1>. SUFFICES ASSUME NEW s \in Slots, slot[s].irp # None
              PROVE  irp'[slot[s].irp] = irp[slot[s].irp]
  BY DEF Aside, SameHolders, SameProgress
<1>1. slot[s].irp \in Irps /\ slot[s].irp # i
  BY CurrentRequest DEF Unknown
<1>. QED  BY <1>1 DEF OnlyRequest

\* Every step, as far as the slots are concerned.
LEMMA SlotSteps == IInv /\ [Next]_vars => SlotStep
<1>. SUFFICES ASSUME IInv, [Next]_vars PROVE SlotStep
  OBVIOUS
<1>0. TypeOK /\ \A i \in Irps : RequestOK(i)
  BY DEF IInv, RequestInv
<1>1. ASSUME NEW i \in Irps,
             \/ RefuseAtDispatch(i) \/ QueueAtDispatch(i)
             \/ CancelledAtDispatch(i) \/ CancelQueuedIrp(i)
      PROVE  Aside
  <2>1. OnlyRequest(i) /\ UNCHANGED <<slot, pc>>
    <3>1. CASE RefuseAtDispatch(i)
      BY <1>0, <3>1, RefuseFacts DEF Finished
    <3>2. CASE QueueAtDispatch(i)
      BY <1>0, <3>2, QueueFacts DEF Accepted
    <3>3. CASE CancelledAtDispatch(i)
      BY <1>0, <3>3, CancelledAtDispatchFacts DEF Finished
    <3>4. CASE CancelQueuedIrp(i)
      BY <1>0, <3>4, WithdrawFacts DEF Finished
    <3>. QED  BY <1>1, <3>1, <3>2, <3>3, <3>4
  <2>2. Fresh(i) \/ irp[i].routine = "queued"
    BY <1>1 DEF RefuseAtDispatch, QueueAtDispatch, CancelledAtDispatch,
       CancelQueuedIrp
  <2>3. Unknown(i)
    BY <1>0, <2>2 DEF RequestOK
  <2>. QED  BY <1>0, <2>1, <2>3, AsideFacts
<1>2. ASSUME NEW i \in Irps, FlagCancel(i)
      PROVE  Aside
  <2>1. /\ OnlyRequest(i) /\ SameHolders(i) /\ SameProgress(i)
        /\ irp'[i].status = irp[i].status /\ irp'[i].length = irp[i].length
        /\ UNCHANGED <<slot, pc>>
    BY <1>0, <1>2, FlagFacts
  <2>2. \A j \in Irps : /\ SameHolders(j) /\ SameProgress(j)
                        /\ irp'[j].status = irp[j].status
                        /\ irp'[j].length = irp[j].length
    BY <2>1 DEF OnlyRequest, SameHolders, SameProgress
  <2>. QED  BY <1>0, <2>1, <2>2, CurrentRequest DEF Aside
<1>3. ASSUME Outside PROVE Aside
  <2>1. irp' = irp /\ UNCHANGED <<slot, pc>>
    BY <1>3 DEF Outside
  <2>. QED  BY <2>1 DEF Aside, SameHolders, SameProgress
<1>. QED  BY <1>1, <1>2, <1>3, StepCases DEF NormalStep, SlotStep

\* No request is in two slots, except that an XOFF counter at "keep" is.
LEMMA WriteAndImmediate ==
    ASSUME KindInv
    PROVE  /\ CurrentWrite = CurrentImmediate => CurrentWrite = None
           /\ slot["xoff"].irp = CurrentImmediate => CurrentImmediate = None
  BY SerialWriteAssumption DEF KindInv, QueueIrps, Irps

-----------------------------------------------------------------------------
(* Who writes. *)

\* Nobody joins or leaves, and the current write is what it was.
LEMMA WriterKept ==
    ASSUME IInv,
           \A d \in Contexts : Writing(d)' => pc'[d] = pc[d],
           InHand("write") =>
               /\ slot'["write"].irp = CurrentWrite
               /\ SameHolders(CurrentWrite) /\ SameProgress(CurrentWrite)
               /\ irp'[CurrentWrite].status = irp[CurrentWrite].status,
           slot'["xoff"].irp = slot["xoff"].irp,
           slot["xoff"].owed = 0 => slot'["xoff"].owed = 0
    PROVE  WriterInv'
<1>1. \A d \in Contexts : Writing(d)' => Writing(d) /\ pc'[d] = pc[d]
  BY DEF Writing
<1>2. \A c, d \in Contexts : Writing(c)' /\ Writing(d)' => c = d
  BY <1>1 DEF IInv, WriterInv
<1>3. ASSUME NEW c \in Contexts, Writing(c)'
      PROVE  WriterOK(c)'
  <2>1. Writing(c) /\ pc'[c] = pc[c]
    BY <1>1, <1>3
  <2>2. WriterOK(c) /\ InHand("write")
    BY <2>1, WriterFacts
  <2>. QED
    BY <2>1, <2>2 DEF WriterOK, AtPlace, Loose, Untouched, SameHolders,
                      SameProgress, CurrentWrite
<1>. QED  BY <1>2, <1>3 DEF WriterInv

\* Who writes after a step of the only writer.
LEMMA SoleWriter ==
    ASSUME IInv, NEW c \in Contexts, Writing(c) \/ ~InHand("write"),
           NEW p, Moves(c, p)
    PROVE  \A d \in Contexts : Writing(d)' => d = c
<1>. SUFFICES ASSUME NEW d \in Contexts, Writing(d)', d # c PROVE FALSE
  OBVIOUS
<1>1. Writing(d)
  BY DEF Moves, Writing
<1>. QED  BY <1>1, WriterFacts DEF InHand

\* It is enough to look at the context that took the step.
LEMMA NewWriter ==
    ASSUME NEW c \in Contexts, \A d \in Contexts : Writing(d)' => d = c,
           Writing(c)' => WriterOK(c)'
    PROVE  WriterInv'
  BY DEF WriterInv

\* The same for those who see to the immediate character.
LEMMA InterposerKept ==
    ASSUME IInv,
           \A d \in Contexts : Interposing(d)' => pc'[d] = pc[d],
           InHand("immediate") =>
               /\ slot'["immediate"].irp = CurrentImmediate
               /\ SameHolders(CurrentImmediate)
               /\ irp'[CurrentImmediate].status = irp[CurrentImmediate].status
    PROVE  InterposerInv'
<1>1. \A d \in Contexts : Interposing(d)' => Interposing(d) /\ pc'[d] = pc[d]
  BY DEF Interposing
<1>2. \A c, d \in Contexts : Interposing(c)' /\ Interposing(d)' => c = d
  BY <1>1 DEF IInv, InterposerInv
<1>3. ASSUME NEW c \in Contexts, Interposing(c)'
      PROVE  InterposerOK(c)'
  <2>1. Interposing(c) /\ pc'[c] = pc[c]
    BY <1>1, <1>3
  <2>2. InterposerOK(c) /\ InHand("immediate")
    BY <2>1, InterposerFacts
  <2>. QED
    BY <2>1, <2>2 DEF InterposerOK, AtPlace, Loose, SameHolders,
       CurrentImmediate
<1>. QED  BY <1>2, <1>3 DEF InterposerInv

\* One at a time is in SerialStartImmediate,
LEMMA SoleInterposer ==
    ASSUME IInv, NEW c \in Contexts, Interposing(c) \/ ~InHand("immediate"),
           NEW p, Moves(c, p)
    PROVE  \A d \in Contexts : Interposing(d)' => d = c
<1>. SUFFICES ASSUME NEW d \in Contexts, Interposing(d)', d # c PROVE FALSE
  OBVIOUS
<1>1. Interposing(d)
  BY DEF Moves, Interposing
<1>. QED  BY <1>1, InterposerFacts DEF InHand

\* so that it is enough to look at that one.
LEMMA NewInterposer ==
    ASSUME NEW c \in Contexts, \A d \in Contexts : Interposing(d)' => d = c,
           Interposing(c)' => InterposerOK(c)'
    PROVE  InterposerInv'
  BY DEF InterposerInv

\* One context at most writes, and the current write is as far as it says.
LEMMA WriterInvStep == IInv /\ [Next]_vars => WriterInv'
<1>. SUFFICES ASSUME IInv, [Next]_vars PROVE WriterInv'
  OBVIOUS
<1>0. /\ IInv /\ TypeOK /\ KindInv /\ QueueInv /\ HeldInv /\ WriterInv
      /\ InterposerInv /\ RefsMatchHolders
      /\ \A i \in Irps : RequestOK(i)
  BY DEF IInv, RequestInv
<1>1. CASE Aside
  <2>1. \A d \in Contexts : pc'[d] = pc[d]
    BY <1>1 DEF Aside
  <2>2. InHand("write") => CurrentWrite # None
    BY <1>0, WriterFacts DEF InHand
  <2>. QED  BY <1>0, <1>1, <2>1, <2>2, WriterKept, SlotNames DEF Aside,
               CurrentWrite
<1>2. ASSUME NEW c \in Contexts, NEW i \in Irps, StartAtDispatch(c, i)
      PROVE  WriterInv'
  <2>1. /\ AtPlace(c, "idle") /\ Fresh(i) /\ CurrentWrite = None
        /\ Accepted(i, irp[i].routine) /\ OnlySlot("write")
        /\ slot'["write"].irp = i
        /\ Moves(c, IF i \in Flushes THEN "pop" ELSE "start")
    BY <1>0, <1>2, StartFacts
  <2>2. ~InHand("write")
    BY <1>0, <2>1, WriterFacts DEF InHand
  <2>3. \A d \in Contexts : Writing(d)' => d = c
    BY <1>0, <2>1, <2>2, SoleWriter
  <2>4. /\ Unknown(i) /\ Untouched(i) /\ irp[i].routine = "none"
    BY <1>0, <2>1, FreshFacts
  <2>5. i # None /\ slot'["xoff"].irp # i
    BY <2>1, <2>4, SlotNames, SerialWriteAssumption DEF Unknown, OnlySlot
  <2>6. WriterOK(c)'
    BY <2>1, <2>4, <2>5
       DEF WriterOK, AtPlace, Loose, Untouched, Accepted, SameProgress,
         CurrentWrite, Moves
  <2>. QED  BY <2>3, <2>6, NewWriter
<1>3. ASSUME NEW c \in Contexts, NEW i \in Irps, ImmediateAtDispatch(c, i)
      PROVE  WriterInv'
  <2>1. /\ AtPlace(c, "idle") /\ Fresh(i)
        /\ Accepted(i, irp[i].routine) /\ OnlySlot("immediate")
        /\ Moves(c, "istart")
    BY <1>0, <1>3, ImmediateFacts
  <2>2. \A d \in Contexts : Writing(d)' => pc'[d] = pc[d]
    BY <2>1 DEF Moves, Writing
  <2>3. slot'["write"] = slot["write"] /\ slot'["xoff"] = slot["xoff"]
    BY <2>1, SlotNames DEF OnlySlot
  <2>4. InHand("write") => CurrentWrite \in Irps /\ CurrentWrite # i
    BY <1>0, <2>1, WriterFacts, FreshFacts, SlotNames DEF InHand, Unknown,
       CurrentWrite
  <2>. QED
    BY <1>0, <2>1, <2>2, <2>3, <2>4, WriterKept
       DEF Accepted, OnlyRequest, SameHolders, SameProgress, CurrentWrite
<1>4. ASSUME NEW c \in Contexts, FinishCancelled(c)
      PROVE  WriterInv'
  <2>0. PICK i \in Irps : i = CurrentWrite
    BY <1>0, <1>4, WorkingWriter, WriterFacts
  <2>00. /\ RequestOK(i) /\ WriterOK(c) /\ CurrentWrite # None /\ Writing(c)
         /\ InHand("write")
    BY <1>0, <1>4, WorkingWriter, WriterFacts
  <2>1. /\ Giving(c) /\ Becomes(i, "cancelled")
        /\ Moves(c, "next") /\ UNCHANGED slot
    BY <1>0, <1>4, <2>0, <2>00, CancelledFacts
  <2>2. \A d \in Contexts : Writing(d)' => d = c
    BY <1>0, <2>00, <2>1, SoleWriter
  <2>3. WriterOK(c)'
    BY <2>0, <2>00, <2>1
       DEF WriterOK, Giving, AtPlace, Loose, Becomes, SameHolders,
         CurrentWrite, Moves
  <2>. QED  BY <2>2, <2>3, NewWriter
<1>5. ASSUME NEW c \in Contexts, GiveWrite(c)
      PROVE  WriterInv'
  <2>0. PICK i \in Irps : i = CurrentWrite
    BY <1>0, <1>5, WorkingWriter, WriterFacts
  <2>00. /\ RequestOK(i) /\ WriterOK(c) /\ CurrentWrite # None /\ Writing(c)
         /\ InHand("write")
    BY <1>0, <1>5, WorkingWriter, WriterFacts
  <2>1. Moves(c, "idle")
    BY <1>0, <1>5, <2>00, GiveFacts
  <2>2. \A d \in Contexts : Writing(d)' => d = c
    BY <1>0, <2>00, <2>1, SoleWriter
  <2>3. ~Writing(c)'
    BY <2>1 DEF Moves, Writing
  <2>. QED  BY <2>2, <2>3, NewWriter
<1>6. ASSUME NEW c \in Contexts, Account(c)
      PROVE  WriterInv'
  <2>0. PICK i \in Irps : i = CurrentWrite
    BY <1>0, <1>6, WorkingWriter, WriterFacts
  <2>00. /\ RequestOK(i) /\ WriterOK(c) /\ CurrentWrite # None /\ Writing(c)
         /\ InHand("write")
    BY <1>0, <1>6, WorkingWriter, WriterFacts
  <2>1. AtPlace(c, "next") /\ Moves(c, "pop") /\ UNCHANGED <<irp, slot>>
    BY <1>0, <1>6, AccountFacts
  <2>2. \A d \in Contexts : Writing(d)' => d = c
    BY <1>0, <2>00, <2>1, SoleWriter
  <2>3. WriterOK(c)'
    BY <2>00, <2>1 DEF WriterOK, AtPlace, Loose, CurrentWrite, Moves
  <2>. QED  BY <2>2, <2>3, NewWriter
<1>7. ASSUME NEW c \in Contexts, AccountXoff(c)
      PROVE  WriterInv'
  <2>0. PICK i \in Irps : i = CurrentWrite
    BY <1>0, <1>7, WorkingWriter, WriterFacts
  <2>00. /\ RequestOK(i) /\ WriterOK(c) /\ CurrentWrite # None /\ Writing(c)
         /\ InHand("write")
    BY <1>0, <1>7, WorkingWriter, WriterFacts
  <2>1. /\ AtPlace(c, "next") /\ StartsCounting(i)
        /\ \/ /\ Becomes(i, "cancelled") /\ UNCHANGED slot
              /\ Moves(c, "pop")
           \/ /\ \E n \in 1..MaxCounter : Handed("xoff", i, n)
              /\ Moves(c, "keep")
    BY <1>0, <1>7, <2>0, <2>00, AccountXoffFacts
  <2>2. \A d \in Contexts : Writing(d)' => d = c
    BY <1>0, <2>00, <2>1, SoleWriter
  <2>3. CASE Becomes(i, "cancelled") /\ UNCHANGED slot /\ Moves(c, "pop")
    <3>1. WriterOK(c)'
      BY <2>0, <2>00, <2>1, <2>3
         DEF WriterOK, AtPlace, Loose, Becomes, SameHolders, CurrentWrite, Moves
    <3>. QED  BY <2>2, <3>1, NewWriter
  <2>4. CASE (\E n \in 1..MaxCounter : Handed("xoff", i, n)) /\ Moves(c, "keep")
    <3>1. /\ slot'["xoff"].irp = i /\ slot'["write"].irp = i
          /\ irp'[i].routine = "xoff"
      BY <2>0, <2>4, SlotNames DEF Handed, OnlySlot, CurrentWrite
    <3>2. WriterOK(c)'
      BY <2>0, <2>00, <2>4, <3>1 DEF WriterOK, AtPlace, CurrentWrite, Moves
    <3>. QED  BY <2>2, <3>2, NewWriter
  <2>. QED  BY <2>1, <2>3, <2>4
<1>8. ASSUME NEW c \in Contexts, GetNextIrp(c)
      PROVE  WriterInv'
  <2>0. PICK i \in Irps : i = CurrentWrite
    BY <1>0, <1>8, WorkingWriter, WriterFacts
  <2>00. /\ RequestOK(i) /\ WriterOK(c) /\ CurrentWrite # None /\ Writing(c)
         /\ InHand("write")
    BY <1>0, <1>8, WorkingWriter, WriterFacts
  <2>. DEFINE next == IF queue = <<>> THEN None ELSE Head(queue)
  <2>1. /\ pc[c] \in {"pop", "keep"}
        /\ AtPlace(c, "pop") => irp'[i] = Ended
        /\ AtPlace(c, "keep") /\ i # next => irp'[i] = irp[i]
        /\ \A j \in Irps : j # i /\ j # next => irp'[j] = irp[j]
        /\ \A j \in Irps : j # i /\ j = next =>
               irp'[j] = [irp[j] EXCEPT !.routine = "none"]
        /\ OnlySlot("write") /\ slot'["write"].irp = next
        /\ slot'["write"].owed = slot["write"].owed
        /\ slot'["write"].timer = slot["write"].timer
        /\ slot'["write"].sent = slot["write"].sent
        /\ slot'["write"].late = slot["write"].late
        /\ Moves(c, IF queue = <<>> THEN "empty"
                    ELSE IF next \in Flushes THEN pc[c] ELSE "start")
    BY <1>0, <1>8, <2>0, NextIrpFacts DEF AtPlace
  <2>2. queue = <<>> => next = None
    BY <2>1
  <2>3. queue # <<>> => next \in Irps /\ next \in Range(queue)
    BY <1>0, HeadEntries DEF QueueInv, TypeOK, Irps
  <2>. HIDE DEF next
  <2>4. None \notin Irps
    BY SerialWriteAssumption
  <2>5. next # None => /\ next \in Irps /\ irp[next].routine = "queued"
                      /\ irp[next].status = "pending" /\ Untouched(next)
                      /\ irp[next].length \in Lengths(next)
                      /\ \A s \in Slots : slot[s].irp # next
    <3>1. SUFFICES ASSUME next # None
                   PROVE  /\ next \in Irps /\ irp[next].routine = "queued"
                          /\ irp[next].status = "pending" /\ Untouched(next)
                          /\ irp[next].length \in Lengths(next)
                          /\ \A s \in Slots : slot[s].irp # next
      OBVIOUS
    <3>2. next \in Irps /\ next \in Range(queue) /\ RequestOK(next)
      BY <1>0, <2>2, <2>3, <3>1
    <3>. QED  BY <3>2 DEF RequestOK, Unknown
  <2>6. next # i
    BY <2>0, <2>4, <2>5, SlotNames DEF CurrentWrite
  <2>7. next # None =>
            /\ irp'[next].routine = "none" /\ irp'[next].refs = {}
            /\ irp'[next].status = "pending"
            /\ irp'[next].info = 0 /\ irp'[next].wire = 0
            /\ irp'[next].length = irp[next].length
    <3>1. SUFFICES ASSUME next # None
                   PROVE  /\ irp'[next].routine = "none" /\ irp'[next].refs = {}
                          /\ irp'[next].status = "pending"
                          /\ irp'[next].info = 0 /\ irp'[next].wire = 0
                          /\ irp'[next].length = irp[next].length
      OBVIOUS
    <3>2. /\ irp'[next] = [irp[next] EXCEPT !.routine = "none"]
          /\ irp[next] \in Irp
      BY <1>0, <2>1, <2>5, <2>6, <3>1 DEF TypeOK
    <3>. QED  BY <2>5, <3>1, <3>2 DEF Irp, Untouched
  <2>8. \A d \in Contexts : Writing(d)' => d = c
    BY <1>0, <2>00, <2>1, SoleWriter
  <2>9. CASE queue = <<>>
    <3>1. ~Writing(c)'
      BY <2>1, <2>9 DEF Moves, Writing
    <3>. QED  BY <2>8, <3>1, NewWriter
  <2>10. CASE queue # <<>>
    <3>1. next # None /\ slot'["xoff"].irp # next
      BY <2>1, <2>3, <2>4, <2>5, <2>10, SlotNames DEF OnlySlot
    <3>2. pc'[c] = IF next \in Flushes THEN pc[c] ELSE "start"
      BY <2>1, <2>10 DEF Moves
    <3>3. /\ slot'["write"].irp = next
          /\ irp'[next].routine = "none" /\ irp'[next].refs = {}
          /\ irp'[next].status = "pending"
          /\ irp'[next].info = 0 /\ irp'[next].wire = 0
      BY <2>1, <2>7, <3>1
    <3>4. WriterOK(c)'
      BY <2>1, <3>1, <3>2, <3>3 DEF WriterOK, AtPlace, Loose, Untouched,
         CurrentWrite
    <3>. QED  BY <2>8, <3>4, NewWriter
  <2>. QED  BY <2>9, <2>10
<1>9. ASSUME NEW c \in Contexts, ProcessEmptyTransmit(c)
      PROVE  WriterInv'
  <2>1. /\ AtPlace(c, "empty") /\ Moves(c, "idle")
        /\ UNCHANGED <<irp, slot>>
    BY <1>0, <1>9, EmptyFacts
  <2>2. \A d \in Contexts : Writing(d)' => pc'[d] = pc[d]
    BY <2>1 DEF Moves, Writing
  <2>. QED  BY <1>0, <2>1, <2>2, WriterKept DEF SameHolders, SameProgress,
               CurrentWrite
<1>10. ASSUME NEW c \in Contexts, FinishImmediateCancelled(c)
      PROVE  WriterInv'
  <2>0. PICK i \in Irps : i = CurrentImmediate
    BY <1>0, <1>10, WorkingInterposer, InterposerFacts
  <2>00. /\ RequestOK(i) /\ InterposerOK(c) /\ CurrentImmediate # None
         /\ Interposing(c) /\ InHand("immediate")
    BY <1>0, <1>10, WorkingInterposer, InterposerFacts
  <2>1. /\ AtPlace(c, "istart") /\ Finished(i, 1)
        /\ OnlySlot("immediate") /\ Moves(c, "idle")
    BY <1>0, <1>10, <2>0, <2>00, ImmediateCancelledFacts
  <2>2. \A d \in Contexts : Writing(d)' => pc'[d] = pc[d]
    BY <2>1 DEF Moves, Writing
  <2>3. slot'["write"] = slot["write"] /\ slot'["xoff"] = slot["xoff"]
    BY <2>1, SlotNames DEF OnlySlot
  <2>4. InHand("write") => CurrentWrite \in Irps /\ CurrentWrite # i
    BY <1>0, <2>0, <2>00, WriterFacts, WriteAndImmediate DEF InHand
  <2>. QED
    BY <1>0, <2>1, <2>2, <2>3, <2>4, WriterKept
       DEF Finished, OnlyRequest, SameHolders, SameProgress, CurrentWrite
<1>11. ASSUME NEW c \in Contexts, GiveImmediate(c)
      PROVE  WriterInv'
  <2>0. PICK i \in Irps : i = CurrentImmediate
    BY <1>0, <1>11, WorkingInterposer, InterposerFacts
  <2>00. /\ RequestOK(i) /\ InterposerOK(c) /\ CurrentImmediate # None
         /\ Interposing(c) /\ InHand("immediate")
    BY <1>0, <1>11, WorkingInterposer, InterposerFacts
  <2>1. /\ AtPlace(c, "istart") /\ Handed("immediate", i, 1)
        /\ Moves(c, "idle")
    BY <1>0, <1>11, <2>0, <2>00, GiveImmediateFacts
  <2>2. \A d \in Contexts : Writing(d)' => pc'[d] = pc[d]
    BY <2>1 DEF Moves, Writing
  <2>3. slot'["write"] = slot["write"] /\ slot'["xoff"] = slot["xoff"]
    BY <2>1, SlotNames DEF Handed, OnlySlot
  <2>4. InHand("write") => CurrentWrite \in Irps /\ CurrentWrite # i
    BY <1>0, <2>0, <2>00, WriterFacts, WriteAndImmediate DEF InHand
  <2>. QED
    BY <1>0, <2>1, <2>2, <2>3, <2>4, WriterKept
       DEF Handed, OnlyRequest, SameHolders, SameProgress, CurrentWrite
<1>12. ASSUME NEW c \in Contexts, GetNextImmediate(c)
      PROVE  WriterInv'
  <2>0. PICK i \in Irps : i = CurrentImmediate
    BY <1>0, <1>12, WorkingInterposer, InterposerFacts
  <2>00. /\ RequestOK(i) /\ InterposerOK(c) /\ CurrentImmediate # None
         /\ Interposing(c) /\ InHand("immediate")
    BY <1>0, <1>12, WorkingInterposer, InterposerFacts
  <2>1. /\ AtPlace(c, "inext") /\ Finished(i, 0)
        /\ OnlySlot("immediate") /\ Moves(c, "idle")
    BY <1>0, <1>12, <2>0, <2>00, NextImmediateFacts
  <2>2. \A d \in Contexts : Writing(d)' => pc'[d] = pc[d]
    BY <2>1 DEF Moves, Writing
  <2>3. slot'["write"] = slot["write"] /\ slot'["xoff"] = slot["xoff"]
    BY <2>1, SlotNames DEF OnlySlot
  <2>4. InHand("write") => CurrentWrite \in Irps /\ CurrentWrite # i
    BY <1>0, <2>0, <2>00, WriterFacts, WriteAndImmediate DEF InHand
  <2>. QED
    BY <1>0, <2>1, <2>2, <2>3, <2>4, WriterKept
       DEF Finished, OnlyRequest, SameHolders, SameProgress, CurrentWrite
<1>13. ASSUME NEW c \in Contexts, NEW s \in Slots, NEW h, NEW st, EndingOf(h,
  st),
           Ending(c, s, h, st)
      PROVE  WriterInv'
  <2>. DEFINE sent == slot[s].sent /\ h # "isr"
              late == slot[s].late /\ h # "timer"
              last == ~sent /\ ~late
  <2>0. PICK i \in Irps : i = slot[s].irp
    BY <1>13 DEF Ending
  <2>1. /\ ~InHand(s)
        /\ AtPlace(c, "idle") \/ (AtPlace(c, "start") /\ s = "xoff")
        /\ OnlyRequest(i) /\ OnlySlot(s)
        /\ slot'[s].irp = IF last /\ s = "xoff" THEN None ELSE i
        /\ slot'[s].owed = 0 /\ ~slot'[s].timer
        /\ slot'[s].sent <=> sent
        /\ slot'[s].late <=> late
        /\ last /\ s = "xoff" => Finished(i, 0)
        /\ ~(last /\ s = "xoff") =>
               /\ \A r : r \in irp'[i].refs <=>
                      (r = "isr" /\ sent) \/ (r = "timer" /\ late)
               /\ irp'[i].routine = "none"
               /\ irp'[i].status = IF last THEN st ELSE irp[i].status
               /\ irp'[i].length = irp[i].length
               /\ irp'[i].wire = irp[i].wire
        /\ Moves(c, IF last /\ s = "write" THEN "next"
                    ELSE IF last /\ s = "immediate" THEN "inext"
                    ELSE IF AtPlace(c, "start") THEN "give" ELSE "idle")
    BY <1>13, <2>0 DEF Ending
  <2>2. last <=> ~sent /\ ~late
    OBVIOUS
  <2>. HIDE DEF sent, late, last
  <2>3. None \notin Irps /\ i # None
    BY SerialWriteAssumption
  <2>4. st \in {"success", "timeout", "cancelled"}
    BY <1>13 DEF EndingOf
  <2>5. irp[i].status = IF s = "xoff" THEN "success" ELSE "pending"
    BY <1>0, <2>0, <2>1, <2>3 DEF HeldInv, HeldOK
  <2>6. CASE s = "write"
    <3>1. \A d \in Contexts : Writing(d)' => d = c
      BY <1>0, <2>1, <2>6, SoleWriter
    <3>2. CASE last
      <4>1. /\ irp'[i].refs = {} /\ irp'[i].routine = "none"
            /\ irp'[i].status = st
            /\ slot'["write"].irp = i /\ slot'["xoff"].irp = slot["xoff"].irp
            /\ pc'[c] = "next"
        BY <2>1, <2>2, <2>6, <3>2, SlotNames DEF OnlySlot, Moves
      <4>2. i # slot["xoff"].irp
        <5>. SUFFICES ASSUME i = slot["xoff"].irp PROVE FALSE
          OBVIOUS
        <5>1. PICK d \in Contexts : AtPlace(d, "keep")
          BY <1>0, <2>0, <2>3, <2>6, TwoSlots, SlotNames
        <5>. QED  BY <2>1, <2>6, <5>1 DEF InHand, Writing, AtPlace
      <4>3. i \notin Flushes
        BY <1>0, <2>0, <2>1, <2>3, <2>6 DEF IInv, SentInv, CurrentWrite
      <4>. QED
        BY <2>3, <2>4, <3>1, <4>1, <4>2, <4>3, NewWriter
           DEF WriterOK, AtPlace, Loose, CurrentWrite
    <3>3. CASE ~last
      <4>1. ~Writing(c)'
        BY <2>1, <2>6, <3>3 DEF Moves, Writing, AtPlace
      <4>. QED  BY <3>1, <4>1, NewWriter
    <3>. QED  BY <3>2, <3>3
  <2>7. CASE s = "immediate"
    <3>1. \A d \in Contexts : Writing(d)' => pc'[d] = pc[d]
      BY <2>1, <2>7 DEF Moves, Writing, AtPlace
    <3>2. slot'["write"] = slot["write"] /\ slot'["xoff"] = slot["xoff"]
      BY <2>1, <2>7, SlotNames DEF OnlySlot
    <3>3. InHand("write") => CurrentWrite \in Irps /\ CurrentWrite # i
      BY <1>0, <2>0, <2>3, <2>7, WriterFacts, WriteAndImmediate
         DEF InHand, CurrentImmediate
    <3>. QED
      BY <1>0, <2>1, <3>1, <3>2, <3>3, WriterKept
         DEF OnlyRequest, SameHolders, SameProgress, CurrentWrite
  <2>8. CASE s = "xoff"
    <3>1. \A d \in Contexts : Writing(d)' =>
              /\ Writing(d)
              /\ pc'[d] = pc[d] \/ (pc[d] = "start" /\ pc'[d] = "give")
      BY <2>1, <2>8 DEF Moves, Writing, AtPlace
    <3>2. \A d, e \in Contexts : Writing(d)' /\ Writing(e)' => d = e
      BY <1>0, <3>1 DEF WriterInv
    <3>3. ASSUME NEW d \in Contexts, Writing(d)' PROVE WriterOK(d)'
      <4>0. PICK w \in Irps : w = CurrentWrite
        BY <1>0, <3>1, <3>3, WriterFacts
      <4>1. WriterOK(d) /\ w # None /\ slot'["write"].irp = w
        BY <1>0, <2>1, <2>8, <3>1, <3>3, <4>0, WriterFacts, SlotNames
           DEF OnlySlot, CurrentWrite
      <4>2. CASE w # i
        <5>1. irp'[w] = irp[w]
          BY <2>1, <4>2 DEF OnlyRequest
        <5>2. slot'["xoff"].irp \in {i, None} /\ slot["xoff"].irp = i
          BY <2>0, <2>1, <2>8
        <5>. QED
          BY <2>1, <2>8, <3>1, <3>3, <4>0, <4>1, <4>2, <5>1, <5>2
             DEF WriterOK, AtPlace, Loose, Untouched, CurrentWrite
      <4>3. CASE w = i
        <5>1. pc[d] = "keep" /\ pc'[d] = "keep"
          BY <2>0, <2>8, <3>1, <3>3, <4>0, <4>1, <4>3 DEF WriterOK, AtPlace
        <5>2. i \in XoffCounters
          BY <1>0, <2>0, <2>3, <2>8 DEF KindInv
        <5>3. irp'[i].routine = "none"
          BY <2>1 DEF Finished
        <5>4. slot'["xoff"].irp = i \/ irp'[i].status = "done"
          BY <2>1, <2>8 DEF Finished
        <5>. QED
          BY <2>3, <4>1, <4>3, <5>1, <5>2, <5>3, <5>4 DEF WriterOK, AtPlace,
             CurrentWrite
      <4>. QED  BY <4>2, <4>3
    <3>. QED  BY <3>2, <3>3 DEF WriterInv
  <2>. QED  BY <2>6, <2>7, <2>8 DEF Slots
<1>14. ASSUME NEW s \in Slots, Expire(s)
      PROVE  WriterInv'
  <2>1. UNCHANGED <<irp,
    pc>> /\ \A r \in Slots :
        slot'[r].irp = slot[r].irp /\ slot'[r].owed = slot[r].owed
    BY <1>0, <1>14, ExpireFacts DEF OnlySlot
  <2>2. \A d \in Contexts : pc'[d] = pc[d]
    BY <2>1
  <2>. QED  BY <1>0, <2>1, <2>2, WriterKept, SlotNames DEF SameHolders,
               SameProgress, CurrentWrite
<1>15. CASE CountSinceXoff
  <2>1. /\ UNCHANGED <<irp, pc>> /\ slot["xoff"].owed > 0
        /\ \A r \in Slots : slot'[r].irp = slot[r].irp
    BY <1>0, <1>15, CountFacts DEF OnlySlot
  <2>2. \A d \in Contexts : pc'[d] = pc[d]
    BY <2>1
  <2>. QED  BY <1>0, <2>1, <2>2, WriterKept, SlotNames DEF SameHolders,
               SameProgress, CurrentWrite
<1>16. CASE SentImmediate
  <2>0. PICK i \in Irps : i = CurrentImmediate
    BY <1>16 DEF SentImmediate
  <2>1. /\ slot["immediate"].owed > 0
        /\ OnlyRequest(i) /\ OnlySlot("immediate") /\ UNCHANGED pc
    BY <1>16, <2>0 DEF SentImmediate
  <2>2. slot'["write"] = slot["write"] /\ slot'["xoff"] = slot["xoff"]
    BY <2>1, SlotNames DEF OnlySlot
  <2>3. CurrentImmediate # None
    BY <1>0, <2>1, HeldSlot, SlotNames DEF CurrentImmediate
  <2>4. InHand("write") => CurrentWrite \in Irps /\ CurrentWrite # i
    BY <1>0, <2>0, <2>3, WriterFacts, WriteAndImmediate DEF InHand
  <2>5. \A d \in Contexts : pc'[d] = pc[d]
    BY <2>1
  <2>. QED
    BY <1>0, <2>1, <2>2, <2>4, <2>5, WriterKept
       DEF OnlyRequest, SameHolders, SameProgress, CurrentWrite
<1>17. CASE SentWrite
  <2>1. slot["write"].owed > 0 /\ UNCHANGED pc
    BY <1>17 DEF SentWrite
  <2>2. ~InHand("write")
    BY <1>0, <2>1, HeldSlot, SlotNames
  <2>3. \A d \in Contexts : ~Writing(d)'
    BY <2>1, <2>2 DEF InHand, Writing
  <2>. QED  BY <2>3 DEF WriterInv
<1>. QED
  BY SlotSteps, <1>1, <1>2, <1>3, <1>4, <1>5, <1>6, <1>7, <1>8, <1>9, <1>10,
     <1>11, <1>12, <1>13, <1>14, <1>15, <1>16, <1>17
     DEF SlotStep

-----------------------------------------------------------------------------
(* What a step leaves alone. *)

SlotKept(s) ==
    /\ slot'[s] = slot[s]
    /\ InHand(s)' <=> InHand(s)
    /\ slot[s].irp # None =>
           LET i == slot[s].irp
           IN  /\ SameHolders(i) /\ SameProgress(i)
               /\ irp'[i].status = irp[i].status
               /\ irp'[i].length = irp[i].length

\* No context has a counter in its hand.
LEMMA CounterInNoHand == ~InHand("xoff") /\ ~InHand("xoff")'
  BY DEF InHand

\* Who has a slot in hand goes by who is where.
LEMMA HandMoves ==
    ASSUME NEW c \in Contexts, NEW p, Moves(c, p)
    PROVE  /\ (Writing(c)' <=> Writing(c)) =>
                 (InHand("write")' <=> InHand("write"))
           /\ (Interposing(c)' <=> Interposing(c)) =>
                  (InHand("immediate")' <=> InHand("immediate"))
           /\ Writing(c)' => InHand("write")'
           /\ Interposing(c)' => InHand("immediate")'
<1>1. \A d \in Contexts : d # c => /\ Writing(d)' <=> Writing(d)
                                   /\ Interposing(d)' <=> Interposing(d)
  BY DEF Moves, Writing, Interposing
<1>. QED  BY <1>1 DEF InHand

\* What is needed of a slot the step is not about.
LEMMA KeptBy ==
    ASSUME TypeOK, NEW i, OnlyRequest(i), NEW s \in Slots, slot[s].irp # i,
           slot'[s] = slot[s], InHand(s)' <=> InHand(s)
    PROVE  SlotKept(s)
<1>1. slot[s].irp # None => slot[s].irp \in Irps
  BY CurrentRequest
<1>. QED  BY <1>1 DEF SlotKept, OnlyRequest, SameHolders, SameProgress

\* The slots a new write leaves alone,
LEMMA KeptByStart ==
    ASSUME IInv, NEW c \in Contexts, NEW i \in Irps, StartAtDispatch(c, i)
    PROVE  SlotKept("xoff") /\ SlotKept("immediate")
<1>0. TypeOK /\ RequestOK(i)
  BY DEF IInv, RequestInv
<1>1. /\ AtPlace(c, "idle") /\ Fresh(i)
      /\ Accepted(i, irp[i].routine) /\ OnlySlot("write")
      /\ Moves(c, IF i \in Flushes THEN "pop" ELSE "start")
  BY <1>0, StartFacts
<1>2. /\ slot'["xoff"] = slot["xoff"] /\ slot'["immediate"] = slot["immediate"]
      /\ slot["xoff"].irp # i /\ slot["immediate"].irp # i
  BY <1>0, <1>1, FreshFacts, SlotNames DEF OnlySlot, Unknown
<1>3. InHand("immediate")' <=> InHand("immediate")
  <2>1. ~Interposing(c) /\ ~Interposing(c)'
    BY <1>1 DEF Interposing, Moves, AtPlace
  <2>. QED  BY <1>1, <2>1, HandMoves
<1>. QED
  BY <1>0, <1>1, <1>2, <1>3, KeptBy, SlotNames, CounterInNoHand DEF Accepted

\* those a new immediate character leaves alone,
LEMMA KeptByImmediate ==
    ASSUME IInv, NEW c \in Contexts, NEW i \in Irps, ImmediateAtDispatch(c, i)
    PROVE  SlotKept("xoff") /\ SlotKept("write")
<1>0. TypeOK /\ RequestOK(i)
  BY DEF IInv, RequestInv
<1>1. /\ AtPlace(c, "idle") /\ Fresh(i)
      /\ Accepted(i, irp[i].routine) /\ OnlySlot("immediate")
      /\ Moves(c, "istart")
  BY <1>0, ImmediateFacts
<1>2. /\ slot'["xoff"] = slot["xoff"] /\ slot'["write"] = slot["write"]
      /\ slot["xoff"].irp # i /\ slot["write"].irp # i
  BY <1>0, <1>1, FreshFacts, SlotNames DEF OnlySlot, Unknown
<1>3. InHand("write")' <=> InHand("write")
  <2>1. ~Writing(c) /\ ~Writing(c)'
    BY <1>1 DEF Writing, Moves, AtPlace
  <2>. QED  BY <1>1, <2>1, HandMoves
<1>. QED
  BY <1>0, <1>1, <1>2, <1>3, KeptBy, SlotNames, CounterInNoHand DEF Accepted

\* those the start loop of writes leaves alone,
LEMMA KeptByWriter ==
    ASSUME IInv, NEW c \in Contexts, Writing(c), NEW p, Moves(c, p),
           OnlyRequest(CurrentWrite)
    PROVE  /\ slot'["xoff"] = slot["xoff"] /\ slot["xoff"].irp # CurrentWrite =>
                  SlotKept("xoff")
           /\ slot'["immediate"] = slot["immediate"] /\ ~Interposing(c)' =>
                  SlotKept("immediate")
<1>0. TypeOK /\ KindInv
  BY DEF IInv
<1>1. CurrentWrite # None
  BY WriterFacts
<1>2. slot["immediate"].irp # CurrentWrite
  BY <1>0, <1>1, WriteAndImmediate DEF CurrentImmediate
<1>3. ~Interposing(c)
  BY DEF Writing, Interposing
<1>4. ~Interposing(c)' => (InHand("immediate")' <=> InHand("immediate"))
  BY <1>3, HandMoves
<1>. QED  BY <1>0, <1>1, <1>2, <1>4, KeptBy, SlotNames, CounterInNoHand

\* those the start of an immediate character leaves alone,
LEMMA KeptByInterposer ==
    ASSUME IInv, NEW c \in Contexts, Interposing(c), Moves(c, "idle"),
           OnlyRequest(CurrentImmediate), OnlySlot("immediate")
    PROVE  SlotKept("write") /\ SlotKept("xoff")
<1>0. TypeOK /\ KindInv
  BY DEF IInv
<1>1. CurrentImmediate # None
  BY InterposerFacts
<1>2. /\ slot["write"].irp # CurrentImmediate
      /\ slot["xoff"].irp # CurrentImmediate
      /\ slot'["write"] = slot["write"] /\ slot'["xoff"] = slot["xoff"]
  BY <1>0, <1>1, WriteAndImmediate, SlotNames DEF CurrentWrite, OnlySlot
<1>3. ~Writing(c) /\ ~Writing(c)'
  BY DEF Writing, Interposing, Moves
<1>4. InHand("write")' <=> InHand("write")
  BY <1>3, HandMoves
<1>. QED  BY <1>0, <1>1, <1>2, <1>4, KeptBy, SlotNames, CounterInNoHand

\* and those SerialGetNextWrite leaves alone.
LEMMA KeptByNext ==
    ASSUME IInv, NEW c \in Contexts, GetNextIrp(c)
    PROVE  SlotKept("xoff") /\ SlotKept("immediate")
<1>0. /\ IInv /\ TypeOK /\ KindInv /\ QueueInv /\ HeldInv /\ WriterInv
      /\ InterposerInv /\ RefsMatchHolders
      /\ \A i \in Irps : RequestOK(i)
  BY DEF IInv, RequestInv
<1>01. PICK i \in Irps : i = CurrentWrite
  BY <1>0, WorkingWriter, WriterFacts
<1>02. /\ RequestOK(i) /\ WriterOK(c) /\ CurrentWrite # None /\ Writing(c)
       /\ InHand("write")
  BY <1>0, WorkingWriter, WriterFacts
<1>. DEFINE next == IF queue = <<>> THEN None ELSE Head(queue)
<1>1. /\ pc[c] \in {"pop", "keep"}
      /\ AtPlace(c, "pop") => irp'[i] = Ended
      /\ AtPlace(c, "keep") /\ i # next => irp'[i] = irp[i]
      /\ \A j \in Irps : j # i /\ j # next => irp'[j] = irp[j]
      /\ \A j \in Irps : j # i /\ j = next =>
             irp'[j] = [irp[j] EXCEPT !.routine = "none"]
      /\ OnlySlot("write") /\ slot'["write"].irp = next
      /\ slot'["write"].owed = slot["write"].owed
      /\ slot'["write"].timer = slot["write"].timer
      /\ slot'["write"].sent = slot["write"].sent
      /\ slot'["write"].late = slot["write"].late
      /\ Moves(c, IF queue = <<>> THEN "empty"
                  ELSE IF next \in Flushes THEN pc[c] ELSE "start")
  BY <1>0, <1>01, NextIrpFacts DEF AtPlace
<1>2. queue = <<>> => next = None
  BY <1>1
<1>3. queue # <<>> => next \in Irps /\ next \in Range(queue)
  BY <1>0, HeadEntries DEF QueueInv, TypeOK, Irps
<1>. HIDE DEF next
<1>4. None \notin Irps
  BY SerialWriteAssumption
<1>5. next # None => /\ next \in Irps /\ irp[next].routine = "queued"
                    /\ irp[next].status = "pending" /\ Untouched(next)
                    /\ irp[next].length \in Lengths(next)
                    /\ \A s \in Slots : slot[s].irp # next
  <2>1. SUFFICES ASSUME next # None
                 PROVE  /\ next \in Irps /\ irp[next].routine = "queued"
                        /\ irp[next].status = "pending" /\ Untouched(next)
                        /\ irp[next].length \in Lengths(next)
                        /\ \A s \in Slots : slot[s].irp # next
    OBVIOUS
  <2>2. next \in Irps /\ next \in Range(queue) /\ RequestOK(next)
    BY <1>0, <1>2, <1>3, <2>1
  <2>. QED  BY <2>2 DEF RequestOK, Unknown
<1>6. next # i
  BY <1>01, <1>4, <1>5, SlotNames DEF CurrentWrite
<1>7. next # None =>
          /\ irp'[next].routine = "none" /\ irp'[next].refs = {}
          /\ irp'[next].status = "pending"
          /\ irp'[next].info = 0 /\ irp'[next].wire = 0
          /\ irp'[next].length = irp[next].length
  <2>1. SUFFICES ASSUME next # None
                 PROVE  /\ irp'[next].routine = "none" /\ irp'[next].refs = {}
                        /\ irp'[next].status = "pending"
                        /\ irp'[next].info = 0 /\ irp'[next].wire = 0
                        /\ irp'[next].length = irp[next].length
    OBVIOUS
  <2>2. irp'[next] = [irp[next] EXCEPT !.routine = "none"] /\ irp[next] \in Irp
    BY <1>0, <1>1, <1>5, <1>6, <2>1 DEF TypeOK
  <2>. QED  BY <1>5, <2>1, <2>2 DEF Irp, Untouched
<1>8. ASSUME NEW s \in Slots, s # "write"
      PROVE  /\ slot'[s] = slot[s]
             /\ slot[s].irp # None =>
                    /\ slot[s].irp \in Irps
                    /\ irp'[slot[s].irp] = irp[slot[s].irp]
  <2>1. slot'[s] = slot[s]
    BY <1>1, <1>8 DEF OnlySlot
  <2>2. slot[s].irp # None => slot[s].irp \in Irps /\ slot[s].irp # next
    BY <1>0, <1>5, CurrentRequest
  <2>3. slot[s].irp = i => AtPlace(c, "keep")
    BY <1>01, <1>02, <1>1, <1>8, <1>0, WriteAndImmediate
       DEF WriterOK, AtPlace, Slots, CurrentImmediate
  <2>. QED  BY <1>1, <1>6, <2>1, <2>2, <2>3
<1>9. InHand("immediate")' <=> InHand("immediate")
  <2>1. ~Interposing(c) /\ ~Interposing(c)'
    BY <1>1 DEF Interposing, Moves
  <2>. QED  BY <1>1, <2>1, HandMoves
<1>. QED
  BY <1>8, <1>9, SlotNames, CounterInNoHand DEF SlotKept, SameHolders,
     SameProgress

\* The last step of the start loop leaves them all alone,
LEMMA KeptByEmpty ==
    ASSUME IInv, NEW c \in Contexts, ProcessEmptyTransmit(c)
    PROVE  \A s \in Slots : SlotKept(s)
<1>0. TypeOK
  BY DEF IInv
<1>1. AtPlace(c, "empty") /\ Moves(c, "idle") /\ irp' = irp /\ slot' = slot
  BY <1>0, EmptyFacts
<1>2. ~Interposing(c) /\ ~Interposing(c)' /\ ~Writing(c) /\ ~Writing(c)'
  BY <1>1 DEF Interposing, Writing, AtPlace, Moves
<1>3. \A s \in Slots : InHand(s)' <=> InHand(s)
  BY <1>1, <1>2, HandMoves, CounterInNoHand DEF Slots
<1>. QED  BY <1>1, <1>3 DEF SlotKept, SameHolders, SameProgress

\* and so does the accounting,
LEMMA KeptByAccount ==
    ASSUME IInv, NEW c \in Contexts, Account(c)
    PROVE  \A s \in Slots : SlotKept(s)
<1>0. TypeOK
  BY DEF IInv
<1>1. AtPlace(c, "next") /\ Moves(c, "pop") /\ irp' = irp /\ slot' = slot
  BY <1>0, AccountFacts
<1>2. ~Interposing(c) /\ ~Interposing(c)' /\ Writing(c) /\ Writing(c)'
  BY <1>1 DEF Interposing, Writing, AtPlace, Moves
<1>3. \A s \in Slots : InHand(s)' <=> InHand(s)
  BY <1>1, <1>2, HandMoves, CounterInNoHand DEF Slots
<1>. QED  BY <1>1, <1>3 DEF SlotKept, SameHolders, SameProgress

\* and whatever is about a request nobody knows.
LEMMA KeptByAside ==
    ASSUME Aside
    PROVE  \A s \in Slots : SlotKept(s)
<1>1. slot' = slot /\ pc' = pc
  BY DEF Aside
<1>2. \A s \in Slots : InHand(s)' <=> InHand(s)
  BY <1>1 DEF InHand, Writing, Interposing
<1>. QED  BY <1>1, <1>2 DEF SlotKept, Aside

\* The end of a request in one slot.
LEMMA KeptByEnding ==
    ASSUME IInv, NEW c \in Contexts, NEW s \in Slots, NEW h, NEW st,
           EndingOf(h, st), Ending(c, s, h, st), NEW r \in Slots, r # s
    PROVE  \/ SlotKept(r)
           \/ /\ r = "write" /\ InHand("write") /\ InHand("write")'
              /\ slot'["write"] = slot["write"]
<1>0. TypeOK /\ KindInv /\ HeldInv /\ WriterInv
  BY DEF IInv
<1>1. /\ slot[s].irp \in Irps /\ ~InHand(s)
      /\ AtPlace(c, "idle") \/ (AtPlace(c, "start") /\ s = "xoff")
      /\ OnlyRequest(slot[s].irp) /\ OnlySlot(s)
  BY DEF Ending
<1>2. slot[s].irp # None /\ slot'[r] = slot[r]
  BY <1>1, SerialWriteAssumption DEF OnlySlot
<1>3. PICK p : Moves(c, p) /\ \/ p = "next" /\ s = "write"
                              \/ p = "inext" /\ s = "immediate"
                              \/ p = "give" /\ AtPlace(c, "start")
                              \/ p = "idle" /\ ~AtPlace(c, "start")
  BY DEF Ending
<1>4. /\ s # "write" => (Writing(c)' <=> Writing(c))
      /\ s # "immediate" => (Interposing(c)' <=> Interposing(c))
  BY <1>1, <1>3 DEF Moves, AtPlace, Writing, Interposing
<1>5. InHand(r)' <=> InHand(r)
  BY <1>3, <1>4, HandMoves, CounterInNoHand DEF Slots
<1>6. CASE slot[r].irp # slot[s].irp
  BY <1>0, <1>1, <1>2, <1>5, <1>6, KeptBy
<1>7. CASE slot[r].irp = slot[s].irp
  <2>1. {s, r} = {"write", "xoff"} /\ \E d \in Contexts : AtPlace(d, "keep")
    BY <1>0, <1>2, <1>7, TwoSlots
  <2>2. InHand("write")
    BY <2>1 DEF InHand, Writing, AtPlace
  <2>3. r = "write"
    BY <1>1, <2>1, <2>2
  <2>. QED  BY <1>2, <1>5, <2>2, <2>3
<1>. QED  BY <1>6, <1>7

\* A timer is that of one slot,
LEMMA KeptByExpiry ==
    ASSUME IInv, NEW s \in Slots, Expire(s)
    PROVE  /\ \A r \in Slots \ {s} : SlotKept(r)
           /\ InHand(s)' <=> InHand(s)
<1>0. TypeOK
  BY DEF IInv
<1>1. OnlySlot(s) /\ irp' = irp /\ pc' = pc
  BY <1>0, ExpireFacts
<1>2. \A r \in Slots : InHand(r)' <=> InHand(r)
  BY <1>1 DEF InHand, Writing, Interposing
<1>. QED  BY <1>1, <1>2 DEF SlotKept, OnlySlot, SameHolders, SameProgress

\* the counting is about one,
LEMMA KeptByCount ==
    ASSUME IInv, CountSinceXoff
    PROVE  SlotKept("write") /\ SlotKept("immediate")
<1>0. TypeOK
  BY DEF IInv
<1>1. OnlySlot("xoff") /\ irp' = irp /\ pc' = pc
  BY <1>0, CountFacts
<1>2. \A r \in Slots : InHand(r)' <=> InHand(r)
  BY <1>1 DEF InHand, Writing, Interposing
<1>. QED
  BY <1>1, <1>2, SlotNames DEF SlotKept, OnlySlot, SameHolders, SameProgress

\* and the ISR sends from one.
LEMMA KeptBySending ==
    ASSUME IInv
    PROVE  /\ SentImmediate => /\ SlotKept("write") /\ SlotKept("xoff")
                               /\ InHand("immediate")' <=> InHand("immediate")
           /\ SentWrite => /\ SlotKept("immediate") /\ SlotKept("xoff")
                           /\ InHand("write")' <=> InHand("write")
<1>0. TypeOK /\ KindInv /\ RefsMatchHolders /\ HeldInv /\ WriterInv
  BY DEF IInv
<1>1. pc' = pc => \A r \in Slots : InHand(r)' <=> InHand(r)
  BY DEF InHand, Writing, Interposing
<1>2. ASSUME SentImmediate
      PROVE  /\ SlotKept("write") /\ SlotKept("xoff")
             /\ InHand("immediate")' <=> InHand("immediate")
  <2>1. /\ slot["immediate"].owed > 0 /\ pc' = pc
        /\ OnlyRequest(CurrentImmediate) /\ OnlySlot("immediate")
    BY <1>2 DEF SentImmediate
  <2>2. CurrentImmediate # None
    BY <1>0, <2>1, HeldSlot, SlotNames DEF CurrentImmediate
  <2>3. /\ slot["write"].irp # CurrentImmediate
        /\ slot["xoff"].irp # CurrentImmediate
    BY <1>0, <2>2, WriteAndImmediate DEF CurrentWrite
  <2>4. slot'["write"] = slot["write"] /\ slot'["xoff"] = slot["xoff"]
    BY <2>1, SlotNames DEF OnlySlot
  <2>. QED  BY <1>0, <1>1, <2>1, <2>3, <2>4, KeptBy, SlotNames
<1>3. ASSUME SentWrite
      PROVE  /\ SlotKept("immediate") /\ SlotKept("xoff")
             /\ InHand("write")' <=> InHand("write")
  <2>1. /\ slot["write"].owed > 0 /\ pc' = pc
        /\ OnlyRequest(CurrentWrite) /\ OnlySlot("write")
    BY <1>3 DEF SentWrite
  <2>2. CurrentWrite # None /\ ~InHand("write")
    BY <1>0, <2>1, HeldSlot, SlotNames DEF CurrentWrite
  <2>3. slot["immediate"].irp # CurrentWrite
    BY <1>0, <2>2, WriteAndImmediate DEF CurrentImmediate
  <2>4. slot["xoff"].irp # CurrentWrite
    <3>. SUFFICES ASSUME slot["xoff"].irp = CurrentWrite PROVE FALSE
      OBVIOUS
    <3>1. PICK d \in Contexts : AtPlace(d, "keep")
      BY <1>0, <2>2, TwoSlots, SlotNames DEF CurrentWrite
    <3>. QED  BY <2>2, <3>1 DEF InHand, Writing, AtPlace
  <2>5. slot'["immediate"] = slot["immediate"] /\ slot'["xoff"] = slot["xoff"]
    BY <2>1, SlotNames DEF OnlySlot
  <2>. QED  BY <1>0, <1>1, <2>1, <2>3, <2>4, <2>5, KeptBy, SlotNames
<1>. QED  BY <1>2, <1>3

-----------------------------------------------------------------------------
(* Who sees to the immediate character. *)

\* One context at most sees to the immediate character.
LEMMA InterposerInvStep == IInv /\ [Next]_vars => InterposerInv'
<1>. SUFFICES ASSUME IInv, [Next]_vars PROVE InterposerInv'
  OBVIOUS
<1>0. /\ IInv /\ TypeOK /\ KindInv /\ QueueInv /\ HeldInv /\ WriterInv
      /\ InterposerInv /\ RefsMatchHolders
      /\ \A i \in Irps : RequestOK(i)
  BY DEF IInv, RequestInv
<1>1. CASE Aside
  <2>8. \A d \in Contexts : Interposing(d)' => pc'[d] = pc[d]
    BY <1>1 DEF Aside
  <2>9. /\ SlotKept("immediate")
        /\ (InHand("immediate") => CurrentImmediate # None)
    BY <1>0, <1>1, KeptByAside, InterposerFacts, SlotNames DEF InHand
  <2>. QED  BY <1>0, <2>8, <2>9, InterposerKept DEF SlotKept, CurrentImmediate
<1>2. ASSUME NEW c \in Contexts, NEW i \in Irps, StartAtDispatch(c, i)
      PROVE  InterposerInv'
  <2>1. AtPlace(c, "idle") /\ Moves(c, IF i \in Flushes THEN "pop" ELSE "start")
    BY <1>0, <1>2, StartFacts
  <2>8. \A d \in Contexts : Interposing(d)' => pc'[d] = pc[d]
    BY <2>1 DEF Moves, Interposing, AtPlace
  <2>9. /\ SlotKept("immediate")
        /\ (InHand("immediate") => CurrentImmediate # None)
    BY <1>0, <1>2, KeptByStart, InterposerFacts, SlotNames DEF InHand
  <2>. QED  BY <1>0, <2>8, <2>9, InterposerKept DEF SlotKept, CurrentImmediate
<1>3. ASSUME NEW c \in Contexts, NEW i \in Irps, ImmediateAtDispatch(c, i)
      PROVE  InterposerInv'
  <2>1. /\ AtPlace(c, "idle") /\ Fresh(i) /\ CurrentImmediate = None
        /\ Accepted(i, irp[i].routine)
        /\ slot'["immediate"].irp = i
        /\ Moves(c, "istart")
    BY <1>0, <1>3, ImmediateFacts
  <2>2. ~InHand("immediate")
    BY <1>0, <2>1, InterposerFacts DEF InHand
  <2>3. \A d \in Contexts : Interposing(d)' => d = c
    BY <1>0, <2>1, <2>2, SoleInterposer
  <2>4. /\ Untouched(i) /\ irp[i].routine = "none" /\ i # None
    BY <1>0, <2>1, FreshFacts, SerialWriteAssumption
  <2>5. InterposerOK(c)'
    BY <2>1, <2>4
       DEF InterposerOK, AtPlace, Loose, Untouched, Accepted,
         CurrentImmediate, Moves
  <2>. QED  BY <2>3, <2>5, NewInterposer
<1>4. ASSUME NEW c \in Contexts, FinishCancelled(c)
      PROVE  InterposerInv'
  <2>0. PICK i \in Irps : i = CurrentWrite
    BY <1>0, <1>4, WorkingWriter, WriterFacts
  <2>00. /\ RequestOK(i) /\ WriterOK(c) /\ CurrentWrite # None /\ Writing(c)
         /\ InHand("write")
    BY <1>0, <1>4, WorkingWriter, WriterFacts
  <2>1. Moves(c, "next") /\ Becomes(i, "cancelled") /\ UNCHANGED slot
    BY <1>0, <1>4, <2>0, <2>00, CancelledFacts
  <2>2. slot'["immediate"] = slot["immediate"] /\ OnlyRequest(i)
    BY <2>1, SlotNames DEF Becomes, Handed, OnlySlot
  <2>3. ~Interposing(c)'
    BY <2>1 DEF Moves, Interposing
  <2>8. \A d \in Contexts : Interposing(d)' => pc'[d] = pc[d]
    BY <2>1 DEF Moves, Interposing, AtPlace
  <2>9. /\ SlotKept("immediate")
        /\ (InHand("immediate") => CurrentImmediate # None)
    BY <1>0, <1>4, <2>0, <2>00, <2>1, <2>2, <2>3, KeptByWriter,
       InterposerFacts, SlotNames DEF InHand
  <2>. QED  BY <1>0, <2>8, <2>9, InterposerKept DEF SlotKept, CurrentImmediate
<1>5. ASSUME NEW c \in Contexts, GiveWrite(c)
      PROVE  InterposerInv'
  <2>0. PICK i \in Irps : i = CurrentWrite
    BY <1>0, <1>5, WorkingWriter, WriterFacts
  <2>00. /\ RequestOK(i) /\ WriterOK(c) /\ CurrentWrite # None /\ Writing(c)
         /\ InHand("write")
    BY <1>0, <1>5, WorkingWriter, WriterFacts
  <2>1. Moves(c, "idle") /\ Handed("write", i, irp[i].length)
    BY <1>0, <1>5, <2>0, <2>00, GiveFacts
  <2>2. slot'["immediate"] = slot["immediate"] /\ OnlyRequest(i)
    BY <2>1, SlotNames DEF Becomes, Handed, OnlySlot
  <2>3. ~Interposing(c)'
    BY <2>1 DEF Moves, Interposing
  <2>8. \A d \in Contexts : Interposing(d)' => pc'[d] = pc[d]
    BY <2>1 DEF Moves, Interposing, AtPlace
  <2>9. /\ SlotKept("immediate")
        /\ (InHand("immediate") => CurrentImmediate # None)
    BY <1>0, <1>5, <2>0, <2>00, <2>1, <2>2, <2>3, KeptByWriter,
       InterposerFacts, SlotNames DEF InHand
  <2>. QED  BY <1>0, <2>8, <2>9, InterposerKept DEF SlotKept, CurrentImmediate
<1>6. ASSUME NEW c \in Contexts, Account(c)
      PROVE  InterposerInv'
  <2>1. Moves(c, "pop")
    BY <1>0, <1>6, AccountFacts
  <2>8. \A d \in Contexts : Interposing(d)' => pc'[d] = pc[d]
    BY <2>1 DEF Moves, Interposing, AtPlace
  <2>9. /\ SlotKept("immediate")
        /\ (InHand("immediate") => CurrentImmediate # None)
    BY <1>0, <1>6, KeptByAccount, InterposerFacts, SlotNames DEF InHand
  <2>. QED  BY <1>0, <2>8, <2>9, InterposerKept DEF SlotKept, CurrentImmediate
<1>7. ASSUME NEW c \in Contexts, AccountXoff(c)
      PROVE  InterposerInv'
  <2>0. PICK i \in Irps : i = CurrentWrite
    BY <1>0, <1>7, WorkingWriter, WriterFacts
  <2>00. /\ RequestOK(i) /\ WriterOK(c) /\ CurrentWrite # None /\ Writing(c)
         /\ InHand("write")
    BY <1>0, <1>7, WorkingWriter, WriterFacts
  <2>1. PICK p : /\ Moves(c, p) /\ p \in {"pop", "keep"}
                 /\ \/ Becomes(i, "cancelled") /\ UNCHANGED slot
                    \/ \E n \in 1..MaxCounter : Handed("xoff", i, n)
    BY <1>0, <1>7, <2>0, <2>00, AccountXoffFacts
  <2>2. slot'["immediate"] = slot["immediate"] /\ OnlyRequest(i)
    BY <2>1, SlotNames DEF Becomes, Handed, OnlySlot
  <2>3. ~Interposing(c)'
    BY <2>1 DEF Moves, Interposing
  <2>8. \A d \in Contexts : Interposing(d)' => pc'[d] = pc[d]
    BY <2>1 DEF Moves, Interposing, AtPlace
  <2>9. /\ SlotKept("immediate")
        /\ (InHand("immediate") => CurrentImmediate # None)
    BY <1>0, <1>7, <2>0, <2>00, <2>1, <2>2, <2>3, KeptByWriter,
       InterposerFacts, SlotNames DEF InHand
  <2>. QED  BY <1>0, <2>8, <2>9, InterposerKept DEF SlotKept, CurrentImmediate
<1>8. ASSUME NEW c \in Contexts, GetNextIrp(c)
      PROVE  InterposerInv'
  <2>1. PICK p : Moves(c, p) /\ p \in {"empty", "start", "pop", "keep"}
    BY <1>0, <1>8, NextIrpFacts
  <2>8. \A d \in Contexts : Interposing(d)' => pc'[d] = pc[d]
    BY <2>1 DEF Moves, Interposing, AtPlace
  <2>9. /\ SlotKept("immediate")
        /\ (InHand("immediate") => CurrentImmediate # None)
    BY <1>0, <1>8, KeptByNext, InterposerFacts, SlotNames DEF InHand
  <2>. QED  BY <1>0, <2>8, <2>9, InterposerKept DEF SlotKept, CurrentImmediate
<1>9. ASSUME NEW c \in Contexts, ProcessEmptyTransmit(c)
      PROVE  InterposerInv'
  <2>1. Moves(c, "idle")
    BY <1>0, <1>9, EmptyFacts
  <2>8. \A d \in Contexts : Interposing(d)' => pc'[d] = pc[d]
    BY <2>1 DEF Moves, Interposing, AtPlace
  <2>9. /\ SlotKept("immediate")
        /\ (InHand("immediate") => CurrentImmediate # None)
    BY <1>0, <1>9, KeptByEmpty, InterposerFacts, SlotNames DEF InHand
  <2>. QED  BY <1>0, <2>8, <2>9, InterposerKept DEF SlotKept, CurrentImmediate
<1>10. ASSUME NEW c \in Contexts, FinishImmediateCancelled(c)
      PROVE  InterposerInv'
  <2>0. PICK i \in Irps : i = CurrentImmediate
    BY <1>0, <1>10, WorkingInterposer, InterposerFacts
  <2>00. /\ RequestOK(i) /\ InterposerOK(c) /\ CurrentImmediate # None
         /\ Interposing(c) /\ InHand("immediate")
    BY <1>0, <1>10, WorkingInterposer, InterposerFacts
  <2>1. Moves(c, "idle")
    BY <1>0, <1>10, <2>00, ImmediateCancelledFacts
  <2>2. \A d \in Contexts : Interposing(d)' => d = c
    BY <1>0, <2>00, <2>1, SoleInterposer
  <2>3. ~Interposing(c)'
    BY <2>1 DEF Moves, Interposing
  <2>. QED  BY <2>2, <2>3, NewInterposer
<1>11. ASSUME NEW c \in Contexts, GiveImmediate(c)
      PROVE  InterposerInv'
  <2>0. PICK i \in Irps : i = CurrentImmediate
    BY <1>0, <1>11, WorkingInterposer, InterposerFacts
  <2>00. /\ RequestOK(i) /\ InterposerOK(c) /\ CurrentImmediate # None
         /\ Interposing(c) /\ InHand("immediate")
    BY <1>0, <1>11, WorkingInterposer, InterposerFacts
  <2>1. Moves(c, "idle")
    BY <1>0, <1>11, <2>00, GiveImmediateFacts
  <2>2. \A d \in Contexts : Interposing(d)' => d = c
    BY <1>0, <2>00, <2>1, SoleInterposer
  <2>3. ~Interposing(c)'
    BY <2>1 DEF Moves, Interposing
  <2>. QED  BY <2>2, <2>3, NewInterposer
<1>12. ASSUME NEW c \in Contexts, GetNextImmediate(c)
      PROVE  InterposerInv'
  <2>0. PICK i \in Irps : i = CurrentImmediate
    BY <1>0, <1>12, WorkingInterposer, InterposerFacts
  <2>00. /\ RequestOK(i) /\ InterposerOK(c) /\ CurrentImmediate # None
         /\ Interposing(c) /\ InHand("immediate")
    BY <1>0, <1>12, WorkingInterposer, InterposerFacts
  <2>1. Moves(c, "idle")
    BY <1>0, <1>12, <2>00, NextImmediateFacts
  <2>2. \A d \in Contexts : Interposing(d)' => d = c
    BY <1>0, <2>00, <2>1, SoleInterposer
  <2>3. ~Interposing(c)'
    BY <2>1 DEF Moves, Interposing
  <2>. QED  BY <2>2, <2>3, NewInterposer
<1>13. ASSUME NEW c \in Contexts, NEW s \in Slots, NEW h, NEW st, EndingOf(h,
  st),
           Ending(c, s, h, st)
      PROVE  InterposerInv'
  <2>. DEFINE sent == slot[s].sent /\ h # "isr"
              late == slot[s].late /\ h # "timer"
              last == ~sent /\ ~late
  <2>0. PICK i \in Irps : i = slot[s].irp
    BY <1>13 DEF Ending
  <2>1. /\ ~InHand(s)
        /\ AtPlace(c, "idle") \/ (AtPlace(c, "start") /\ s = "xoff")
        /\ OnlyRequest(i) /\ OnlySlot(s)
        /\ slot'[s].irp = IF last /\ s = "xoff" THEN None ELSE i
        /\ slot'[s].owed = 0 /\ ~slot'[s].timer
        /\ slot'[s].sent <=> sent
        /\ slot'[s].late <=> late
        /\ last /\ s = "xoff" => Finished(i, 0)
        /\ ~(last /\ s = "xoff") =>
               /\ \A r : r \in irp'[i].refs <=>
                      (r = "isr" /\ sent) \/ (r = "timer" /\ late)
               /\ irp'[i].routine = "none"
               /\ irp'[i].status = IF last THEN st ELSE irp[i].status
               /\ irp'[i].length = irp[i].length
               /\ irp'[i].wire = irp[i].wire
        /\ Moves(c, IF last /\ s = "write" THEN "next"
                    ELSE IF last /\ s = "immediate" THEN "inext"
                    ELSE IF AtPlace(c, "start") THEN "give" ELSE "idle")
    BY <1>13, <2>0 DEF Ending
  <2>2. last <=> ~sent /\ ~late
    OBVIOUS
  <2>. HIDE DEF sent, late, last
  <2>3. None \notin Irps /\ i # None
    BY SerialWriteAssumption
  <2>4. st \in {"success", "timeout", "cancelled"}
    BY <1>13 DEF EndingOf
  <2>5. irp[i].status = IF s = "xoff" THEN "success" ELSE "pending"
    BY <1>0, <2>0, <2>1, <2>3 DEF HeldInv, HeldOK
  <2>6. CASE s = "immediate"
    <3>1. \A d \in Contexts : Interposing(d)' => d = c
      BY <1>0, <2>1, <2>6, SoleInterposer
    <3>2. CASE last
      <4>1. /\ irp'[i].refs = {} /\ irp'[i].routine = "none"
            /\ irp'[i].status = st
            /\ slot'["immediate"].irp = i /\ pc'[c] = "inext"
        BY <2>1, <2>2, <2>6, <3>2 DEF Moves
      <4>. QED
        BY <2>3, <2>4, <3>1, <4>1, NewInterposer
           DEF InterposerOK, AtPlace, Loose, CurrentImmediate
    <3>3. CASE ~last
      <4>1. ~Interposing(c)'
        BY <2>1, <2>6, <3>3 DEF Moves, Interposing, AtPlace
      <4>. QED  BY <3>1, <4>1, NewInterposer
    <3>. QED  BY <3>2, <3>3
  <2>7. CASE s # "immediate"
    <3>8. \A d \in Contexts : Interposing(d)' => pc'[d] = pc[d]
      BY <2>1, <2>7 DEF Moves, Interposing, AtPlace
    <3>9. /\ SlotKept("immediate")
          /\ (InHand("immediate") => CurrentImmediate # None)
      BY <1>0, <1>13, <2>7, KeptByEnding, InterposerFacts, SlotNames DEF InHand
    <3>. QED  BY <1>0, <3>8, <3>9, InterposerKept DEF SlotKept, CurrentImmediate
  <2>. QED  BY <2>6, <2>7
<1>14. ASSUME NEW s \in Slots, Expire(s)
      PROVE  InterposerInv'
  <2>1. UNCHANGED <<irp, pc>> /\ \A r \in Slots : slot'[r].irp = slot[r].irp
    BY <1>0, <1>14, ExpireFacts DEF OnlySlot
  <2>2. \A d \in Contexts : pc'[d] = pc[d]
    BY <2>1
  <2>. QED  BY <1>0, <2>1, <2>2, InterposerKept, SlotNames DEF SameHolders,
               CurrentImmediate
<1>15. CASE CountSinceXoff
  <2>1. pc' = pc
    BY <1>0, <1>15, CountFacts
  <2>8. \A d \in Contexts : Interposing(d)' => pc'[d] = pc[d]
    BY <2>1
  <2>9. /\ SlotKept("immediate")
        /\ (InHand("immediate") => CurrentImmediate # None)
    BY <1>0, <1>15, KeptByCount, InterposerFacts, SlotNames DEF InHand
  <2>. QED  BY <1>0, <2>8, <2>9, InterposerKept DEF SlotKept, CurrentImmediate
<1>16. CASE SentImmediate
  <2>1. slot["immediate"].owed > 0 /\ UNCHANGED pc
    BY <1>16 DEF SentImmediate
  <2>2. ~InHand("immediate")
    BY <1>0, <2>1, HeldSlot, SlotNames
  <2>3. \A d \in Contexts : ~Interposing(d)'
    BY <2>1, <2>2 DEF InHand, Interposing
  <2>. QED  BY <2>3 DEF InterposerInv
<1>17. CASE SentWrite
  <2>1. pc' = pc
    BY <1>17 DEF SentWrite
  <2>8. \A d \in Contexts : Interposing(d)' => pc'[d] = pc[d]
    BY <2>1
  <2>9. /\ SlotKept("immediate")
        /\ (InHand("immediate") => CurrentImmediate # None)
    BY <1>0, <1>17, KeptBySending, InterposerFacts, SlotNames DEF InHand
  <2>. QED  BY <1>0, <2>8, <2>9, InterposerKept DEF SlotKept, CurrentImmediate
<1>. QED
  BY SlotSteps, <1>1, <1>2, <1>3, <1>4, <1>5, <1>6, <1>7, <1>8, <1>9, <1>10,
     <1>11, <1>12, <1>13, <1>14, <1>15, <1>16, <1>17
     DEF SlotStep

-----------------------------------------------------------------------------
(* Requests that are held. *)

\* A slot that is left alone keeps its references exact.
LEMMA HeldKept ==
    ASSUME IInv, NEW s \in Slots, SlotKept(s)
    PROVE  HeldOK(s)' /\ RefsExact(s)'
<1>1. HeldOK(s) /\ RefsExact(s)
  BY DEF IInv, HeldInv, RefsMatchHolders
<1>2. HeldOK(s)'
  BY <1>1 DEF HeldOK, SlotKept
<1>3. RefsExact(s)'
  BY <1>1 DEF RefsExact, SlotKept, SameHolders
<1>. QED  BY <1>2, <1>3

\* A slot nobody holds.
LEMMA HandedOver ==
    ASSUME NEW s \in Slots, slot'[s].irp = None \/ InHand(s)',
           ~(slot'[s].owed > 0), ~slot'[s].sent, ~slot'[s].timer, ~slot'[s].late
    PROVE  HeldOK(s)' /\ RefsExact(s)'
  BY DEF HeldOK, RefsExact

\* A slot whose request has just got its holders.
LEMMA JustHanded ==
    ASSUME NEW s \in Slots, NEW i \in Irps, NEW n \in Nat \ {0}, Handed(s, i,
      n),
           ~slot[s].sent, ~slot[s].late,
           irp[i].status = IF s = "xoff" THEN "success" ELSE "pending",
           ~InHand(s)'
    PROVE  HeldOK(s)' /\ RefsExact(s)'
<1>1. slot'[s].irp = i /\ i # None /\ slot'[s].owed > 0
  BY SerialWriteAssumption DEF Handed
<1>2. HeldOK(s)'
  BY <1>1 DEF HeldOK, Handed
<1>3. "isr" \in irp'[i].refs /\ "cancel" \in irp'[i].refs
  BY DEF Handed
<1>4. slot'[s].timer <=> "timer" \in irp'[i].refs
  BY DEF Handed
<1>5. ~slot'[s].sent /\ ~slot'[s].late /\ irp'[i].routine = s
  BY DEF Handed
<1>6. RefsExact(s)'
  BY <1>1, <1>3, <1>4, <1>5 DEF RefsExact
<1>. QED  BY <1>2, <1>6

\* A slot in somebody's hand is held by nobody else.
LEMMA InHandFacts ==
    ASSUME IInv, NEW s \in Slots, slot[s].irp = None \/ InHand(s)
    PROVE  /\ ~slot[s].sent /\ ~slot[s].timer /\ ~slot[s].late
           /\ slot[s].owed = 0
<1>1. slot[s].owed \in Nat
  BY SlotTypes, SerialWriteAssumption DEF IInv
<1>. QED  BY <1>1 DEF IInv, RefsMatchHolders, RefsExact

HoldersOK == HeldInv /\ RefsMatchHolders

\* The slots one by one.
LEMMA ThreeSlots ==
    ASSUME /\ HeldOK("write")' /\ RefsExact("write")'
           /\ HeldOK("xoff")' /\ RefsExact("xoff")'
           /\ HeldOK("immediate")' /\ RefsExact("immediate")'
    PROVE  HoldersOK'
<1>1. \A s \in Slots : s \in {"write", "xoff", "immediate"}
  BY DEF Slots
<1>. QED  BY <1>1 DEF HoldersOK, HeldInv, RefsMatchHolders

\* The references stay exact, and a held request is not through.
LEMMA HoldersStep == IInv /\ CounterSlotFree /\ [Next]_vars => HoldersOK'
<1>. SUFFICES ASSUME IInv, CounterSlotFree, [Next]_vars PROVE HoldersOK'
  OBVIOUS
<1>0. /\ IInv /\ TypeOK /\ KindInv /\ QueueInv /\ HeldInv /\ WriterInv
      /\ InterposerInv /\ RefsMatchHolders
      /\ \A i \in Irps : RequestOK(i)
  BY DEF IInv, RequestInv
<1>00. CounterSlotFree
  OBVIOUS
<1>1. CASE Aside
  <2>1. \A s \in Slots : SlotKept(s)
    BY <1>0, <1>1, KeptByAside
  <2>. QED  BY <1>0, <2>1, HeldKept, ThreeSlots, SlotNames
<1>2. ASSUME NEW c \in Contexts, NEW i \in Irps, StartAtDispatch(c, i)
      PROVE  HoldersOK'
  <2>1. /\ CurrentWrite = None
        /\ slot'["write"].owed = slot["write"].owed
        /\ slot'["write"].timer = slot["write"].timer
        /\ slot'["write"].sent = slot["write"].sent
        /\ slot'["write"].late = slot["write"].late
        /\ Moves(c, IF i \in Flushes THEN "pop" ELSE "start")
    BY <1>0, <1>2, StartFacts
  <2>2. InHand("write")'
    <3>1. Writing(c)'
      BY <2>1 DEF Moves, Writing
    <3>. QED  BY <2>1, <3>1, HandMoves
  <2>8. HeldOK("write")' /\ RefsExact("write")'
    BY <1>0, <2>1, <2>2, InHandFacts, HandedOver, SlotNames DEF CurrentWrite
  <2>9. SlotKept("xoff") /\ SlotKept("immediate")
    BY <1>0, <1>2, KeptByStart
  <2>. QED  BY <1>0, <2>8, <2>9, HeldKept, ThreeSlots, SlotNames
<1>3. ASSUME NEW c \in Contexts, NEW i \in Irps, ImmediateAtDispatch(c, i)
      PROVE  HoldersOK'
  <2>1. /\ CurrentImmediate = None
        /\ slot'["immediate"].owed = slot["immediate"].owed
        /\ slot'["immediate"].timer = slot["immediate"].timer
        /\ slot'["immediate"].sent = slot["immediate"].sent
        /\ slot'["immediate"].late = slot["immediate"].late
        /\ Moves(c, "istart")
    BY <1>0, <1>3, ImmediateFacts
  <2>2. InHand("immediate")'
    <3>1. Interposing(c)'
      BY <2>1 DEF Moves, Interposing
    <3>. QED  BY <2>1, <3>1, HandMoves
  <2>8. HeldOK("immediate")' /\ RefsExact("immediate")'
    BY <1>0, <2>1, <2>2, InHandFacts, HandedOver, SlotNames DEF CurrentImmediate
  <2>9. SlotKept("xoff") /\ SlotKept("write")
    BY <1>0, <1>3, KeptByImmediate
  <2>. QED  BY <1>0, <2>8, <2>9, HeldKept, ThreeSlots, SlotNames
<1>4. ASSUME NEW c \in Contexts, FinishCancelled(c)
      PROVE  HoldersOK'
  <2>0. PICK i \in Irps : i = CurrentWrite
    BY <1>0, <1>4, WorkingWriter, WriterFacts
  <2>00. /\ RequestOK(i) /\ WriterOK(c) /\ CurrentWrite # None /\ Writing(c)
         /\ InHand("write")
    BY <1>0, <1>4, WorkingWriter, WriterFacts
  <2>1. /\ Giving(c) /\ Moves(c, "next") /\ Becomes(i, "cancelled")
        /\ slot' = slot
    BY <1>0, <1>4, <2>0, <2>00, CancelledFacts
  <2>2. slot["xoff"].irp # i
    BY <2>0, <2>00, <2>1 DEF WriterOK, Giving, AtPlace
  <2>3. InHand("write")' /\ ~Interposing(c)' /\ OnlyRequest(CurrentWrite)
    <3>1. Writing(c)' /\ ~Interposing(c)'
      BY <2>1 DEF Moves, Writing, Interposing
    <3>. QED  BY <2>0, <2>1, <3>1, HandMoves DEF Becomes
  <2>8. HeldOK("write")' /\ RefsExact("write")'
    BY <1>0, <2>00, <2>1, <2>3, InHandFacts, HandedOver, SlotNames
  <2>9. SlotKept("xoff") /\ SlotKept("immediate")
    BY <1>0, <1>4, <2>0, <2>00, <2>1, <2>2, <2>3, KeptByWriter
  <2>. QED  BY <1>0, <2>8, <2>9, HeldKept, ThreeSlots, SlotNames
<1>5. ASSUME NEW c \in Contexts, GiveWrite(c)
      PROVE  HoldersOK'
  <2>0. PICK i \in Irps : i = CurrentWrite
    BY <1>0, <1>5, WorkingWriter, WriterFacts
  <2>00. /\ RequestOK(i) /\ WriterOK(c) /\ CurrentWrite # None /\ Writing(c)
         /\ InHand("write")
    BY <1>0, <1>5, WorkingWriter, WriterFacts
  <2>1. /\ Giving(c) /\ Moves(c, "idle")
        /\ Handed("write", i, irp[i].length)
    BY <1>0, <1>5, <2>0, <2>00, GiveFacts
  <2>2. /\ slot["xoff"].irp # i /\ i \notin Flushes /\ irp[i].status = "pending"
    BY <2>0, <2>00, <2>1 DEF WriterOK, Giving, AtPlace
  <2>3. /\ slot'["xoff"] = slot["xoff"]
        /\ slot'["immediate"] = slot["immediate"]
        /\ ~Interposing(c)' /\ OnlyRequest(CurrentWrite)
    BY <2>0, <2>1, SlotNames DEF Handed, OnlySlot, Moves, Interposing
  <2>4. ~InHand("write")'
    <3>1. \A d \in Contexts : Writing(d)' => d = c
      BY <1>0, <2>00, <2>1, SoleWriter
    <3>2. ~Writing(c)'
      BY <2>1 DEF Moves, Writing
    <3>. QED  BY <3>1, <3>2 DEF InHand
  <2>5. irp[i].length \in Nat \ {0}
    <3>1. irp[i].length \in Lengths(i)
      BY <2>00, <2>0, <2>2, LiveFacts
    <3>. QED  BY <2>2, <3>1, SerialWriteAssumption DEF Lengths
  <2>8. HeldOK("write")' /\ RefsExact("write")'
    BY <1>0, <2>00, <2>1, <2>2, <2>4, <2>5, InHandFacts, JustHanded, SlotNames
  <2>9. SlotKept("xoff") /\ SlotKept("immediate")
    BY <1>0, <1>5, <2>0, <2>00, <2>1, <2>2, <2>3, KeptByWriter
  <2>. QED  BY <1>0, <2>8, <2>9, HeldKept, ThreeSlots, SlotNames
<1>6. ASSUME NEW c \in Contexts, Account(c)
      PROVE  HoldersOK'
  <2>1. \A s \in Slots : SlotKept(s)
    BY <1>0, <1>6, KeptByAccount
  <2>. QED  BY <1>0, <2>1, HeldKept, ThreeSlots, SlotNames
<1>7. ASSUME NEW c \in Contexts, AccountXoff(c)
      PROVE  HoldersOK'
  <2>0. PICK i \in Irps : i = CurrentWrite
    BY <1>0, <1>7, WorkingWriter, WriterFacts
  <2>00. /\ RequestOK(i) /\ WriterOK(c) /\ CurrentWrite # None /\ Writing(c)
         /\ InHand("write")
    BY <1>0, <1>7, WorkingWriter, WriterFacts
  <2>1. /\ AtPlace(c, "next") /\ StartsCounting(i)
        /\ \/ /\ Becomes(i, "cancelled") /\ UNCHANGED slot
              /\ Moves(c, "pop")
           \/ /\ \E n \in 1..MaxCounter : Handed("xoff", i, n)
              /\ Moves(c, "keep")
    BY <1>0, <1>7, <2>0, <2>00, AccountXoffFacts
  <2>2. slot["xoff"].irp # i /\ irp[i].status = "success"
    BY <2>0, <2>00, <2>1 DEF WriterOK, AtPlace, StartsCounting
  <2>3. slot["xoff"].irp = None
    BY <1>00, <2>0, <2>1 DEF CounterSlotFree
  <2>4. PICK p : p \in {"pop", "keep"} /\ Moves(c, p)
    BY <2>1
  <2>5. InHand("write")' /\ ~Interposing(c)'
    <3>1. Writing(c)' /\ ~Interposing(c)'
      BY <2>4 DEF Moves, Writing, Interposing
    <3>. QED  BY <2>4, <3>1, HandMoves
  <2>6. /\ slot'["write"] = slot["write"]
        /\ slot'["immediate"] = slot["immediate"]
        /\ OnlyRequest(CurrentWrite)
    BY <2>0, <2>1, SlotNames DEF Becomes, Handed, OnlySlot
  <2>7. SlotKept("immediate")
    BY <1>0, <2>00, <2>4, <2>5, <2>6, KeptByWriter
  <2>8. HeldOK("write")' /\ RefsExact("write")'
    BY <1>0, <2>00, <2>5, <2>6, InHandFacts, HandedOver, SlotNames
  <2>9. HeldOK("xoff")' /\ RefsExact("xoff")'
    <3>1. CASE UNCHANGED slot
      BY <1>0, <2>3, <3>1, InHandFacts, HandedOver, SlotNames
    <3>2. CASE \E n \in 1..MaxCounter : Handed("xoff", i, n)
      <4>1. PICK n \in 1..MaxCounter : Handed("xoff", i, n)
        BY <3>2
      <4>2. n \in Nat \ {0}
        BY SerialWriteAssumption
      <4>3. ~slot["xoff"].sent /\ ~slot["xoff"].late
        BY <1>0, <2>3, InHandFacts, SlotNames
      <4>. QED  BY <2>2, <4>1, <4>2, <4>3, JustHanded, CounterInNoHand,
                   SlotNames
    <3>. QED  BY <2>1, <3>1, <3>2
  <2>. QED  BY <1>0, <2>7, <2>8, <2>9, HeldKept, ThreeSlots, SlotNames
<1>8. ASSUME NEW c \in Contexts, GetNextIrp(c)
      PROVE  HoldersOK'
  <2>0. PICK i \in Irps : i = CurrentWrite
    BY <1>0, <1>8, WorkingWriter, WriterFacts
  <2>00. /\ RequestOK(i) /\ WriterOK(c) /\ CurrentWrite # None /\ Writing(c)
         /\ InHand("write")
    BY <1>0, <1>8, WorkingWriter, WriterFacts
  <2>. DEFINE next == IF queue = <<>> THEN None ELSE Head(queue)
  <2>1. /\ pc[c] \in {"pop", "keep"}
        /\ slot'["write"].irp = next
        /\ slot'["write"].owed = slot["write"].owed
        /\ slot'["write"].timer = slot["write"].timer
        /\ slot'["write"].sent = slot["write"].sent
        /\ slot'["write"].late = slot["write"].late
        /\ Moves(c, IF queue = <<>> THEN "empty"
                    ELSE IF next \in Flushes THEN pc[c] ELSE "start")
    BY <1>0, <1>8, <2>0, NextIrpFacts
  <2>2. slot'["write"].irp = None \/ InHand("write")'
    <3>1. CASE queue = <<>>
      BY <2>1, <3>1
    <3>2. CASE queue # <<>>
      <4>1. Writing(c)'
        BY <2>1, <3>2 DEF Moves, Writing
      <4>. QED  BY <2>1, <4>1, HandMoves
    <3>. QED  BY <3>1, <3>2
  <2>8. HeldOK("write")' /\ RefsExact("write")'
    BY <1>0, <2>00, <2>1, <2>2, InHandFacts, HandedOver, SlotNames
  <2>9. SlotKept("xoff") /\ SlotKept("immediate")
    BY <1>0, <1>8, KeptByNext
  <2>. QED  BY <1>0, <2>8, <2>9, HeldKept, ThreeSlots, SlotNames
<1>9. ASSUME NEW c \in Contexts, ProcessEmptyTransmit(c)
      PROVE  HoldersOK'
  <2>1. \A s \in Slots : SlotKept(s)
    BY <1>0, <1>9, KeptByEmpty
  <2>. QED  BY <1>0, <2>1, HeldKept, ThreeSlots, SlotNames
<1>10. ASSUME NEW c \in Contexts, FinishImmediateCancelled(c)
      PROVE  HoldersOK'
  <2>0. PICK i \in Irps : i = CurrentImmediate
    BY <1>0, <1>10, WorkingInterposer, InterposerFacts
  <2>00. /\ RequestOK(i) /\ InterposerOK(c) /\ CurrentImmediate # None
         /\ Interposing(c) /\ InHand("immediate")
    BY <1>0, <1>10, WorkingInterposer, InterposerFacts
  <2>1. /\ AtPlace(c, "istart") /\ Finished(i, 1)
        /\ OnlySlot("immediate") /\ Moves(c, "idle")
        /\ slot'["immediate"] = [slot["immediate"] EXCEPT !.irp = None]
    BY <1>0, <1>10, <2>0, <2>00, ImmediateCancelledFacts
  <2>2. /\ slot'["immediate"].irp = None
        /\ slot'["immediate"].owed = slot["immediate"].owed
        /\ slot'["immediate"].timer = slot["immediate"].timer
        /\ slot'["immediate"].sent = slot["immediate"].sent
        /\ slot'["immediate"].late = slot["immediate"].late
    BY <1>0, <2>1, SlotNames DEF TypeOK, Slot
  <2>3. OnlyRequest(CurrentImmediate)
    BY <2>0, <2>1 DEF Finished
  <2>8. HeldOK("immediate")' /\ RefsExact("immediate")'
    BY <1>0, <2>00, <2>2, InHandFacts, HandedOver, SlotNames
  <2>9. SlotKept("write") /\ SlotKept("xoff")
    BY <1>0, <1>10, <2>00, <2>1, <2>3, KeptByInterposer
  <2>. QED  BY <1>0, <2>8, <2>9, HeldKept, ThreeSlots, SlotNames
<1>11. ASSUME NEW c \in Contexts, GiveImmediate(c)
      PROVE  HoldersOK'
  <2>0. PICK i \in Irps : i = CurrentImmediate
    BY <1>0, <1>11, WorkingInterposer, InterposerFacts
  <2>00. /\ RequestOK(i) /\ InterposerOK(c) /\ CurrentImmediate # None
         /\ Interposing(c) /\ InHand("immediate")
    BY <1>0, <1>11, WorkingInterposer, InterposerFacts
  <2>1. /\ AtPlace(c, "istart") /\ Moves(c, "idle")
        /\ Handed("immediate", i, 1)
    BY <1>0, <1>11, <2>0, <2>00, GiveImmediateFacts
  <2>2. irp[i].status = "pending"
    BY <2>0, <2>00, <2>1 DEF InterposerOK
  <2>3. OnlySlot("immediate") /\ OnlyRequest(CurrentImmediate)
    BY <2>0, <2>1 DEF Handed
  <2>4. ~InHand("immediate")'
    <3>1. \A d \in Contexts : Interposing(d)' => d = c
      BY <1>0, <2>00, <2>1, SoleInterposer
    <3>2. ~Interposing(c)'
      BY <2>1 DEF Moves, Interposing
    <3>. QED  BY <3>1, <3>2 DEF InHand
  <2>8. HeldOK("immediate")' /\ RefsExact("immediate")'
    BY <1>0, <2>00, <2>1, <2>2, <2>4, InHandFacts, JustHanded, SlotNames
  <2>9. SlotKept("write") /\ SlotKept("xoff")
    BY <1>0, <1>11, <2>00, <2>1, <2>3, KeptByInterposer
  <2>. QED  BY <1>0, <2>8, <2>9, HeldKept, ThreeSlots, SlotNames
<1>12. ASSUME NEW c \in Contexts, GetNextImmediate(c)
      PROVE  HoldersOK'
  <2>0. PICK i \in Irps : i = CurrentImmediate
    BY <1>0, <1>12, WorkingInterposer, InterposerFacts
  <2>00. /\ RequestOK(i) /\ InterposerOK(c) /\ CurrentImmediate # None
         /\ Interposing(c) /\ InHand("immediate")
    BY <1>0, <1>12, WorkingInterposer, InterposerFacts
  <2>1. /\ AtPlace(c, "inext") /\ Finished(i, 0)
        /\ OnlySlot("immediate") /\ Moves(c, "idle")
        /\ slot'["immediate"] = [slot["immediate"] EXCEPT !.irp = None]
    BY <1>0, <1>12, <2>0, <2>00, NextImmediateFacts
  <2>2. /\ slot'["immediate"].irp = None
        /\ slot'["immediate"].owed = slot["immediate"].owed
        /\ slot'["immediate"].timer = slot["immediate"].timer
        /\ slot'["immediate"].sent = slot["immediate"].sent
        /\ slot'["immediate"].late = slot["immediate"].late
    BY <1>0, <2>1, SlotNames DEF TypeOK, Slot
  <2>3. OnlyRequest(CurrentImmediate)
    BY <2>0, <2>1 DEF Finished
  <2>8. HeldOK("immediate")' /\ RefsExact("immediate")'
    BY <1>0, <2>00, <2>2, InHandFacts, HandedOver, SlotNames
  <2>9. SlotKept("write") /\ SlotKept("xoff")
    BY <1>0, <1>12, <2>00, <2>1, <2>3, KeptByInterposer
  <2>. QED  BY <1>0, <2>8, <2>9, HeldKept, ThreeSlots, SlotNames
<1>13. ASSUME NEW c \in Contexts, NEW s \in Slots, NEW h, NEW st, EndingOf(h,
  st),
           Ending(c, s, h, st)
      PROVE  HoldersOK'
  <2>. DEFINE sent == slot[s].sent /\ h # "isr"
              late == slot[s].late /\ h # "timer"
              last == ~sent /\ ~late
  <2>0. PICK i \in Irps : i = slot[s].irp
    BY <1>13 DEF Ending
  <2>1. /\ ~InHand(s)
        /\ AtPlace(c, "idle") \/ (AtPlace(c, "start") /\ s = "xoff")
        /\ OnlyRequest(i) /\ OnlySlot(s)
        /\ slot'[s].irp = IF last /\ s = "xoff" THEN None ELSE i
        /\ slot'[s].owed = 0 /\ ~slot'[s].timer
        /\ slot'[s].sent <=> sent
        /\ slot'[s].late <=> late
        /\ last /\ s = "xoff" => Finished(i, 0)
        /\ ~(last /\ s = "xoff") =>
               /\ \A r : r \in irp'[i].refs <=>
                      (r = "isr" /\ sent) \/ (r = "timer" /\ late)
               /\ irp'[i].routine = "none"
               /\ irp'[i].status = IF last THEN st ELSE irp[i].status
               /\ irp'[i].length = irp[i].length
               /\ irp'[i].wire = irp[i].wire
        /\ Moves(c, IF last /\ s = "write" THEN "next"
                    ELSE IF last /\ s = "immediate" THEN "inext"
                    ELSE IF AtPlace(c, "start") THEN "give" ELSE "idle")
    BY <1>13, <2>0 DEF Ending
  <2>2. last <=> ~sent /\ ~late
    OBVIOUS
  <2>. HIDE DEF sent, late, last
  <2>3. None \notin Irps /\ i # None
    BY SerialWriteAssumption
  <2>4. st \in {"success", "timeout", "cancelled"}
    BY <1>13 DEF EndingOf
  <2>5. irp[i].status = IF s = "xoff" THEN "success" ELSE "pending"
    BY <1>0, <2>0, <2>1, <2>3 DEF HeldInv, HeldOK
  <2>6. HeldOK(s)' /\ RefsExact(s)'
    <3>1. CASE last
      <4>1. slot'[s].irp = None \/ InHand(s)'
        <5>1. s = "write" => Writing(c)'
          BY <2>1, <3>1 DEF Moves, Writing
        <5>2. s = "immediate" => Interposing(c)'
          BY <2>1, <3>1 DEF Moves, Interposing
        <5>. QED  BY <2>1, <3>1, <5>1, <5>2, HandMoves DEF Slots
      <4>2. /\ ~slot'[s].sent
            /\ ~slot'[s].late
            /\ ~slot'[s].timer
            /\ ~(slot'[s].owed > 0)
        BY <2>1, <2>2, <3>1
      <4>. QED  BY <4>1, <4>2, HandedOver
    <3>2. CASE ~last
      <4>1. /\ slot'[s].irp = i /\ irp'[i].status = irp[i].status
            /\ irp'[i].routine = "none"
            /\ "isr" \in irp'[i].refs <=> sent
            /\ "timer" \in irp'[i].refs <=> late
            /\ "cancel" \notin irp'[i].refs
        BY <2>1, <3>2
      <4>2. ~InHand(s)'
        <5>1. s = "write" => ~Writing(c)' /\ ~Writing(c)
          BY <2>1, <3>2 DEF Moves, Writing, AtPlace
        <5>2. s = "immediate" => ~Interposing(c)' /\ ~Interposing(c)
          BY <2>1, <3>2 DEF Moves, Interposing, AtPlace
        <5>. QED  BY <2>1, <5>1, <5>2, HandMoves, CounterInNoHand DEF Slots
      <4>3. HeldOK(s)'
        BY <2>5, <4>1 DEF HeldOK
      <4>4. "none" # s
        BY DEF Slots
      <4>5. RefsExact(s)'
        BY <2>1, <2>2, <2>3, <3>2, <4>1, <4>2, <4>4 DEF RefsExact
      <4>. QED  BY <4>3, <4>5
    <3>. QED  BY <3>1, <3>2
  <2>7. ASSUME NEW r \in Slots, r # s PROVE HeldOK(r)' /\ RefsExact(r)'
    <3>1. CASE SlotKept(r)
      BY <1>0, <3>1, HeldKept
    <3>2. CASE /\ r = "write" /\ InHand("write") /\ InHand("write")'
               /\ slot'["write"] = slot["write"]
      BY <1>0, <3>2, InHandFacts, HandedOver, SlotNames
    <3>. QED  BY <1>0, <1>13, <2>7, <3>1, <3>2, KeptByEnding
  <2>. QED  BY <2>6, <2>7 DEF HoldersOK, HeldInv, RefsMatchHolders
<1>14. ASSUME NEW s \in Slots, Expire(s)
      PROVE  HoldersOK'
  <2>1. /\ slot[s].timer /\ irp' = irp
        /\ slot'[s].irp = slot[s].irp /\ slot'[s].owed = slot[s].owed
        /\ ~slot'[s].timer /\ slot'[s].sent = slot[s].sent /\ slot'[s].late
    BY <1>0, <1>14, ExpireFacts
  <2>2. InHand(s)' <=> InHand(s)
    BY <1>0, <1>14, KeptByExpiry
  <2>3. slot[s].owed \in Nat
    BY <1>0, SlotTypes, SerialWriteAssumption
  <2>8. HeldOK(s)' /\ RefsExact(s)'
    <3>1. slot[s].irp # None /\ ~InHand(s)
      BY <1>0, <2>1, HeldSlot, SlotNames
    <3>2. HeldOK(s) /\ RefsExact(s)
      BY <1>0, SlotNames DEF HeldInv, RefsMatchHolders
    <3>3. HeldOK(s)'
      BY <2>1, <2>2, <3>1, <3>2 DEF HeldOK
    <3>4. RefsExact(s)'
      BY <2>1, <2>2, <2>3, <3>1, <3>2 DEF RefsExact, SameHolders
    <3>. QED  BY <3>3, <3>4
  <2>9. \A r \in Slots \ {s} : SlotKept(r)
    BY <1>0, <1>14, KeptByExpiry DEF Slots
  <2>. QED  BY <1>0, <2>8, <2>9, HeldKept DEF HoldersOK, HeldInv,
               RefsMatchHolders
<1>15. CASE CountSinceXoff
  <2>1. /\ slot["xoff"].owed > 0 /\ irp' = irp
        /\ slot'["xoff"].irp = slot["xoff"].irp
        /\ slot'["xoff"].owed = slot["xoff"].owed - 1
        /\ slot'["xoff"].timer = slot["xoff"].timer
        /\ slot'["xoff"].sent <=> slot["xoff"].sent \/ slot["xoff"].owed = 1
        /\ slot'["xoff"].late = slot["xoff"].late
    BY <1>0, <1>15, CountFacts
  <2>2. InHand("xoff")' <=> InHand("xoff")
    BY CounterInNoHand
  <2>3. slot["xoff"].owed \in Nat
    BY <1>0, SlotTypes, SlotNames, SerialWriteAssumption
  <2>8. HeldOK("xoff")' /\ RefsExact("xoff")'
    <3>1. slot["xoff"].irp # None /\ ~InHand("xoff")
      BY <1>0, <2>1, HeldSlot, SlotNames
    <3>2. HeldOK("xoff") /\ RefsExact("xoff")
      BY <1>0, SlotNames DEF HeldInv, RefsMatchHolders
    <3>3. HeldOK("xoff")'
      BY <2>1, <2>2, <3>1, <3>2 DEF HeldOK
    <3>4. RefsExact("xoff")'
      BY <2>1, <2>2, <2>3, <3>1, <3>2 DEF RefsExact, SameHolders
    <3>. QED  BY <3>3, <3>4
  <2>9. \A r \in Slots \ {"xoff"} : SlotKept(r)
    BY <1>0, <1>15, KeptByCount DEF Slots
  <2>. QED  BY <1>0, <2>8, <2>9, HeldKept DEF HoldersOK, HeldInv,
               RefsMatchHolders
<1>16. CASE SentImmediate
  <2>1. /\ slot["immediate"].owed > 0
        /\ slot'["immediate"].irp = slot["immediate"].irp
        /\ slot'["immediate"].owed = 0
        /\ slot'["immediate"].timer = slot["immediate"].timer
        /\ slot'["immediate"].sent
        /\ slot'["immediate"].late = slot["immediate"].late
        /\ SameHolders(slot["immediate"].irp)
        /\ irp'[slot["immediate"].irp].status =
               irp[slot["immediate"].irp].status
    BY <1>16 DEF SentImmediate, CurrentImmediate
  <2>2. InHand("immediate")' <=> InHand("immediate")
    BY <1>0, <1>16, KeptBySending
  <2>3. slot["immediate"].owed \in Nat
    BY <1>0, SlotTypes, SlotNames, SerialWriteAssumption
  <2>8. HeldOK("immediate")' /\ RefsExact("immediate")'
    <3>1. slot["immediate"].irp # None /\ ~InHand("immediate")
      BY <1>0, <2>1, HeldSlot, SlotNames
    <3>2. HeldOK("immediate") /\ RefsExact("immediate")
      BY <1>0, SlotNames DEF HeldInv, RefsMatchHolders
    <3>3. HeldOK("immediate")'
      BY <2>1, <2>2, <3>1, <3>2 DEF HeldOK
    <3>4. RefsExact("immediate")'
      BY <2>1, <2>2, <2>3, <3>1, <3>2 DEF RefsExact, SameHolders
    <3>. QED  BY <3>3, <3>4
  <2>9. \A r \in Slots \ {"immediate"} : SlotKept(r)
    BY <1>0, <1>16, KeptBySending DEF Slots
  <2>. QED  BY <1>0, <2>8, <2>9, HeldKept DEF HoldersOK, HeldInv,
               RefsMatchHolders
<1>17. CASE SentWrite
  <2>1. /\ slot["write"].owed > 0
        /\ slot'["write"].irp = slot["write"].irp
        /\ slot'["write"].owed \in 0..(slot["write"].owed - 1)
        /\ slot'["write"].timer = slot["write"].timer
        /\ slot'["write"].sent <=> slot["write"].sent \/ slot'["write"].owed = 0
        /\ slot'["write"].late = slot["write"].late
        /\ SameHolders(slot["write"].irp)
        /\ irp'[slot["write"].irp].status = irp[slot["write"].irp].status
    BY <1>17 DEF SentWrite, CurrentWrite
  <2>2. InHand("write")' <=> InHand("write")
    BY <1>0, <1>17, KeptBySending
  <2>3. slot["write"].owed \in Nat
    BY <1>0, SlotTypes, SlotNames, SerialWriteAssumption
  <2>8. HeldOK("write")' /\ RefsExact("write")'
    <3>1. slot["write"].irp # None /\ ~InHand("write")
      BY <1>0, <2>1, HeldSlot, SlotNames
    <3>2. HeldOK("write") /\ RefsExact("write")
      BY <1>0, SlotNames DEF HeldInv, RefsMatchHolders
    <3>3. HeldOK("write")'
      BY <2>1, <2>2, <3>1, <3>2 DEF HeldOK
    <3>4. RefsExact("write")'
      BY <2>1, <2>2, <2>3, <3>1, <3>2 DEF RefsExact, SameHolders
    <3>. QED  BY <3>3, <3>4
  <2>9. \A r \in Slots \ {"write"} : SlotKept(r)
    BY <1>0, <1>17, KeptBySending DEF Slots
  <2>. QED  BY <1>0, <2>8, <2>9, HeldKept DEF HoldersOK, HeldInv,
               RefsMatchHolders
<1>. QED
  BY SlotSteps, <1>1, <1>2, <1>3, <1>4, <1>5, <1>6, <1>7, <1>8, <1>9, <1>10,
     <1>11, <1>12, <1>13, <1>14, <1>15, <1>16, <1>17
     DEF SlotStep

-----------------------------------------------------------------------------
(* What is sent, and what is reported. *)

\* A write that is left alone has sent what it had,
LEMMA SentKept ==
    ASSUME SentInv, SlotKept("write")
    PROVE  SentInv'
  BY DEF SentInv, SlotKept, SameHolders, SameProgress, CurrentWrite

\* and one the ISR does not have needs nothing said of it.
LEMMA SentIdle ==
    ASSUME slot'["write"].irp = None \/ InHand("write")'
    PROVE  SentInv'
  BY DEF SentInv, CurrentWrite

\* What was put into the UART and what is owed make up the current write.
LEMMA SentInvStep == IInv /\ [Next]_vars => SentInv'
<1>. SUFFICES ASSUME IInv, [Next]_vars PROVE SentInv'
  OBVIOUS
<1>0. /\ IInv /\ TypeOK /\ KindInv /\ QueueInv /\ HeldInv /\ WriterInv
      /\ InterposerInv /\ RefsMatchHolders /\ SentInv /\ HonestCount
      /\ CounterYields
      /\ \A i \in Irps : RequestOK(i)
  BY DEF IInv, RequestInv
<1>1. CASE Aside
  BY <1>0, <1>1, KeptByAside, SentKept, SlotNames
<1>2. ASSUME NEW c \in Contexts, NEW i \in Irps, StartAtDispatch(c, i)
      PROVE  SentInv'
  <2>1. Moves(c, IF i \in Flushes THEN "pop" ELSE "start")
    BY <1>0, <1>2, StartFacts
  <2>2. Writing(c)'
    BY <2>1 DEF Moves, Writing
  <2>. QED  BY <2>1, <2>2, HandMoves, SentIdle
<1>3. ASSUME NEW c \in Contexts, NEW i \in Irps, ImmediateAtDispatch(c, i)
      PROVE  SentInv'
  BY <1>0, <1>3, KeptByImmediate, SentKept, SlotNames
<1>4. ASSUME NEW c \in Contexts, FinishCancelled(c)
      PROVE  SentInv'
  <2>0. PICK i \in Irps : i = CurrentWrite
    BY <1>0, <1>4, WorkingWriter, WriterFacts
  <2>00. /\ RequestOK(i) /\ WriterOK(c) /\ CurrentWrite # None /\ Writing(c)
         /\ InHand("write")
    BY <1>0, <1>4, WorkingWriter, WriterFacts
  <2>1. Moves(c, "next")
    BY <1>0, <1>4, <2>00, CancelledFacts
  <2>2. Writing(c)'
    BY <2>1 DEF Moves, Writing
  <2>. QED  BY <2>1, <2>2, HandMoves, SentIdle
<1>5. ASSUME NEW c \in Contexts, GiveWrite(c)
      PROVE  SentInv'
  <2>0. PICK i \in Irps : i = CurrentWrite
    BY <1>0, <1>5, WorkingWriter, WriterFacts
  <2>00. /\ RequestOK(i) /\ WriterOK(c) /\ CurrentWrite # None /\ Writing(c)
         /\ InHand("write")
    BY <1>0, <1>5, WorkingWriter, WriterFacts
  <2>1. /\ Giving(c) /\ Handed("write", i, irp[i].length)
    BY <1>0, <1>5, <2>0, <2>00, GiveFacts
  <2>2. /\ i \notin Flushes /\ irp[i].status = "pending" /\ Untouched(i)
    BY <2>0, <2>00, <2>1 DEF WriterOK, Giving, AtPlace
  <2>3. irp[i].length \in Nat \ {0}
    <3>1. irp[i].length \in Lengths(i)
      BY <2>00, <2>0, <2>2, LiveFacts
    <3>. QED  BY <2>2, <3>1, SerialWriteAssumption DEF Lengths
  <2>4. /\ slot'["write"].irp = i /\ slot'["write"].owed = irp[i].length
        /\ irp'[i].wire = 0
        /\ irp'[i].info = 0
        /\ irp'[i].length = irp[i].length
    BY <2>1, <2>2 DEF Handed, Untouched, SameProgress
  <2>. QED  BY <2>2, <2>3, <2>4 DEF SentInv, CurrentWrite
<1>6. ASSUME NEW c \in Contexts, Account(c)
      PROVE  SentInv'
  BY <1>0, <1>6, KeptByAccount, SentKept, SlotNames
<1>7. ASSUME NEW c \in Contexts, AccountXoff(c)
      PROVE  SentInv'
  <2>0. PICK i \in Irps : i = CurrentWrite
    BY <1>0, <1>7, WorkingWriter, WriterFacts
  <2>00. /\ RequestOK(i) /\ WriterOK(c) /\ CurrentWrite # None /\ Writing(c)
         /\ InHand("write")
    BY <1>0, <1>7, WorkingWriter, WriterFacts
  <2>1. PICK p : Moves(c, p) /\ p \in {"pop", "keep"}
    BY <1>0, <1>7, <2>00, AccountXoffFacts
  <2>2. Writing(c)'
    BY <2>1 DEF Moves, Writing
  <2>. QED  BY <2>1, <2>2, HandMoves, SentIdle
<1>8. ASSUME NEW c \in Contexts, GetNextIrp(c)
      PROVE  SentInv'
  <2>. DEFINE next == IF queue = <<>> THEN None ELSE Head(queue)
  <2>1. /\ pc[c] \in {"pop", "keep"}
        /\ slot'["write"].irp = next
        /\ Moves(c, IF queue = <<>> THEN "empty"
                    ELSE IF next \in Flushes THEN pc[c] ELSE "start")
    BY <1>0, <1>8, NextIrpFacts
  <2>2. CASE queue = <<>>
    BY <2>1, <2>2, SentIdle
  <2>3. CASE queue # <<>>
    <3>1. Writing(c)'
      BY <2>1, <2>3 DEF Moves, Writing
    <3>. QED  BY <2>1, <3>1, HandMoves, SentIdle
  <2>. QED  BY <2>2, <2>3
<1>9. ASSUME NEW c \in Contexts, ProcessEmptyTransmit(c)
      PROVE  SentInv'
  BY <1>0, <1>9, KeptByEmpty, SentKept, SlotNames
<1>10. ASSUME NEW c \in Contexts, FinishImmediateCancelled(c)
      PROVE  SentInv'
  <2>0. PICK i \in Irps : i = CurrentImmediate
    BY <1>0, <1>10, WorkingInterposer, InterposerFacts
  <2>00. /\ RequestOK(i) /\ InterposerOK(c) /\ CurrentImmediate # None
         /\ Interposing(c) /\ InHand("immediate")
    BY <1>0, <1>10, WorkingInterposer, InterposerFacts
  <2>1. /\ Moves(c, "idle") /\ OnlySlot("immediate")
        /\ OnlyRequest(CurrentImmediate)
    BY <1>0, <1>10, <2>00, ImmediateCancelledFacts DEF Finished, Handed
  <2>. QED  BY <1>0, <2>00, <2>1, KeptByInterposer, SentKept
<1>11. ASSUME NEW c \in Contexts, GiveImmediate(c)
      PROVE  SentInv'
  <2>0. PICK i \in Irps : i = CurrentImmediate
    BY <1>0, <1>11, WorkingInterposer, InterposerFacts
  <2>00. /\ RequestOK(i) /\ InterposerOK(c) /\ CurrentImmediate # None
         /\ Interposing(c) /\ InHand("immediate")
    BY <1>0, <1>11, WorkingInterposer, InterposerFacts
  <2>1. /\ Moves(c, "idle") /\ OnlySlot("immediate")
        /\ OnlyRequest(CurrentImmediate)
    BY <1>0, <1>11, <2>00, GiveImmediateFacts DEF Finished, Handed
  <2>. QED  BY <1>0, <2>00, <2>1, KeptByInterposer, SentKept
<1>12. ASSUME NEW c \in Contexts, GetNextImmediate(c)
      PROVE  SentInv'
  <2>0. PICK i \in Irps : i = CurrentImmediate
    BY <1>0, <1>12, WorkingInterposer, InterposerFacts
  <2>00. /\ RequestOK(i) /\ InterposerOK(c) /\ CurrentImmediate # None
         /\ Interposing(c) /\ InHand("immediate")
    BY <1>0, <1>12, WorkingInterposer, InterposerFacts
  <2>1. /\ Moves(c, "idle") /\ OnlySlot("immediate")
        /\ OnlyRequest(CurrentImmediate)
    BY <1>0, <1>12, <2>00, NextImmediateFacts DEF Finished, Handed
  <2>. QED  BY <1>0, <2>00, <2>1, KeptByInterposer, SentKept
<1>13. ASSUME NEW c \in Contexts, NEW s \in Slots, NEW h, NEW st, EndingOf(h,
  st),
           Ending(c, s, h, st)
      PROVE  SentInv'
  <2>. DEFINE sent == slot[s].sent /\ h # "isr"
              late == slot[s].late /\ h # "timer"
              last == ~sent /\ ~late
  <2>0. PICK i \in Irps : i = slot[s].irp
    BY <1>13 DEF Ending
  <2>1. /\ ~InHand(s)
        /\ AtPlace(c, "idle") \/ (AtPlace(c, "start") /\ s = "xoff")
        /\ OnlyRequest(i) /\ OnlySlot(s)
        /\ h = "isr" => slot[s].sent
        /\ slot'[s].irp = IF last /\ s = "xoff" THEN None ELSE i
        /\ slot'[s].owed = 0
        /\ slot'[s].sent <=> sent
        /\ ~(last /\ s = "xoff") =>
               /\ \A r : r \in irp'[i].refs <=>
                      (r = "isr" /\ sent) \/ (r = "timer" /\ late)
               /\ irp'[i].status = IF last THEN st ELSE irp[i].status
               /\ irp'[i].info =
                      IF i \notin Writes \/ (last /\ st = "cancelled") THEN 0
                      ELSE IF slot[s].owed > 0 THEN AmountSent(i)
                      ELSE irp[i].info
               /\ irp'[i].length = irp[i].length
               /\ irp'[i].wire = irp[i].wire
        /\ Moves(c, IF last /\ s = "write" THEN "next"
                    ELSE IF last /\ s = "immediate" THEN "inext"
                    ELSE IF AtPlace(c, "start") THEN "give" ELSE "idle")
    BY <1>13, <2>0 DEF Ending
  <2>2. sent => slot[s].sent
    OBVIOUS
  <2>. HIDE DEF sent, late, last
  <2>3. None \notin Irps /\ i # None
    BY SerialWriteAssumption
  <2>4. s = "write" => /\ i \notin Flushes
                       /\ irp[i].wire \in Nat /\ irp[i].info \in Nat
                       /\ irp[i].length \in Nat /\ slot[s].owed \in Nat
                       /\ slot[s].owed > 0 => AmountSent(i) = irp[i].wire
                       /\ slot[s].owed = 0 /\ i \in Writes =>
                              irp[i].info = irp[i].wire
                       /\ slot[s].owed = 0 /\ i \in Writes /\ slot[s].sent =>
                              irp[i].wire = irp[i].length
    <3>. SUFFICES ASSUME s = "write"
                  PROVE  /\ i \notin Flushes
                         /\ irp[i].wire \in Nat /\ irp[i].info \in Nat
                         /\ irp[i].length \in Nat /\ slot[s].owed \in Nat
                         /\ slot[s].owed > 0 => AmountSent(i) = irp[i].wire
                         /\ slot[s].owed = 0 /\ i \in Writes =>
                                irp[i].info = irp[i].wire
                         /\ slot[s].owed = 0 /\ i \in Writes /\ slot[s].sent =>
                                irp[i].wire = irp[i].length
      OBVIOUS
    <3>1. /\ i \notin Flushes
          /\ slot["write"].owed > 0 =>
                 irp[i].wire + slot["write"].owed = irp[i].length
          /\ slot["write"].owed = 0 /\ i \in Writes =>
                 /\ irp[i].info = irp[i].wire
                 /\ "isr" \in irp[i].refs => irp[i].wire = irp[i].length
      BY <1>0, <2>0, <2>1, <2>3 DEF SentInv, CurrentWrite
    <3>2. /\ irp[i].wire \in Nat /\ irp[i].info \in Nat /\ irp[i].length \in Nat
          /\ slot["write"].owed \in Nat
      BY <1>0, RequestTypes, SlotTypes, SlotNames, SerialWriteAssumption
    <3>3. slot["write"].sent => "isr" \in irp[i].refs
      BY <1>0, <2>0, <2>1, <2>3, HeldRefs, SlotNames
    <3>. QED  BY <3>1, <3>2, <3>3 DEF AmountSent
  <2>5. slot[s].sent => slot[s].owed = 0
    <3>1. slot[s].owed \in Nat
      BY <1>0, SlotTypes, SerialWriteAssumption
    <3>. QED  BY <1>0, <2>0, <2>1, <2>3, <3>1, HeldRefs
  <2>6. CASE s = "write"
    <3>1. CASE last
      <4>1. Writing(c)'
        BY <2>1, <2>6, <3>1 DEF Moves, Writing
      <4>. QED  BY <2>1, <4>1, HandMoves, SentIdle
    <3>2. CASE ~last
      <4>1. /\ slot'["write"].irp = i /\ slot'["write"].owed = 0
            /\ irp'[i].wire = irp[i].wire /\ irp'[i].length = irp[i].length
            /\ "isr" \in irp'[i].refs => slot["write"].sent
            /\ i \in Writes => irp'[i].info = IF slot["write"].owed > 0
                                              THEN AmountSent(i)
                                              ELSE irp[i].info
        BY <2>1, <2>2, <2>6, <3>2
      <4>2. i \in Writes => irp'[i].info = irp[i].wire
        BY <2>4, <2>6, <4>1
      <4>3. "isr" \in irp'[i].refs /\ i \in Writes =>
                irp[i].wire = irp[i].length
        BY <2>4, <2>5, <2>6, <4>1
      <4>. QED  BY <2>4, <2>6, <4>1, <4>2, <4>3 DEF SentInv, CurrentWrite
    <3>. QED  BY <3>1, <3>2
  <2>7. CASE s # "write"
    BY <1>0, <1>13, <2>7, KeptByEnding, SentKept, SentIdle, SlotNames
  <2>. QED  BY <2>6, <2>7
<1>14. ASSUME NEW s \in Slots, Expire(s)
      PROVE  SentInv'
  <2>1. /\ irp' = irp /\ slot'["write"].irp = slot["write"].irp
        /\ slot'["write"].owed = slot["write"].owed
    BY <1>0, <1>14, ExpireFacts, SlotNames DEF OnlySlot
  <2>2. InHand("write")' <=> InHand("write")
    BY <1>0, <1>14, KeptByExpiry, SlotNames DEF SlotKept
  <2>. QED  BY <1>0, <2>1, <2>2 DEF SentInv, CurrentWrite
<1>15. CASE CountSinceXoff
  BY <1>0, <1>15, KeptByCount, SentKept, SlotNames
<1>16. CASE SentImmediate
  BY <1>0, <1>16, KeptBySending, SentKept, SlotNames
<1>17. CASE SentWrite
  <2>0. PICK i \in Irps : i = CurrentWrite
    BY <1>17 DEF SentWrite
  <2>. DEFINE old == slot["write"].owed
              new == slot'["write"].owed
  <2>1. /\ old > 0 /\ new \in 0..(old - 1)
        /\ slot'["write"].irp = i
        /\ SameHolders(i)
        /\ irp'[i].wire = irp[i].wire + (old - new)
        /\ irp'[i].info = IF new = 0 /\ i \in Writes THEN irp[i].length
                          ELSE irp[i].info
        /\ irp'[i].length = irp[i].length
    BY <1>17, <2>0 DEF SentWrite
  <2>2. CurrentWrite # None /\ ~InHand("write")
    BY <1>0, <2>1, HeldSlot, SlotNames DEF CurrentWrite
  <2>3. i \notin Flushes /\ irp[i].wire + old = irp[i].length /\ irp[i].info = 0
    BY <1>0, <2>0, <2>1, <2>2 DEF SentInv
  <2>4. irp[i].wire \in Nat /\ irp[i].length \in Nat /\ old \in Nat
    BY <1>0, RequestTypes, SlotTypes, SlotNames, SerialWriteAssumption
  <2>5. slot'["write"].owed = new
    OBVIOUS
  <2>. HIDE DEF old, new
  <2>6. new > 0 => irp'[i].wire + new = irp'[i].length /\ irp'[i].info = 0
    BY <2>1, <2>3, <2>4
  <2>7. new = 0 /\ i \in Writes =>
            irp'[i].info = irp'[i].wire /\ irp'[i].wire = irp'[i].length
    BY <2>1, <2>3, <2>4
  <2>. QED  BY <2>1, <2>3, <2>5, <2>6, <2>7 DEF SentInv, CurrentWrite
<1>. QED
  BY SlotSteps, <1>1, <1>2, <1>3, <1>4, <1>5, <1>6, <1>7, <1>8, <1>9, <1>10,
     <1>11, <1>12, <1>13, <1>14, <1>15, <1>16, <1>17
     DEF SlotStep

\* Nobody new reports, and the write is left alone;
LEMMA HonestKept ==
    ASSUME IInv, \A d \in Contexts : pc'[d] = "next" => pc[d] = "next",
           SlotKept("write")
    PROVE  HonestCount'
<1>1. ASSUME NEW d \in Contexts, pc[d] = "next"
      PROVE  CurrentWrite # None
  BY <1>1, WriterFacts DEF Writing
<1>. QED
  BY <1>1 DEF IInv, HonestCount, AtPlace, SlotKept, SameProgress, CurrentWrite

\* or nobody is about to report.
LEMMA NobodyReports ==
    ASSUME \A d \in Contexts : pc'[d] # "next"
    PROVE  HonestCount'
  BY DEF HonestCount, AtPlace

\* A write that is through reports what was sent.
LEMMA HonestCountStep == IInv /\ [Next]_vars => HonestCount'
<1>. SUFFICES ASSUME IInv, [Next]_vars PROVE HonestCount'
  OBVIOUS
<1>0. /\ IInv /\ TypeOK /\ KindInv /\ QueueInv /\ HeldInv /\ WriterInv
      /\ InterposerInv /\ RefsMatchHolders /\ SentInv /\ HonestCount
      /\ CounterYields
      /\ \A i \in Irps : RequestOK(i)
  BY DEF IInv, RequestInv
<1>1. CASE Aside
  <2>8. \A d \in Contexts : pc'[d] = "next" => pc[d] = "next"
    BY <1>1 DEF Aside
  <2>9. SlotKept("write")
    BY <1>0, <1>1, KeptByAside, SlotNames
  <2>. QED  BY <1>0, <2>8, <2>9, HonestKept
<1>2. ASSUME NEW c \in Contexts, NEW i \in Irps, StartAtDispatch(c, i)
      PROVE  HonestCount'
  <2>1. /\ CurrentWrite = None
        /\ Moves(c, IF i \in Flushes THEN "pop" ELSE "start")
    BY <1>0, <1>2, StartFacts
  <2>2. \A d \in Contexts : pc[d] # "next"
    BY <1>0, <2>1, WriterFacts DEF Writing
  <2>. QED  BY <2>1, <2>2, NobodyReports DEF Moves
<1>3. ASSUME NEW c \in Contexts, NEW i \in Irps, ImmediateAtDispatch(c, i)
      PROVE  HonestCount'
  <2>1. Moves(c, "istart")
    BY <1>0, <1>3, ImmediateFacts
  <2>8. \A d \in Contexts : pc'[d] = "next" => pc[d] = "next"
    BY <2>1 DEF Moves
  <2>9. SlotKept("write")
    BY <1>0, <1>3, KeptByImmediate, SlotNames
  <2>. QED  BY <1>0, <2>8, <2>9, HonestKept
<1>4. ASSUME NEW c \in Contexts, FinishCancelled(c)
      PROVE  HonestCount'
  <2>0. PICK i \in Irps : i = CurrentWrite
    BY <1>0, <1>4, WorkingWriter, WriterFacts
  <2>00. /\ RequestOK(i) /\ WriterOK(c) /\ CurrentWrite # None /\ Writing(c)
         /\ InHand("write")
    BY <1>0, <1>4, WorkingWriter, WriterFacts
  <2>1. /\ Giving(c) /\ Becomes(i, "cancelled") /\ UNCHANGED slot
        /\ Moves(c, "next")
    BY <1>0, <1>4, <2>0, <2>00, CancelledFacts
  <2>2. Untouched(i)
    BY <2>0, <2>00, <2>1 DEF WriterOK, Giving, AtPlace
  <2>3. /\ irp'[i].status = "cancelled"
        /\ irp'[i].info = 0
        /\ slot'["write"].irp = i
    BY <2>0, <2>1, <2>2 DEF Becomes, Untouched, SameProgress, CurrentWrite
  <2>. QED  BY <2>3 DEF HonestCount, CurrentWrite
<1>5. ASSUME NEW c \in Contexts, GiveWrite(c)
      PROVE  HonestCount'
  <2>0. PICK i \in Irps : i = CurrentWrite
    BY <1>0, <1>5, WorkingWriter, WriterFacts
  <2>00. /\ RequestOK(i) /\ WriterOK(c) /\ CurrentWrite # None /\ Writing(c)
         /\ InHand("write")
    BY <1>0, <1>5, WorkingWriter, WriterFacts
  <2>1. Moves(c, "idle")
    BY <1>0, <1>5, <2>00, GiveFacts
  <2>2. \A d \in Contexts : Writing(d)' => d = c
    BY <1>0, <2>00, <2>1, SoleWriter
  <2>. QED  BY <2>1, <2>2, NobodyReports DEF Moves, Writing
<1>6. ASSUME NEW c \in Contexts, Account(c)
      PROVE  HonestCount'
  <2>0. PICK i \in Irps : i = CurrentWrite
    BY <1>0, <1>6, WorkingWriter, WriterFacts
  <2>00. /\ RequestOK(i) /\ WriterOK(c) /\ CurrentWrite # None /\ Writing(c)
         /\ InHand("write")
    BY <1>0, <1>6, WorkingWriter, WriterFacts
  <2>1. Moves(c, "pop")
    BY <1>0, <1>6, AccountFacts
  <2>2. \A d \in Contexts : Writing(d)' => d = c
    BY <1>0, <2>00, <2>1, SoleWriter
  <2>. QED  BY <2>1, <2>2, NobodyReports DEF Moves, Writing
<1>7. ASSUME NEW c \in Contexts, AccountXoff(c)
      PROVE  HonestCount'
  <2>0. PICK i \in Irps : i = CurrentWrite
    BY <1>0, <1>7, WorkingWriter, WriterFacts
  <2>00. /\ RequestOK(i) /\ WriterOK(c) /\ CurrentWrite # None /\ Writing(c)
         /\ InHand("write")
    BY <1>0, <1>7, WorkingWriter, WriterFacts
  <2>1. PICK p : Moves(c, p) /\ p \in {"pop", "keep"}
    BY <1>0, <1>7, <2>00, AccountXoffFacts
  <2>2. \A d \in Contexts : Writing(d)' => d = c
    BY <1>0, <2>00, <2>1, SoleWriter
  <2>. QED  BY <2>1, <2>2, NobodyReports DEF Moves, Writing
<1>8. ASSUME NEW c \in Contexts, GetNextIrp(c)
      PROVE  HonestCount'
  <2>0. PICK i \in Irps : i = CurrentWrite
    BY <1>0, <1>8, WorkingWriter, WriterFacts
  <2>00. /\ RequestOK(i) /\ WriterOK(c) /\ CurrentWrite # None /\ Writing(c)
         /\ InHand("write")
    BY <1>0, <1>8, WorkingWriter, WriterFacts
  <2>1. PICK p : Moves(c, p) /\ p \in {"pop", "keep", "empty", "start"}
    BY <1>0, <1>8, NextIrpFacts
  <2>2. \A d \in Contexts : Writing(d)' => d = c
    BY <1>0, <2>00, <2>1, SoleWriter
  <2>. QED  BY <2>1, <2>2, NobodyReports DEF Moves, Writing
<1>9. ASSUME NEW c \in Contexts, ProcessEmptyTransmit(c)
      PROVE  HonestCount'
  <2>1. Moves(c, "idle")
    BY <1>0, <1>9, EmptyFacts
  <2>8. \A d \in Contexts : pc'[d] = "next" => pc[d] = "next"
    BY <2>1 DEF Moves
  <2>9. SlotKept("write")
    BY <1>0, <1>9, KeptByEmpty, SlotNames
  <2>. QED  BY <1>0, <2>8, <2>9, HonestKept
<1>10. ASSUME NEW c \in Contexts, FinishImmediateCancelled(c)
      PROVE  HonestCount'
  <2>0. PICK i \in Irps : i = CurrentImmediate
    BY <1>0, <1>10, WorkingInterposer, InterposerFacts
  <2>00. /\ RequestOK(i) /\ InterposerOK(c) /\ CurrentImmediate # None
         /\ Interposing(c) /\ InHand("immediate")
    BY <1>0, <1>10, WorkingInterposer, InterposerFacts
  <2>1. /\ Moves(c, "idle") /\ OnlySlot("immediate")
        /\ OnlyRequest(CurrentImmediate)
    BY <1>0, <1>10, <2>00, ImmediateCancelledFacts DEF Finished, Handed
  <2>2. \A d \in Contexts : pc'[d] = "next" => pc[d] = "next"
    BY <2>1 DEF Moves
  <2>. QED  BY <1>0, <2>00, <2>1, <2>2, KeptByInterposer, HonestKept
<1>11. ASSUME NEW c \in Contexts, GiveImmediate(c)
      PROVE  HonestCount'
  <2>0. PICK i \in Irps : i = CurrentImmediate
    BY <1>0, <1>11, WorkingInterposer, InterposerFacts
  <2>00. /\ RequestOK(i) /\ InterposerOK(c) /\ CurrentImmediate # None
         /\ Interposing(c) /\ InHand("immediate")
    BY <1>0, <1>11, WorkingInterposer, InterposerFacts
  <2>1. /\ Moves(c, "idle") /\ OnlySlot("immediate")
        /\ OnlyRequest(CurrentImmediate)
    BY <1>0, <1>11, <2>00, GiveImmediateFacts DEF Finished, Handed
  <2>2. \A d \in Contexts : pc'[d] = "next" => pc[d] = "next"
    BY <2>1 DEF Moves
  <2>. QED  BY <1>0, <2>00, <2>1, <2>2, KeptByInterposer, HonestKept
<1>12. ASSUME NEW c \in Contexts, GetNextImmediate(c)
      PROVE  HonestCount'
  <2>0. PICK i \in Irps : i = CurrentImmediate
    BY <1>0, <1>12, WorkingInterposer, InterposerFacts
  <2>00. /\ RequestOK(i) /\ InterposerOK(c) /\ CurrentImmediate # None
         /\ Interposing(c) /\ InHand("immediate")
    BY <1>0, <1>12, WorkingInterposer, InterposerFacts
  <2>1. /\ Moves(c, "idle") /\ OnlySlot("immediate")
        /\ OnlyRequest(CurrentImmediate)
    BY <1>0, <1>12, <2>00, NextImmediateFacts DEF Finished, Handed
  <2>2. \A d \in Contexts : pc'[d] = "next" => pc[d] = "next"
    BY <2>1 DEF Moves
  <2>. QED  BY <1>0, <2>00, <2>1, <2>2, KeptByInterposer, HonestKept
<1>13. ASSUME NEW c \in Contexts, NEW s \in Slots, NEW h, NEW st, EndingOf(h,
  st),
           Ending(c, s, h, st)
      PROVE  HonestCount'
  <2>. DEFINE sent == slot[s].sent /\ h # "isr"
              late == slot[s].late /\ h # "timer"
              last == ~sent /\ ~late
  <2>0. PICK i \in Irps : i = slot[s].irp
    BY <1>13 DEF Ending
  <2>1. /\ ~InHand(s)
        /\ AtPlace(c, "idle") \/ (AtPlace(c, "start") /\ s = "xoff")
        /\ OnlyRequest(i) /\ OnlySlot(s)
        /\ h = "isr" => slot[s].sent
        /\ slot'[s].irp = IF last /\ s = "xoff" THEN None ELSE i
        /\ slot'[s].owed = 0
        /\ slot'[s].sent <=> sent
        /\ ~(last /\ s = "xoff") =>
               /\ \A r : r \in irp'[i].refs <=>
                      (r = "isr" /\ sent) \/ (r = "timer" /\ late)
               /\ irp'[i].status = IF last THEN st ELSE irp[i].status
               /\ irp'[i].info =
                      IF i \notin Writes \/ (last /\ st = "cancelled") THEN 0
                      ELSE IF slot[s].owed > 0 THEN AmountSent(i)
                      ELSE irp[i].info
               /\ irp'[i].length = irp[i].length
               /\ irp'[i].wire = irp[i].wire
        /\ Moves(c, IF last /\ s = "write" THEN "next"
                    ELSE IF last /\ s = "immediate" THEN "inext"
                    ELSE IF AtPlace(c, "start") THEN "give" ELSE "idle")
    BY <1>13, <2>0 DEF Ending
  <2>2. sent => slot[s].sent
    OBVIOUS
  <2>. HIDE DEF sent, late, last
  <2>3. None \notin Irps /\ i # None
    BY SerialWriteAssumption
  <2>4. s = "write" => /\ i \notin Flushes
                       /\ irp[i].wire \in Nat /\ irp[i].info \in Nat
                       /\ irp[i].length \in Nat /\ slot[s].owed \in Nat
                       /\ slot[s].owed > 0 => AmountSent(i) = irp[i].wire
                       /\ slot[s].owed = 0 /\ i \in Writes =>
                              irp[i].info = irp[i].wire
                       /\ slot[s].owed = 0 /\ i \in Writes /\ slot[s].sent =>
                              irp[i].wire = irp[i].length
    <3>. SUFFICES ASSUME s = "write"
                  PROVE  /\ i \notin Flushes
                         /\ irp[i].wire \in Nat /\ irp[i].info \in Nat
                         /\ irp[i].length \in Nat /\ slot[s].owed \in Nat
                         /\ slot[s].owed > 0 => AmountSent(i) = irp[i].wire
                         /\ slot[s].owed = 0 /\ i \in Writes =>
                                irp[i].info = irp[i].wire
                         /\ slot[s].owed = 0 /\ i \in Writes /\ slot[s].sent =>
                                irp[i].wire = irp[i].length
      OBVIOUS
    <3>1. /\ i \notin Flushes
          /\ slot["write"].owed > 0 =>
                 irp[i].wire + slot["write"].owed = irp[i].length
          /\ slot["write"].owed = 0 /\ i \in Writes =>
                 /\ irp[i].info = irp[i].wire
                 /\ "isr" \in irp[i].refs => irp[i].wire = irp[i].length
      BY <1>0, <2>0, <2>1, <2>3 DEF SentInv, CurrentWrite
    <3>2. /\ irp[i].wire \in Nat /\ irp[i].info \in Nat /\ irp[i].length \in Nat
          /\ slot["write"].owed \in Nat
      BY <1>0, RequestTypes, SlotTypes, SlotNames, SerialWriteAssumption
    <3>3. slot["write"].sent => "isr" \in irp[i].refs
      BY <1>0, <2>0, <2>1, <2>3, HeldRefs, SlotNames
    <3>. QED  BY <3>1, <3>2, <3>3 DEF AmountSent
  <2>5. slot[s].sent => slot[s].owed = 0
    <3>1. slot[s].owed \in Nat
      BY <1>0, SlotTypes, SerialWriteAssumption
    <3>. QED  BY <1>0, <2>0, <2>1, <2>3, <3>1, HeldRefs
  <2>6. CASE s = "write" /\ last
    <3>1. \A d \in Contexts : Writing(d)' => d = c
      BY <1>0, <2>1, <2>6, SoleWriter
    <3>2. /\ slot'["write"].irp = i
          /\ irp'[i].wire = irp[i].wire /\ irp'[i].length = irp[i].length
          /\ irp'[i].status = st
          /\ i \in Writes => irp'[i].info = IF st = "cancelled" THEN 0
                                            ELSE IF slot["write"].owed > 0
                                            THEN AmountSent(i) ELSE irp[i].info
      BY <2>1, <2>6
    <3>3. i \in Writes /\ st = "cancelled" => irp'[i].info = 0
      BY <3>2
    <3>4. i \in Writes /\ st # "cancelled" => irp'[i].info = irp[i].wire
      BY <2>4, <2>6, <3>2
    <3>5. i \in Writes /\ st = "success" => irp[i].wire = irp[i].length
      <4>1. st = "success" => h = "isr"
        BY <1>13, <2>1, <2>6 DEF EndingOf, Ending
      <4>. QED  BY <2>1, <2>4, <2>5, <2>6, <4>1
    <3>6. st \in {"success", "timeout", "cancelled"}
      BY <1>13 DEF EndingOf
    <3>. QED
      BY <3>2, <3>3, <3>4, <3>5, <3>6 DEF HonestCount, CurrentWrite
  <2>7. CASE s = "write" /\ ~last
    <3>1. \A d \in Contexts : pc'[d] # "next"
      <4>1. \A d \in Contexts : Writing(d)' => d = c
        BY <1>0, <2>1, <2>7, SoleWriter
      <4>2. pc'[c] # "next"
        BY <2>1, <2>7 DEF Moves
      <4>. QED  BY <4>1, <4>2 DEF Writing
    <3>. QED  BY <3>1, NobodyReports
  <2>8. CASE s # "write"
    <3>1. \A d \in Contexts : pc'[d] = "next" => pc[d] = "next"
      BY <2>1, <2>8 DEF Moves
    <3>2. CASE SlotKept("write")
      BY <1>0, <3>1, <3>2, HonestKept
    <3>3. CASE InHand("write") /\ ~SlotKept("write")
      <4>1. slot["xoff"].irp = slot["write"].irp
        <5>1. s = "xoff" \/ s = "immediate"
          BY <2>8 DEF Slots
        <5>2. slot'["write"] = slot["write"]
          BY <2>1, <2>8, SlotNames DEF OnlySlot
        <5>3. InHand("write")' <=> InHand("write")
          BY <1>0, <1>13, <2>8, <3>3, KeptByEnding, SlotNames
        <5>4. slot["write"].irp = i
          BY <1>0, <2>1, <3>3, <5>2, <5>3, KeptBy, SlotNames
        <5>5. s # "immediate"
          BY <1>0, <2>0, <2>3, <5>4, WriteAndImmediate DEF CurrentWrite,
             CurrentImmediate
        <5>. QED  BY <2>0, <5>1, <5>4, <5>5
      <4>2. \A d \in Contexts : pc[d] # "next"
        <5>. SUFFICES ASSUME NEW d \in Contexts, pc[d] = "next" PROVE FALSE
          OBVIOUS
        <5>1. WriterOK(d)
          BY <1>0, WriterFacts DEF Writing
        <5>. QED  BY <4>1, <5>1 DEF WriterOK, CurrentWrite
      <4>. QED  BY <3>1, <4>2, NobodyReports
    <3>. QED  BY <1>0, <1>13, <2>8, <3>2, <3>3, KeptByEnding, SlotNames
  <2>. QED  BY <2>6, <2>7, <2>8
<1>14. ASSUME NEW s \in Slots, Expire(s)
      PROVE  HonestCount'
  <2>1. irp' = irp /\ slot'["write"].irp = slot["write"].irp /\ pc' = pc
    BY <1>0, <1>14, ExpireFacts, SlotNames DEF OnlySlot
  <2>. QED  BY <1>0, <2>1 DEF HonestCount, CurrentWrite, AtPlace
<1>15. CASE CountSinceXoff
  <2>1. pc' = pc
    BY <1>0, <1>15, CountFacts
  <2>8. \A d \in Contexts : pc'[d] = "next" => pc[d] = "next"
    BY <2>1
  <2>9. SlotKept("write")
    BY <1>0, <1>15, KeptByCount, SlotNames
  <2>. QED  BY <1>0, <2>8, <2>9, HonestKept
<1>16. CASE SentImmediate
  <2>1. pc' = pc
    BY <1>16 DEF SentImmediate
  <2>8. \A d \in Contexts : pc'[d] = "next" => pc[d] = "next"
    BY <2>1
  <2>9. SlotKept("write")
    BY <1>0, <1>16, KeptBySending, SlotNames
  <2>. QED  BY <1>0, <2>8, <2>9, HonestKept
<1>17. CASE SentWrite
  <2>1. slot["write"].owed > 0 /\ pc' = pc
    BY <1>17 DEF SentWrite
  <2>2. ~InHand("write")
    BY <1>0, <2>1, HeldSlot, SlotNames
  <2>3. \A d \in Contexts : pc'[d] # "next"
    BY <2>1, <2>2 DEF InHand, Writing
  <2>. QED  BY <2>3, NobodyReports
<1>. QED
  BY SlotSteps, <1>1, <1>2, <1>3, <1>4, <1>5, <1>6, <1>7, <1>8, <1>9, <1>10,
     <1>11, <1>12, <1>13, <1>14, <1>15, <1>16, <1>17
     DEF SlotStep

\* The counter and the write go on only if they went on before.
LEMMA YieldsKept ==
    ASSUME TypeOK, CounterYields,
      slot["xoff"].owed = 0 => ~(slot'["xoff"].owed > 0),
           slot["write"].owed = 0 => slot'["write"].owed = 0
    PROVE  CounterYields'
<1>1. slot["xoff"].owed \in Nat
  BY SlotTypes, SlotNames, SerialWriteAssumption
<1>. QED  BY <1>1 DEF CounterYields

\* An XOFF counter never counts while the next write is being sent.
LEMMA CounterYieldsStep == IInv /\ [Next]_vars => CounterYields'
<1>. SUFFICES ASSUME IInv, [Next]_vars PROVE CounterYields'
  OBVIOUS
<1>0. /\ IInv /\ TypeOK /\ KindInv /\ QueueInv /\ HeldInv /\ WriterInv
      /\ InterposerInv /\ RefsMatchHolders /\ SentInv /\ HonestCount
      /\ CounterYields
      /\ \A i \in Irps : RequestOK(i)
  BY DEF IInv, RequestInv
<1>1. CASE Aside
  <2>1. SlotKept("write") /\ SlotKept("xoff")
    BY <1>0, <1>1, KeptByAside, SlotNames
  <2>. QED  BY <1>0, <2>1, YieldsKept DEF SlotKept
<1>2. ASSUME NEW c \in Contexts, NEW i \in Irps, StartAtDispatch(c, i)
      PROVE  CounterYields'
  <2>1. /\ slot'["write"].owed = slot["write"].owed
        /\ slot'["xoff"] = slot["xoff"]
    BY <1>0, <1>2, StartFacts, SlotNames DEF OnlySlot
  <2>. QED  BY <1>0, <2>1, YieldsKept
<1>3. ASSUME NEW c \in Contexts, NEW i \in Irps, ImmediateAtDispatch(c, i)
      PROVE  CounterYields'
  <2>1. SlotKept("write") /\ SlotKept("xoff")
    BY <1>0, <1>3, KeptByImmediate
  <2>. QED  BY <1>0, <2>1, YieldsKept DEF SlotKept
<1>4. ASSUME NEW c \in Contexts, FinishCancelled(c)
      PROVE  CounterYields'
  <2>0. PICK i \in Irps : i = CurrentWrite
    BY <1>0, <1>4, WorkingWriter, WriterFacts
  <2>00. /\ RequestOK(i) /\ WriterOK(c) /\ CurrentWrite # None /\ Writing(c)
         /\ InHand("write")
    BY <1>0, <1>4, WorkingWriter, WriterFacts
  <2>1. slot' = slot
    BY <1>0, <1>4, <2>00, CancelledFacts
  <2>. QED  BY <1>0, <2>1, YieldsKept
<1>5. ASSUME NEW c \in Contexts, GiveWrite(c)
      PROVE  CounterYields'
  <2>0. PICK i \in Irps : i = CurrentWrite
    BY <1>0, <1>5, WorkingWriter, WriterFacts
  <2>00. /\ RequestOK(i) /\ WriterOK(c) /\ CurrentWrite # None /\ Writing(c)
         /\ InHand("write")
    BY <1>0, <1>5, WorkingWriter, WriterFacts
  <2>1. Giving(c) /\ OnlySlot("write")
    BY <1>0, <1>5, <2>00, GiveFacts DEF Handed
  <2>2. slot["xoff"].owed = 0
    <3>1. CASE AtPlace(c, "give")
      BY <2>00, <3>1 DEF WriterOK
    <3>2. CASE slot["xoff"].irp = None
      BY <1>0, <3>2, InHandFacts, SlotNames
    <3>. QED  BY <2>1, <3>1, <3>2 DEF Giving
  <2>. QED  BY <2>1, <2>2, SlotNames DEF CounterYields, OnlySlot
<1>6. ASSUME NEW c \in Contexts, Account(c)
      PROVE  CounterYields'
  <2>1. SlotKept("write") /\ SlotKept("xoff")
    BY <1>0, <1>6, KeptByAccount, SlotNames
  <2>. QED  BY <1>0, <2>1, YieldsKept DEF SlotKept
<1>7. ASSUME NEW c \in Contexts, AccountXoff(c)
      PROVE  CounterYields'
  <2>0. PICK i \in Irps : i = CurrentWrite
    BY <1>0, <1>7, WorkingWriter, WriterFacts
  <2>00. /\ RequestOK(i) /\ WriterOK(c) /\ CurrentWrite # None /\ Writing(c)
         /\ InHand("write")
    BY <1>0, <1>7, WorkingWriter, WriterFacts
  <2>1. UNCHANGED slot \/ OnlySlot("xoff")
    BY <1>0, <1>7, <2>00, AccountXoffFacts DEF Handed
  <2>2. slot["write"].owed = 0
    BY <1>0, <2>00, InHandFacts, SlotNames
  <2>. QED  BY <2>1, <2>2, SlotNames DEF CounterYields, OnlySlot
<1>8. ASSUME NEW c \in Contexts, GetNextIrp(c)
      PROVE  CounterYields'
  <2>1. /\ slot'["write"].owed = slot["write"].owed
        /\ slot'["xoff"] = slot["xoff"]
    BY <1>0, <1>8, NextIrpFacts, SlotNames DEF OnlySlot
  <2>. QED  BY <1>0, <2>1, YieldsKept
<1>9. ASSUME NEW c \in Contexts, ProcessEmptyTransmit(c)
      PROVE  CounterYields'
  <2>1. SlotKept("write") /\ SlotKept("xoff")
    BY <1>0, <1>9, KeptByEmpty, SlotNames
  <2>. QED  BY <1>0, <2>1, YieldsKept DEF SlotKept
<1>10. ASSUME NEW c \in Contexts, FinishImmediateCancelled(c)
      PROVE  CounterYields'
  <2>0. PICK i \in Irps : i = CurrentImmediate
    BY <1>0, <1>10, WorkingInterposer, InterposerFacts
  <2>00. /\ RequestOK(i) /\ InterposerOK(c) /\ CurrentImmediate # None
         /\ Interposing(c) /\ InHand("immediate")
    BY <1>0, <1>10, WorkingInterposer, InterposerFacts
  <2>1. slot'["write"] = slot["write"] /\ slot'["xoff"] = slot["xoff"]
    BY <1>0, <1>10, <2>00, ImmediateCancelledFacts, SlotNames DEF Handed,
       OnlySlot
  <2>. QED  BY <1>0, <2>1, YieldsKept
<1>11. ASSUME NEW c \in Contexts, GiveImmediate(c)
      PROVE  CounterYields'
  <2>0. PICK i \in Irps : i = CurrentImmediate
    BY <1>0, <1>11, WorkingInterposer, InterposerFacts
  <2>00. /\ RequestOK(i) /\ InterposerOK(c) /\ CurrentImmediate # None
         /\ Interposing(c) /\ InHand("immediate")
    BY <1>0, <1>11, WorkingInterposer, InterposerFacts
  <2>1. slot'["write"] = slot["write"] /\ slot'["xoff"] = slot["xoff"]
    BY <1>0, <1>11, <2>00, GiveImmediateFacts, SlotNames DEF Handed, OnlySlot
  <2>. QED  BY <1>0, <2>1, YieldsKept
<1>12. ASSUME NEW c \in Contexts, GetNextImmediate(c)
      PROVE  CounterYields'
  <2>0. PICK i \in Irps : i = CurrentImmediate
    BY <1>0, <1>12, WorkingInterposer, InterposerFacts
  <2>00. /\ RequestOK(i) /\ InterposerOK(c) /\ CurrentImmediate # None
         /\ Interposing(c) /\ InHand("immediate")
    BY <1>0, <1>12, WorkingInterposer, InterposerFacts
  <2>1. slot'["write"] = slot["write"] /\ slot'["xoff"] = slot["xoff"]
    BY <1>0, <1>12, <2>00, NextImmediateFacts, SlotNames DEF Handed, OnlySlot
  <2>. QED  BY <1>0, <2>1, YieldsKept
<1>13. ASSUME NEW c \in Contexts, NEW s \in Slots, NEW h, NEW st, EndingOf(h,
  st),
           Ending(c, s, h, st)
      PROVE  CounterYields'
  <2>1. OnlySlot(s) /\ slot'[s].owed = 0
    BY <1>13 DEF Ending
  <2>2. slot["xoff"].owed = 0 => slot'["xoff"].owed = 0
    BY <2>1, SlotNames DEF OnlySlot
  <2>3. slot["write"].owed = 0 => slot'["write"].owed = 0
    BY <2>1, SlotNames DEF OnlySlot
  <2>. QED  BY <1>0, <2>2, <2>3, YieldsKept
<1>14. ASSUME NEW s \in Slots, Expire(s)
      PROVE  CounterYields'
  <2>1. OnlySlot(s) /\ slot'[s].owed = slot[s].owed
    BY <1>0, <1>14, ExpireFacts
  <2>2. /\ slot'["xoff"].owed = slot["xoff"].owed
        /\ slot'["write"].owed = slot["write"].owed
    BY <2>1, SlotNames DEF OnlySlot
  <2>. QED  BY <1>0, <2>2, YieldsKept
<1>15. CASE CountSinceXoff
  <2>1. slot["xoff"].owed > 0 /\ slot'["write"] = slot["write"]
    BY <1>0, <1>15, CountFacts, SlotNames DEF OnlySlot
  <2>. QED  BY <1>0, <2>1, YieldsKept
<1>16. CASE SentImmediate
  <2>1. SlotKept("write") /\ SlotKept("xoff")
    BY <1>0, <1>16, KeptBySending
  <2>. QED  BY <1>0, <2>1, YieldsKept DEF SlotKept
<1>17. CASE SentWrite
  <2>1. slot["write"].owed > 0 /\ slot'["xoff"] = slot["xoff"]
    BY <1>17, SlotNames DEF SentWrite, OnlySlot
  <2>. QED  BY <1>0, <2>1, YieldsKept
<1>. QED
  BY SlotSteps, <1>1, <1>2, <1>3, <1>4, <1>5, <1>6, <1>7, <1>8, <1>9, <1>10,
     <1>11, <1>12, <1>13, <1>14, <1>15, <1>16, <1>17
     DEF SlotStep

\* Cancellation is not missed by a request that keeps both fields, or has no
\* cancel routine.
LEMMA NotMissed ==
    ASSUME CancelNotMissed, NEW i, OnlyRequest(i),
           i \in Irps => ~(irp'[i].cancel /\ irp'[i].routine # "none")
    PROVE  CancelNotMissed'
  BY DEF CancelNotMissed, OnlyRequest

\* Cancellation is never missed.
LEMMA CancelNotMissedStep == IInv /\ [Next]_vars => CancelNotMissed'
<1>. SUFFICES ASSUME IInv, [Next]_vars PROVE CancelNotMissed'
  OBVIOUS
<1>0. /\ IInv /\ TypeOK /\ KindInv /\ QueueInv /\ HeldInv /\ WriterInv
      /\ InterposerInv /\ RefsMatchHolders /\ SentInv /\ HonestCount
      /\ CounterYields /\ CancelNotMissed
      /\ \A i \in Irps : RequestOK(i)
  BY DEF IInv, RequestInv
<1>1. ASSUME NEW i \in Irps, RefuseAtDispatch(i)
      PROVE  CancelNotMissed'
  <2>1. OnlyRequest(i) /\ irp'[i].routine = "none"
    BY <1>0, <1>1, RefuseFacts DEF Finished
  <2>. QED  BY <1>0, <2>1, NotMissed
<1>2. ASSUME NEW i \in Irps, QueueAtDispatch(i)
      PROVE  CancelNotMissed'
  <2>1. OnlyRequest(i) /\ ~irp'[i].cancel
    BY <1>0, <1>2, QueueFacts DEF Accepted
  <2>. QED  BY <1>0, <2>1, NotMissed
<1>3. ASSUME NEW i \in Irps, CancelledAtDispatch(i)
      PROVE  CancelNotMissed'
  <2>1. OnlyRequest(i) /\ irp'[i].routine = "none"
    BY <1>0, <1>3, CancelledAtDispatchFacts DEF Finished
  <2>. QED  BY <1>0, <2>1, NotMissed
<1>4. ASSUME NEW i \in Irps, CancelQueuedIrp(i)
      PROVE  CancelNotMissed'
  <2>1. OnlyRequest(i) /\ irp'[i].routine = "none"
    BY <1>0, <1>4, WithdrawFacts DEF Finished
  <2>. QED  BY <1>0, <2>1, NotMissed
<1>5. ASSUME NEW i \in Irps, FlagCancel(i)
      PROVE  CancelNotMissed'
  <2>1. OnlyRequest(i) /\ irp'[i].routine = "none"
    BY <1>0, <1>5, FlagFacts DEF SameHolders
  <2>. QED  BY <1>0, <2>1, NotMissed
<1>6. ASSUME NEW c \in Contexts, NEW i \in Irps, StartAtDispatch(c, i)
      PROVE  CancelNotMissed'
  <2>1. /\ OnlyRequest(i) /\ irp'[i].routine = irp[i].routine
        /\ irp'[i].cancel = irp[i].cancel
    BY <1>0, <1>6, StartFacts DEF Accepted
  <2>. QED  BY <1>0, <2>1, NotMissed DEF CancelNotMissed
<1>7. ASSUME NEW c \in Contexts, NEW i \in Irps, ImmediateAtDispatch(c, i)
      PROVE  CancelNotMissed'
  <2>1. /\ OnlyRequest(i) /\ irp'[i].routine = irp[i].routine
        /\ irp'[i].cancel = irp[i].cancel
    BY <1>0, <1>7, ImmediateFacts DEF Accepted
  <2>. QED  BY <1>0, <2>1, NotMissed DEF CancelNotMissed
<1>8. ASSUME NEW c \in Contexts, FinishCancelled(c)
      PROVE  CancelNotMissed'
  <2>0. PICK i \in Irps : i = CurrentWrite
    BY <1>0, <1>8, WorkingWriter, WriterFacts
  <2>00. /\ RequestOK(i) /\ WriterOK(c) /\ CurrentWrite # None /\ Writing(c)
         /\ InHand("write")
    BY <1>0, <1>8, WorkingWriter, WriterFacts
  <2>1. OnlyRequest(i) /\ irp'[i].routine = irp[i].routine
        /\ irp'[i].cancel = irp[i].cancel
    BY <1>0, <1>8, <2>0, <2>00, CancelledFacts DEF Becomes, SameHolders
  <2>. QED  BY <1>0, <2>1, NotMissed DEF CancelNotMissed
<1>9. ASSUME NEW c \in Contexts, GiveWrite(c)
      PROVE  CancelNotMissed'
  <2>0. PICK i \in Irps : i = CurrentWrite
    BY <1>0, <1>9, WorkingWriter, WriterFacts
  <2>00. /\ RequestOK(i) /\ WriterOK(c) /\ CurrentWrite # None /\ Writing(c)
         /\ InHand("write")
    BY <1>0, <1>9, WorkingWriter, WriterFacts
  <2>1. OnlyRequest(i) /\ ~irp'[i].cancel
    BY <1>0, <1>9, <2>0, <2>00, GiveFacts DEF Handed
  <2>. QED  BY <1>0, <2>1, NotMissed
<1>10. ASSUME NEW c \in Contexts, Account(c)
      PROVE  CancelNotMissed'
  <2>1. irp' = irp
    BY <1>0, <1>10, AccountFacts
  <2>. QED  BY <1>0, <2>1 DEF CancelNotMissed
<1>11. ASSUME NEW c \in Contexts, AccountXoff(c)
      PROVE  CancelNotMissed'
  <2>0. PICK i \in Irps : i = CurrentWrite
    BY <1>0, <1>11, WorkingWriter, WriterFacts
  <2>00. /\ RequestOK(i) /\ WriterOK(c) /\ CurrentWrite # None /\ Writing(c)
         /\ InHand("write")
    BY <1>0, <1>11, WorkingWriter, WriterFacts
  <2>1. /\ OnlyRequest(i) /\ irp'[i].cancel = irp[i].cancel
        /\ irp'[i].routine = irp[i].routine \/ ~irp[i].cancel
    BY <1>0, <1>11, <2>0, <2>00, AccountXoffFacts DEF Becomes, Handed,
       SameHolders
  <2>. QED  BY <1>0, <2>1, NotMissed DEF CancelNotMissed
<1>12. ASSUME NEW c \in Contexts, GetNextIrp(c)
      PROVE  CancelNotMissed'
  <2>0. PICK i \in Irps : i = CurrentWrite
    BY <1>0, <1>12, WorkingWriter, WriterFacts
  <2>00. /\ RequestOK(i) /\ WriterOK(c) /\ CurrentWrite # None /\ Writing(c)
         /\ InHand("write")
    BY <1>0, <1>12, WorkingWriter, WriterFacts
  <2>1. \A j \in Irps : \/ irp'[j] = Ended
                        \/ irp'[j] = irp[j]
                        \/ irp'[j] = [irp[j] EXCEPT !.routine = "none"]
    BY <1>0, <1>12, NextIrpFacts
  <2>2. \A j \in Irps : irp'[j].routine = "none" \/ irp'[j] = irp[j]
    <3>1. ASSUME NEW j \in Irps, irp'[j] = [irp[j] EXCEPT !.routine = "none"]
          PROVE  irp'[j].routine = "none"
      BY <1>0, <3>1 DEF TypeOK, Irp
    <3>. QED  BY <2>1, <3>1, NewFields
  <2>. QED  BY <1>0, <2>2 DEF CancelNotMissed
<1>13. ASSUME NEW c \in Contexts, ProcessEmptyTransmit(c)
      PROVE  CancelNotMissed'
  <2>1. irp' = irp
    BY <1>0, <1>13, EmptyFacts
  <2>. QED  BY <1>0, <2>1 DEF CancelNotMissed
<1>14. ASSUME NEW c \in Contexts, FinishImmediateCancelled(c)
      PROVE  CancelNotMissed'
  <2>0. PICK i \in Irps : i = CurrentImmediate
    BY <1>0, <1>14, WorkingInterposer, InterposerFacts
  <2>00. /\ RequestOK(i) /\ InterposerOK(c) /\ CurrentImmediate # None
         /\ Interposing(c) /\ InHand("immediate")
    BY <1>0, <1>14, WorkingInterposer, InterposerFacts
  <2>1. OnlyRequest(i) /\ irp'[i].routine = "none"
    BY <1>0, <1>14, <2>0, <2>00, ImmediateCancelledFacts DEF Finished
  <2>. QED  BY <1>0, <2>1, NotMissed
<1>15. ASSUME NEW c \in Contexts, GiveImmediate(c)
      PROVE  CancelNotMissed'
  <2>0. PICK i \in Irps : i = CurrentImmediate
    BY <1>0, <1>15, WorkingInterposer, InterposerFacts
  <2>00. /\ RequestOK(i) /\ InterposerOK(c) /\ CurrentImmediate # None
         /\ Interposing(c) /\ InHand("immediate")
    BY <1>0, <1>15, WorkingInterposer, InterposerFacts
  <2>1. OnlyRequest(i) /\ ~irp'[i].cancel
    BY <1>0, <1>15, <2>0, <2>00, GiveImmediateFacts DEF Handed
  <2>. QED  BY <1>0, <2>1, NotMissed
<1>16. ASSUME NEW c \in Contexts, GetNextImmediate(c)
      PROVE  CancelNotMissed'
  <2>0. PICK i \in Irps : i = CurrentImmediate
    BY <1>0, <1>16, WorkingInterposer, InterposerFacts
  <2>00. /\ RequestOK(i) /\ InterposerOK(c) /\ CurrentImmediate # None
         /\ Interposing(c) /\ InHand("immediate")
    BY <1>0, <1>16, WorkingInterposer, InterposerFacts
  <2>1. OnlyRequest(i) /\ irp'[i].routine = "none"
    BY <1>0, <1>16, <2>0, <2>00, NextImmediateFacts DEF Finished
  <2>. QED  BY <1>0, <2>1, NotMissed
<1>17. ASSUME NEW c \in Contexts, NEW s \in Slots, NEW h, NEW st, EndingOf(h,
  st),
           Ending(c, s, h, st)
      PROVE  CancelNotMissed'
  <2>0. PICK i \in Irps : i = slot[s].irp
    BY <1>17 DEF Ending
  <2>1. OnlyRequest(i) /\ irp'[i].routine = "none"
    BY <1>17, <2>0 DEF Ending, Finished
  <2>. QED  BY <1>0, <2>1, NotMissed
<1>18. ASSUME NEW s \in Slots, Expire(s)
      PROVE  CancelNotMissed'
  <2>1. irp' = irp
    BY <1>0, <1>18, ExpireFacts
  <2>. QED  BY <1>0, <2>1 DEF CancelNotMissed
<1>19. CASE CountSinceXoff
  <2>1. irp' = irp
    BY <1>0, <1>19, CountFacts
  <2>. QED  BY <1>0, <2>1 DEF CancelNotMissed
<1>20. CASE SentImmediate
  <2>0. PICK i \in Irps : i = CurrentImmediate
    BY <1>20 DEF SentImmediate
  <2>1. /\ OnlyRequest(i) /\ irp'[i].routine = irp[i].routine
        /\ irp'[i].cancel = irp[i].cancel
    BY <1>20, <2>0 DEF SentImmediate, SameHolders
  <2>. QED  BY <1>0, <2>1, NotMissed DEF CancelNotMissed
<1>21. CASE SentWrite
  <2>0. PICK i \in Irps : i = CurrentWrite
    BY <1>21 DEF SentWrite
  <2>1. /\ OnlyRequest(i) /\ irp'[i].routine = irp[i].routine
        /\ irp'[i].cancel = irp[i].cancel
    BY <1>21, <2>0 DEF SentWrite, SameHolders
  <2>. QED  BY <1>0, <2>1, NotMissed DEF CancelNotMissed
<1>22. CASE Outside
  <2>1. irp' = irp
    BY <1>22 DEF Outside
  <2>. QED  BY <1>0, <2>1 DEF CancelNotMissed
<1>. QED
  BY StepCases, <1>1, <1>2, <1>3, <1>4, <1>5, <1>6, <1>7, <1>8, <1>9, <1>10,
     <1>11, <1>12, <1>13, <1>14, <1>15, <1>16, <1>17, <1>18, <1>19, <1>20,
     <1>21, <1>22
     DEF NormalStep

-----------------------------------------------------------------------------
(* The UART. *)

\* Nothing more to send, and nothing new of the flow control or the UART.
LineKept ==
    /\ UNCHANGED <<held, holdingEmpty, uart, stranded>>
    /\ announced \/ emptied => announced' \/ emptied'
    /\ slot["write"].owed = 0 => slot'["write"].owed = 0
    /\ slot["immediate"].owed = 0 => slot'["immediate"].owed = 0

\* A step that leaves the line alone, or only holds it, wakes nobody in vain.
LEMMA QuietLine ==
    ASSUME TypeOK, UartInv, TransmitNeverStalls, LineKept
    PROVE  UartInv' /\ TransmitNeverStalls'
<1>1. slot["write"].owed \in Nat /\ slot["immediate"].owed \in Nat
  BY SlotTypes, SlotNames, SerialWriteAssumption
<1>2. Work2Do' => Work2Do
  BY <1>1 DEF LineKept, Work2Do
<1>. QED  BY <1>2 DEF LineKept, UartInv, TransmitNeverStalls

LineOK == UartInv /\ TransmitNeverStalls

\* When the ISR has something to send and nothing holds it, it sends.
LEMMA SendingMoves ==
    ASSUME TypeOK, NEW h, Transmit(h)
    PROVE  LineOK'
<1>1. emptied' /\ (uart' = "idle" => holdingEmpty')
  BY DEF Transmit
<1>2. CASE uart' # "idle"
  BY <1>1, <1>2 DEF UartInv, TransmitNeverStalls, LineOK
<1>3. CASE uart' = "idle"
  <2>1. /\ ~SendsFlowChar(h) /\ ~SendsImmediate(h) /\ ~SendsWrite(h)
        /\ held' = h /\ slot' = slot
    BY <1>3 DEF Transmit
  <2>2. held' = {} => ~Work2Do
    BY <2>1 DEF Work2Do, SendsImmediate, SendsWrite
  <2>3. Work2Do' <=> Work2Do
    BY <2>1 DEF Work2Do
  <2>. QED  BY <1>1, <2>2, <2>3 DEF UartInv, TransmitNeverStalls, LineOK
<1>. QED  BY <1>2, <1>3

\* With something to send and nothing that holds it the UART is awake.
LEMMA LineStep == IInv /\ [Next]_vars => LineOK'
<1>. SUFFICES ASSUME IInv, [Next]_vars PROVE LineOK'
  OBVIOUS
<1>0. /\ IInv /\ TypeOK /\ KindInv /\ QueueInv /\ HeldInv /\ WriterInv
      /\ InterposerInv /\ RefsMatchHolders /\ UartInv
      /\ TransmitNeverStalls /\ EmptyInv
      /\ \A i \in Irps : RequestOK(i)
  BY DEF IInv, RequestInv
<1>1. ASSUME NEW i \in Irps, RefuseAtDispatch(i)
      PROVE  LineOK'
  <2>1. UNCHANGED uartVars /\ slot' = slot
    BY <1>0, <1>1, RefuseFacts
  <2>2. LineKept
    BY <2>1, SlotNames DEF LineKept, OnlySlot, uartVars
  <2>. QED  BY <1>0, <2>2, QuietLine DEF LineOK
<1>2. ASSUME NEW i \in Irps, QueueAtDispatch(i)
      PROVE  LineOK'
  <2>1. UNCHANGED uartVars /\ slot' = slot
    BY <1>0, <1>2, QueueFacts
  <2>2. LineKept
    BY <2>1, SlotNames DEF LineKept, OnlySlot, uartVars
  <2>. QED  BY <1>0, <2>2, QuietLine DEF LineOK
<1>3. ASSUME NEW i \in Irps, CancelledAtDispatch(i)
      PROVE  LineOK'
  <2>1. UNCHANGED uartVars /\ slot' = slot
    BY <1>0, <1>3, CancelledAtDispatchFacts
  <2>2. LineKept
    BY <2>1, SlotNames DEF LineKept, OnlySlot, uartVars
  <2>. QED  BY <1>0, <2>2, QuietLine DEF LineOK
<1>4. ASSUME NEW i \in Irps, CancelQueuedIrp(i)
      PROVE  LineOK'
  <2>1. UNCHANGED uartVars /\ slot' = slot
    BY <1>0, <1>4, WithdrawFacts
  <2>2. LineKept
    BY <2>1, SlotNames DEF LineKept, OnlySlot, uartVars
  <2>. QED  BY <1>0, <2>2, QuietLine DEF LineOK
<1>5. ASSUME NEW i \in Irps, FlagCancel(i)
      PROVE  LineOK'
  <2>1. UNCHANGED uartVars /\ slot' = slot
    BY <1>0, <1>5, FlagFacts
  <2>2. LineKept
    BY <2>1, SlotNames DEF LineKept, OnlySlot, uartVars
  <2>. QED  BY <1>0, <2>2, QuietLine DEF LineOK
<1>6. ASSUME NEW c \in Contexts, NEW i \in Irps, StartAtDispatch(c, i)
      PROVE  LineOK'
  <2>1. UNCHANGED uartVars /\ OnlySlot("write")
        /\ slot'["write"].owed = slot["write"].owed
    BY <1>0, <1>6, StartFacts
  <2>2. LineKept
    BY <2>1, SlotNames DEF LineKept, OnlySlot, uartVars
  <2>. QED  BY <1>0, <2>2, QuietLine DEF LineOK
<1>7. ASSUME NEW c \in Contexts, NEW i \in Irps, ImmediateAtDispatch(c, i)
      PROVE  LineOK'
  <2>1. UNCHANGED uartVars /\ OnlySlot("immediate")
        /\ slot'["immediate"].owed = slot["immediate"].owed
    BY <1>0, <1>7, ImmediateFacts
  <2>2. LineKept
    BY <2>1, SlotNames DEF LineKept, OnlySlot, uartVars
  <2>. QED  BY <1>0, <2>2, QuietLine DEF LineOK
<1>8. ASSUME NEW c \in Contexts, FinishCancelled(c)
      PROVE  LineOK'
  <2>0. PICK i \in Irps : i = CurrentWrite
    BY <1>0, <1>8, WorkingWriter, WriterFacts
  <2>00. /\ RequestOK(i) /\ WriterOK(c) /\ CurrentWrite # None /\ Writing(c)
         /\ InHand("write")
    BY <1>0, <1>8, WorkingWriter, WriterFacts
  <2>1. UNCHANGED uartVars /\ slot' = slot
    BY <1>0, <1>8, <2>00, CancelledFacts
  <2>2. LineKept
    BY <2>1, SlotNames DEF LineKept, OnlySlot, uartVars
  <2>. QED  BY <1>0, <2>2, QuietLine DEF LineOK
<1>9. ASSUME NEW c \in Contexts, GiveWrite(c)
      PROVE  LineOK'
  <2>0. PICK i \in Irps : i = CurrentWrite
    BY <1>0, <1>9, WorkingWriter, WriterFacts
  <2>00. /\ RequestOK(i) /\ WriterOK(c) /\ CurrentWrite # None /\ Writing(c)
         /\ InHand("write")
    BY <1>0, <1>9, WorkingWriter, WriterFacts
  <2>1. /\ OnlySlot("write") /\ Tickle(slot["immediate"].owed = 0)
        /\ UNCHANGED <<held, holdingEmpty, emptied, announced>>
    BY <1>0, <1>9, <2>00, GiveFacts DEF Handed
  <2>2. slot'["immediate"].owed = slot["immediate"].owed
    BY <2>1, SlotNames DEF OnlySlot
  <2>3. slot["immediate"].owed \in Nat
    BY <1>0, SlotTypes, SlotNames, SerialWriteAssumption
  <2>4. CASE slot["immediate"].owed = 0
    BY <1>0, <2>1, <2>4 DEF Tickle, Wake, UartInv, TransmitNeverStalls, LineOK
  <2>5. CASE slot["immediate"].owed > 0
    BY <1>0, <2>1, <2>5 DEF Tickle, Wake, UartInv, TransmitNeverStalls, LineOK,
       Work2Do
  <2>. QED  BY <2>3, <2>4, <2>5
<1>10. ASSUME NEW c \in Contexts, Account(c)
      PROVE  LineOK'
  <2>1. UNCHANGED uartVars /\ slot' = slot
    BY <1>0, <1>10, AccountFacts
  <2>2. LineKept
    BY <2>1, SlotNames DEF LineKept, OnlySlot, uartVars
  <2>. QED  BY <1>0, <2>2, QuietLine DEF LineOK
<1>11. ASSUME NEW c \in Contexts, AccountXoff(c)
      PROVE  LineOK'
  <2>0. PICK i \in Irps : i = CurrentWrite
    BY <1>0, <1>11, WorkingWriter, WriterFacts
  <2>00. /\ RequestOK(i) /\ WriterOK(c) /\ CurrentWrite # None /\ Writing(c)
         /\ InHand("write")
    BY <1>0, <1>11, WorkingWriter, WriterFacts
  <2>1. UNCHANGED uartVars /\ (slot' = slot \/ OnlySlot("xoff"))
    BY <1>0, <1>11, <2>00, AccountXoffFacts DEF Handed
  <2>2. LineKept
    BY <2>1, SlotNames DEF LineKept, OnlySlot, uartVars
  <2>. QED  BY <1>0, <2>2, QuietLine DEF LineOK
<1>12. ASSUME NEW c \in Contexts, GetNextIrp(c)
      PROVE  LineOK'
  <2>1. UNCHANGED uartVars /\ OnlySlot("write")
        /\ slot'["write"].owed = slot["write"].owed
    BY <1>0, <1>12, NextIrpFacts
  <2>2. LineKept
    BY <2>1, SlotNames DEF LineKept, OnlySlot, uartVars
  <2>. QED  BY <1>0, <2>2, QuietLine DEF LineOK
<1>13. ASSUME NEW c \in Contexts, ProcessEmptyTransmit(c)
      PROVE  LineOK'
  <2>1. /\ UNCHANGED <<slot, held, holdingEmpty, uart, emptied, stranded>>
        /\ Announce(slot["immediate"].owed = 0, CurrentWrite = None)
    BY <1>0, <1>13, EmptyFacts
  <2>2. LineKept
    BY <2>1, SlotNames DEF LineKept, Announce
  <2>. QED  BY <1>0, <2>2, QuietLine DEF LineOK
<1>14. ASSUME NEW c \in Contexts, FinishImmediateCancelled(c)
      PROVE  LineOK'
  <2>0. PICK i \in Irps : i = CurrentImmediate
    BY <1>0, <1>14, WorkingInterposer, InterposerFacts
  <2>00. /\ RequestOK(i) /\ InterposerOK(c) /\ CurrentImmediate # None
         /\ Interposing(c) /\ InHand("immediate")
    BY <1>0, <1>14, WorkingInterposer, InterposerFacts
  <2>1. /\ UNCHANGED uartVars /\ OnlySlot("immediate")
        /\ slot'["immediate"] = [slot["immediate"] EXCEPT !.irp = None]
    BY <1>0, <1>14, <2>00, ImmediateCancelledFacts
  <2>2. slot'["immediate"].owed = slot["immediate"].owed
    BY <1>0, <2>1, SlotNames DEF TypeOK, Slot
  <2>3. LineKept
    BY <2>1, <2>2, SlotNames DEF LineKept, OnlySlot, uartVars
  <2>. QED  BY <1>0, <2>3, QuietLine DEF LineOK
<1>15. ASSUME NEW c \in Contexts, GiveImmediate(c)
      PROVE  LineOK'
  <2>0. PICK i \in Irps : i = CurrentImmediate
    BY <1>0, <1>15, WorkingInterposer, InterposerFacts
  <2>00. /\ RequestOK(i) /\ InterposerOK(c) /\ CurrentImmediate # None
         /\ Interposing(c) /\ InHand("immediate")
    BY <1>0, <1>15, WorkingInterposer, InterposerFacts
  <2>1. /\ OnlySlot("immediate") /\ Tickle(slot["write"].owed = 0)
        /\ UNCHANGED <<held, holdingEmpty, emptied, announced>>
    BY <1>0, <1>15, <2>00, GiveImmediateFacts DEF Handed
  <2>2. slot'["write"].owed = slot["write"].owed
    BY <2>1, SlotNames DEF OnlySlot
  <2>3. slot["write"].owed \in Nat
    BY <1>0, SlotTypes, SlotNames, SerialWriteAssumption
  <2>4. CASE slot["write"].owed = 0
    BY <1>0, <2>1, <2>4 DEF Tickle, Wake, UartInv, TransmitNeverStalls, LineOK
  <2>5. CASE slot["write"].owed > 0
    BY <1>0, <2>1, <2>5 DEF Tickle, Wake, UartInv, TransmitNeverStalls, LineOK,
       Work2Do
  <2>. QED  BY <2>3, <2>4, <2>5
<1>16. ASSUME NEW c \in Contexts, GetNextImmediate(c)
      PROVE  LineOK'
  <2>0. PICK i \in Irps : i = CurrentImmediate
    BY <1>0, <1>16, WorkingInterposer, InterposerFacts
  <2>00. /\ RequestOK(i) /\ InterposerOK(c) /\ CurrentImmediate # None
         /\ Interposing(c) /\ InHand("immediate")
    BY <1>0, <1>16, WorkingInterposer, InterposerFacts
  <2>1. /\ UNCHANGED <<held, holdingEmpty, uart, emptied, stranded>>
        /\ OnlySlot("immediate")
        /\ Announce(slot["immediate"].owed = 0, CurrentWrite = None)
        /\ slot'["immediate"] = [slot["immediate"] EXCEPT !.irp = None]
    BY <1>0, <1>16, <2>00, NextImmediateFacts
  <2>2. slot'["immediate"].owed = slot["immediate"].owed
    BY <1>0, <2>1, SlotNames DEF TypeOK, Slot
  <2>3. LineKept
    BY <2>1, <2>2, SlotNames DEF LineKept, OnlySlot, Announce
  <2>. QED  BY <1>0, <2>3, QuietLine DEF LineOK
<1>17. ASSUME NEW c \in Contexts, NEW s \in Slots, NEW h, NEW st, EndingOf(h,
  st),
           Ending(c, s, h, st)
      PROVE  LineOK'
  <2>1. OnlySlot(s) /\ slot'[s].owed = 0 /\ UNCHANGED uartVars
    BY <1>17 DEF Ending
  <2>2. slot["write"].owed = 0 => slot'["write"].owed = 0
    BY <2>1, SlotNames DEF OnlySlot
  <2>3. slot["immediate"].owed = 0 => slot'["immediate"].owed = 0
    BY <2>1, SlotNames DEF OnlySlot
  <2>4. LineKept
    BY <2>1, <2>2, <2>3 DEF LineKept, uartVars
  <2>. QED  BY <1>0, <2>4, QuietLine DEF LineOK
<1>18. ASSUME NEW s \in Slots, Expire(s)
      PROVE  LineOK'
  <2>1. /\ OnlySlot(s) /\ slot'[s].owed = slot[s].owed
        /\ UNCHANGED uartVars
    BY <1>0, <1>18, ExpireFacts
  <2>2. \A r \in Slots : slot'[r].owed = slot[r].owed
    BY <2>1 DEF OnlySlot
  <2>3. LineKept
    BY <2>1, <2>2, SlotNames DEF LineKept, uartVars
  <2>. QED  BY <1>0, <2>3, QuietLine DEF LineOK
<1>19. CASE CountSinceXoff
  <2>1. UNCHANGED uartVars /\ OnlySlot("xoff")
    BY <1>0, <1>19, CountFacts
  <2>2. LineKept
    BY <2>1, SlotNames DEF LineKept, OnlySlot, uartVars
  <2>. QED  BY <1>0, <2>2, QuietLine DEF LineOK
<1>20. CASE ThrInterrupt
  <2>1. CASE ~Work2Do /\ flowChar = "none"
    BY <1>0, <1>20, <2>1
       DEF ThrInterrupt, Work2Do, UartInv, TransmitNeverStalls, LineOK
  <2>2. CASE Work2Do \/ flowChar # "none"
    <3>1. Transmit(held)
      BY <1>20, <2>2 DEF ThrInterrupt
    <3>. QED  BY <1>0, <3>1, SendingMoves
  <2>. QED  BY <2>1, <2>2
<1>21. ASSUME NEW h \in SUBSET HoldReasons, LeaveIsr(h)
       PROVE  LineOK'
  <2>1. CASE h = {} /\ uart # "busy" /\ Work2Do
    <3>1. Transmit({})
      BY <1>21, <2>1 DEF LeaveIsr
    <3>. QED  BY <1>0, <3>1, SendingMoves
  <2>2. CASE ~(h = {} /\ uart # "busy" /\ Work2Do)
    <3>1. /\ held' = h /\ holdingEmpty' = (uart # "busy")
          /\ UNCHANGED <<slot, uart, emptied, announced>>
      BY <1>21, <2>2 DEF LeaveIsr
    <3>2. Work2Do' <=> Work2Do
      BY <3>1 DEF Work2Do
    <3>. QED
      BY <1>0, <2>2, <3>1, <3>2 DEF UartInv, TransmitNeverStalls, LineOK
  <2>. QED  BY <2>1, <2>2
<1>22. CASE Drain
  BY <1>0, <1>22 DEF Drain, UartInv, TransmitNeverStalls, LineOK
<1>23. ASSUME NEW r \in HoldReasons, Hold(r)
      PROVE  LineOK'
  <2>1. held' # {} /\ UNCHANGED <<holdingEmpty, uart, emptied, announced>>
    BY <1>23 DEF Hold
  <2>. QED  BY <1>0, <2>1 DEF UartInv, TransmitNeverStalls, LineOK
<1>24. ASSUME NEW r \in HoldReasons, Release(r)
      PROVE  LineOK'
  <2>1. /\ r \in held /\ held' = held \ {r}
        /\ UNCHANGED <<holdingEmpty, slot, emptied, announced>>
        /\ Tickle(held = {r} /\ Work2Do)
    BY <1>24 DEF Release
  <2>2. Work2Do' <=> Work2Do
    BY <2>1 DEF Work2Do
  <2>3. held' = {} => held = {r}
    BY <2>1
  <2>. QED
    BY <1>0, <2>1, <2>2, <2>3
       DEF Tickle, Wake, UartInv, TransmitNeverStalls, LineOK
<1>26. ASSUME NEW ch \in {"xon", "xoff"}, ProdXonXoff(ch)
       PROVE  LineOK'
  <2>1. /\ UNCHANGED <<held, holdingEmpty, slot, emptied, announced>>
        /\ Tickle(flowChar = "none")
    BY <1>26 DEF ProdXonXoff
  <2>2. Work2Do' <=> Work2Do
    BY <2>1 DEF Work2Do
  <2>. QED
    BY <1>0, <2>1, <2>2
       DEF Tickle, Wake, UartInv, TransmitNeverStalls, LineOK
<1>27. CASE DropAutoTransmit
  <2>1. /\ "xoff" \in held /\ held' = held \ {"xoff"}
        /\ UNCHANGED <<holdingEmpty, slot, emptied, announced>>
        /\ Wake(flowChar = "none")
        /\ stranded' = (/\ flowChar # "none"
                        /\ held = {"xoff"} /\ Work2Do /\ uart = "idle")
    BY <1>27 DEF DropAutoTransmit
  <2>2. Work2Do' <=> Work2Do
    BY <2>1 DEF Work2Do
  <2>3. held' = {} => held = {"xoff"}
    BY <2>1
  <2>4. UartInv'
    BY <1>0, <2>1 DEF Wake, UartInv
  <2>5. CASE flowChar = "none"
    BY <1>0, <2>1, <2>4, <2>5 DEF Wake, UartInv, TransmitNeverStalls, LineOK
  <2>6. CASE flowChar # "none"
    BY <2>1, <2>2, <2>3, <2>4, <2>6 DEF Wake, TransmitNeverStalls, LineOK
  <2>. QED  BY <2>5, <2>6
<1>25. CASE UNCHANGED vars
  <2>1. UNCHANGED uartVars /\ slot' = slot
    BY <1>25 DEF vars
  <2>2. LineKept
    BY <2>1, SlotNames DEF LineKept, OnlySlot, uartVars
  <2>. QED  BY <1>0, <2>2, QuietLine DEF LineOK
<1>28. CASE XonReceived \/ OtherInterrupt
  BY <1>0, <1>21, <1>28 DEF XonReceived, OtherInterrupt, TypeOK
<1>. QED
  BY RawSteps, <1>1, <1>2, <1>3, <1>4, <1>5, <1>6, <1>7, <1>8, <1>9, <1>10,
     <1>11, <1>12, <1>13, <1>14, <1>15, <1>16, <1>17, <1>18, <1>19, <1>20,
     <1>22, <1>23, <1>24, <1>25, <1>26, <1>27, <1>28
     DEF RawStep

\* A step that does not make the transmitter look empty.
LEMMA EmptyKept ==
    ASSUME EmptyInv, UNCHANGED announced,
           slot'["write"].irp = None => CurrentWrite = None,
           slot'["immediate"].irp = None
               \/ (\E c \in Contexts : pc'[c] = "istart") =>
                   \/ CurrentImmediate = None
                   \/ \E c \in Contexts : pc[c] = "istart",
           (\E c \in Contexts : pc[c] = "empty") =>
               \E c \in Contexts : pc'[c] = "empty"
    PROVE  EmptyInv'
  BY DEF EmptyInv, AtPlace, CurrentWrite, CurrentImmediate

\* With a write in its slot there is nothing to report.
LEMMA NotEmpty ==
    ASSUME slot'["write"].irp # None
    PROVE  EmptyInv'
  BY DEF EmptyInv, CurrentWrite

\* The end of a transmission is announced.
LEMMA EmptyInvStep == IInv /\ [Next]_vars => EmptyInv'
<1>. SUFFICES ASSUME IInv, [Next]_vars PROVE EmptyInv'
  OBVIOUS
<1>0. /\ IInv /\ TypeOK /\ KindInv /\ QueueInv /\ HeldInv /\ WriterInv
      /\ InterposerInv /\ RefsMatchHolders /\ UartInv
      /\ TransmitNeverStalls /\ EmptyInv
      /\ \A i \in Irps : RequestOK(i)
  BY DEF IInv, RequestInv
<1>1. ASSUME NEW i \in Irps, RefuseAtDispatch(i)
      PROVE  EmptyInv'
  <2>1. UNCHANGED announced /\ slot' = slot /\ pc' = pc
    BY <1>0, <1>1, RefuseFacts DEF uartVars
  <2>. QED  BY <1>0, <2>1, EmptyKept, SlotNames DEF CurrentWrite,
               CurrentImmediate, OnlySlot
<1>2. ASSUME NEW i \in Irps, QueueAtDispatch(i)
      PROVE  EmptyInv'
  <2>1. UNCHANGED announced /\ slot' = slot /\ pc' = pc
    BY <1>0, <1>2, QueueFacts DEF uartVars
  <2>. QED  BY <1>0, <2>1, EmptyKept, SlotNames DEF CurrentWrite,
               CurrentImmediate, OnlySlot
<1>3. ASSUME NEW i \in Irps, CancelledAtDispatch(i)
      PROVE  EmptyInv'
  <2>1. UNCHANGED announced /\ slot' = slot /\ pc' = pc
    BY <1>0, <1>3, CancelledAtDispatchFacts DEF uartVars
  <2>. QED  BY <1>0, <2>1, EmptyKept, SlotNames DEF CurrentWrite,
               CurrentImmediate, OnlySlot
<1>4. ASSUME NEW i \in Irps, CancelQueuedIrp(i)
      PROVE  EmptyInv'
  <2>1. UNCHANGED announced /\ slot' = slot /\ pc' = pc
    BY <1>0, <1>4, WithdrawFacts DEF uartVars
  <2>. QED  BY <1>0, <2>1, EmptyKept, SlotNames DEF CurrentWrite,
               CurrentImmediate, OnlySlot
<1>5. ASSUME NEW i \in Irps, FlagCancel(i)
      PROVE  EmptyInv'
  <2>1. UNCHANGED announced /\ slot' = slot /\ pc' = pc
    BY <1>0, <1>5, FlagFacts DEF uartVars
  <2>. QED  BY <1>0, <2>1, EmptyKept, SlotNames DEF CurrentWrite,
               CurrentImmediate, OnlySlot
<1>6. ASSUME NEW c \in Contexts, NEW i \in Irps, StartAtDispatch(c, i)
      PROVE  EmptyInv'
  <2>1. slot'["write"].irp = i /\ i # None
    BY <1>0, <1>6, StartFacts, SerialWriteAssumption
  <2>. QED  BY <2>1, NotEmpty
<1>7. ASSUME NEW c \in Contexts, NEW i \in Irps, ImmediateAtDispatch(c, i)
      PROVE  EmptyInv'
  <2>1. /\ UNCHANGED announced /\ CurrentImmediate = None
        /\ OnlySlot("immediate") /\ AtPlace(c, "idle") /\ Moves(c, "istart")
    BY <1>0, <1>7, ImmediateFacts DEF uartVars
  <2>2. slot'["write"] = slot["write"]
    BY <2>1, SlotNames DEF OnlySlot
  <2>3. (\E d \in Contexts : pc[d] = "empty") =>
            \E d \in Contexts : pc'[d] = "empty"
    BY <2>1 DEF Moves, AtPlace
  <2>. QED  BY <1>0, <2>1, <2>2, <2>3, EmptyKept DEF CurrentWrite
<1>8. ASSUME NEW c \in Contexts, FinishCancelled(c)
      PROVE  EmptyInv'
  <2>0. PICK i \in Irps : i = CurrentWrite
    BY <1>0, <1>8, WorkingWriter, WriterFacts
  <2>00. /\ RequestOK(i) /\ WriterOK(c) /\ CurrentWrite # None /\ Writing(c)
         /\ InHand("write")
    BY <1>0, <1>8, WorkingWriter, WriterFacts
  <2>1. slot'["write"].irp = CurrentWrite
    BY <1>0, <1>8, <2>00, CancelledFacts, SlotNames DEF CurrentWrite
  <2>. QED  BY <2>00, <2>1, NotEmpty
<1>9. ASSUME NEW c \in Contexts, GiveWrite(c)
      PROVE  EmptyInv'
  <2>0. PICK i \in Irps : i = CurrentWrite
    BY <1>0, <1>9, WorkingWriter, WriterFacts
  <2>00. /\ RequestOK(i) /\ WriterOK(c) /\ CurrentWrite # None /\ Writing(c)
         /\ InHand("write")
    BY <1>0, <1>9, WorkingWriter, WriterFacts
  <2>1. slot'["write"].irp = CurrentWrite
    BY <1>0, <1>9, <2>00, GiveFacts, SlotNames DEF CurrentWrite, Handed
  <2>. QED  BY <2>00, <2>1, NotEmpty
<1>10. ASSUME NEW c \in Contexts, Account(c)
      PROVE  EmptyInv'
  <2>0. PICK i \in Irps : i = CurrentWrite
    BY <1>0, <1>10, WorkingWriter, WriterFacts
  <2>00. /\ RequestOK(i) /\ WriterOK(c) /\ CurrentWrite # None /\ Writing(c)
         /\ InHand("write")
    BY <1>0, <1>10, WorkingWriter, WriterFacts
  <2>1. slot'["write"].irp = CurrentWrite
    BY <1>0, <1>10, <2>00, AccountFacts, SlotNames DEF CurrentWrite
  <2>. QED  BY <2>00, <2>1, NotEmpty
<1>11. ASSUME NEW c \in Contexts, AccountXoff(c)
      PROVE  EmptyInv'
  <2>0. PICK i \in Irps : i = CurrentWrite
    BY <1>0, <1>11, WorkingWriter, WriterFacts
  <2>00. /\ RequestOK(i) /\ WriterOK(c) /\ CurrentWrite # None /\ Writing(c)
         /\ InHand("write")
    BY <1>0, <1>11, WorkingWriter, WriterFacts
  <2>1. slot'["write"].irp = CurrentWrite
    BY <1>0, <1>11, <2>00, AccountXoffFacts, SlotNames DEF CurrentWrite,
       Handed, OnlySlot
  <2>. QED  BY <2>00, <2>1, NotEmpty
<1>12. ASSUME NEW c \in Contexts, GetNextIrp(c)
      PROVE  EmptyInv'
  <2>. DEFINE next == IF queue = <<>> THEN None ELSE Head(queue)
  <2>1. /\ slot'["write"].irp = next
        /\ queue = <<>> => pc'[c] = "empty"
    BY <1>0, <1>12, NextIrpFacts DEF Moves
  <2>2. CASE queue = <<>>
    BY <2>1, <2>2 DEF EmptyInv, AtPlace
  <2>3. CASE queue # <<>>
    <3>1. Head(queue) \in Irps
      BY <1>0, <2>3, HeadEntries DEF QueueInv, TypeOK, Irps
    <3>. QED  BY <2>1, <2>3, <3>1, NotEmpty, SerialWriteAssumption
  <2>. QED  BY <2>2, <2>3
<1>13. ASSUME NEW c \in Contexts, ProcessEmptyTransmit(c)
      PROVE  EmptyInv'
  <2>1. /\ UNCHANGED slot
        /\ AtPlace(c, "empty") /\ Moves(c, "idle")
        /\ Announce(slot["immediate"].owed = 0, CurrentWrite = None)
    BY <1>0, <1>13, EmptyFacts
  <2>. SUFFICES ASSUME /\ CurrentWrite'= None
                       /\ \/ CurrentImmediate' = None
                          \/ \E d \in Contexts : AtPlace(d, "istart")'
                PROVE  announced'
    BY DEF EmptyInv
  <2>2. CurrentWrite = None /\ queue = <<>>
    BY <1>0, <2>1 DEF QueueInv, CurrentWrite
  <2>3. slot["immediate"].irp = None \/ InHand("immediate")
    <3>1. CASE CurrentImmediate' = None
      BY <2>1, <3>1 DEF CurrentImmediate
    <3>2. CASE \E d \in Contexts : AtPlace(d, "istart")'
      <4>1. PICK d \in Contexts : pc'[d] = "istart"
        BY <3>2 DEF AtPlace
      <4>2. Interposing(d)
        BY <2>1, <4>1 DEF Moves, Interposing
      <4>. QED  BY <4>2 DEF InHand
    <3>. QED  BY <3>1, <3>2
  <2>4. slot["immediate"].owed = 0
    BY <1>0, <2>3, InHandFacts, SlotNames
  <2>. QED  BY <1>0, <2>1, <2>2, <2>4 DEF Announce, UartInv
<1>14. ASSUME NEW c \in Contexts, FinishImmediateCancelled(c)
      PROVE  EmptyInv'
  <2>0. PICK i \in Irps : i = CurrentImmediate
    BY <1>0, <1>14, WorkingInterposer, InterposerFacts
  <2>00. /\ RequestOK(i) /\ InterposerOK(c) /\ CurrentImmediate # None
         /\ Interposing(c) /\ InHand("immediate")
    BY <1>0, <1>14, WorkingInterposer, InterposerFacts
  <2>1. /\ UNCHANGED announced /\ OnlySlot("immediate")
        /\ AtPlace(c, "istart") /\ Moves(c, "idle")
    BY <1>0, <1>14, <2>00, ImmediateCancelledFacts DEF uartVars
  <2>2. slot'["write"] = slot["write"]
    BY <2>1, SlotNames DEF OnlySlot
  <2>3. (\E d \in Contexts : pc[d] = "empty") =>
            \E d \in Contexts : pc'[d] = "empty"
    BY <2>1 DEF Moves, AtPlace
  <2>4. \E d \in Contexts : pc[d] = "istart"
    BY <2>1 DEF AtPlace
  <2>. QED  BY <1>0, <2>1, <2>2, <2>3, <2>4, EmptyKept DEF CurrentWrite
<1>15. ASSUME NEW c \in Contexts, GiveImmediate(c)
      PROVE  EmptyInv'
  <2>0. PICK i \in Irps : i = CurrentImmediate
    BY <1>0, <1>15, WorkingInterposer, InterposerFacts
  <2>00. /\ RequestOK(i) /\ InterposerOK(c) /\ CurrentImmediate # None
         /\ Interposing(c) /\ InHand("immediate")
    BY <1>0, <1>15, WorkingInterposer, InterposerFacts
  <2>1. /\ slot'["immediate"].irp = CurrentImmediate /\ Moves(c, "idle")
    BY <1>0, <1>15, <2>00, GiveImmediateFacts DEF Handed
  <2>2. \A d \in Contexts : pc'[d] # "istart"
    <3>1. \A d \in Contexts : Interposing(d)' => d = c
      BY <1>0, <2>00, <2>1, SoleInterposer
    <3>. QED  BY <2>1, <3>1 DEF Moves, Interposing
  <2>. QED  BY <2>00, <2>1, <2>2 DEF EmptyInv, AtPlace, CurrentImmediate
<1>16. ASSUME NEW c \in Contexts, GetNextImmediate(c)
      PROVE  EmptyInv'
  <2>0. PICK i \in Irps : i = CurrentImmediate
    BY <1>0, <1>16, WorkingInterposer, InterposerFacts
  <2>00. /\ RequestOK(i) /\ InterposerOK(c) /\ CurrentImmediate # None
         /\ Interposing(c) /\ InHand("immediate")
    BY <1>0, <1>16, WorkingInterposer, InterposerFacts
  <2>1. /\ OnlySlot("immediate")
        /\ Announce(slot["immediate"].owed = 0, CurrentWrite = None)
    BY <1>0, <1>16, <2>00, NextImmediateFacts
  <2>. SUFFICES ASSUME /\ CurrentWrite'= None
                       /\ \/ CurrentImmediate' = None
                          \/ \E d \in Contexts : AtPlace(d, "istart")'
                PROVE  announced'
    BY DEF EmptyInv
  <2>2. CurrentWrite = None /\ queue = <<>>
    BY <1>0, <2>1, SlotNames DEF QueueInv, CurrentWrite, OnlySlot
  <2>3. slot["immediate"].owed = 0
    BY <1>0, <2>00, InHandFacts, SlotNames
  <2>. QED  BY <1>0, <2>1, <2>2, <2>3 DEF Announce, UartInv
<1>17. ASSUME NEW c \in Contexts, NEW s \in Slots, NEW h, NEW st, EndingOf(h,
  st),
           Ending(c, s, h, st)
      PROVE  EmptyInv'
  <2>1. /\ UNCHANGED announced /\ OnlySlot(s)
        /\ s # "xoff" => slot'[s].irp = slot[s].irp
        /\ AtPlace(c, "idle") \/ AtPlace(c, "start")
    BY <1>17 DEF Ending, uartVars
  <2>2. PICK p \in {"next", "inext", "give", "idle"} : Moves(c, p)
    BY <1>17 DEF Ending
  <2>3. /\ slot'["write"].irp = slot["write"].irp
        /\ slot'["immediate"].irp = slot["immediate"].irp
    BY <2>1, SlotNames DEF OnlySlot
  <2>4. (\E d \in Contexts : pc[d] = "empty") =>
            \E d \in Contexts : pc'[d] = "empty"
    BY <2>1, <2>2 DEF Moves, AtPlace
  <2>5. (\E d \in Contexts : pc'[d] = "istart") =>
            \E d \in Contexts : pc[d] = "istart"
    BY <2>2 DEF Moves
  <2>. QED
    BY <1>0, <2>1, <2>3, <2>4, <2>5, EmptyKept DEF CurrentWrite,
       CurrentImmediate
<1>18. ASSUME NEW s \in Slots, Expire(s)
      PROVE  EmptyInv'
  <2>1. /\ UNCHANGED announced /\ pc' = pc
        /\ \A r \in Slots : slot'[r].irp = slot[r].irp
    BY <1>0, <1>18, ExpireFacts DEF uartVars, OnlySlot
  <2>. QED  BY <1>0, <2>1, EmptyKept, SlotNames DEF CurrentWrite,
               CurrentImmediate
<1>19. CASE CountSinceXoff
  <2>1. UNCHANGED announced /\ pc' = pc
        /\ slot'["write"] = slot["write"]
        /\ slot'["immediate"] = slot["immediate"]
    BY <1>0, <1>19, CountFacts, SlotNames DEF uartVars, OnlySlot
  <2>. QED  BY <1>0, <2>1, EmptyKept, SlotNames DEF CurrentWrite,
               CurrentImmediate, OnlySlot
<1>20. CASE ThrInterrupt \/ XonReceived \/ OtherInterrupt
  <2>1. pc' = pc /\ \A s \in Slots : slot'[s].irp = slot[s].irp
    <3>1. SentImmediate \/ SentWrite \/ Outside
      BY <1>0, <1>20, IsrFacts
    <3>2. ASSUME SentImmediate
         PROVE  pc' = pc /\ \A s \in Slots : slot'[s].irp = slot[s].irp
      BY <3>2, SlotsKept, SlotNames DEF SentImmediate, CurrentImmediate
    <3>3. ASSUME SentWrite
         PROVE  pc' = pc /\ \A s \in Slots : slot'[s].irp = slot[s].irp
      BY <3>3, SlotsKept, SlotNames DEF SentWrite, CurrentWrite
    <3>. QED  BY <3>1, <3>2, <3>3 DEF Outside
  <2>2. CASE Work2Do
    <3>1. CASE slot["write"].owed > 0
      BY <1>0, <2>1, <3>1, HeldSlot, NotEmpty, SlotNames
    <3>2. CASE slot["immediate"].owed > 0
      <4>1. slot["immediate"].irp # None /\ ~InHand("immediate")
        BY <1>0, <3>2, HeldSlot, SlotNames
      <4>2. \A d \in Contexts : pc'[d] # "istart"
        BY <2>1, <4>1 DEF InHand, Interposing
      <4>. QED
        BY <2>1, <4>1, <4>2, SlotNames DEF EmptyInv, AtPlace, CurrentImmediate
    <3>. QED  BY <2>2, <3>1, <3>2 DEF Work2Do
  <2>3. CASE ~Work2Do
    <3>1. UNCHANGED announced
      BY <1>20, <2>3
         DEF ThrInterrupt, XonReceived, OtherInterrupt, LeaveIsr, Transmit,
             Work2Do, SendsImmediate, SendsWrite
    <3>. QED
      BY <1>0, <2>1, <3>1, EmptyKept, SlotNames DEF CurrentWrite,
         CurrentImmediate
  <2>. QED  BY <2>2, <2>3
<1>22. CASE Drain
  <2>1. UNCHANGED announced /\ slot' = slot /\ pc' = pc
    BY <1>22 DEF Drain
  <2>. QED  BY <1>0, <2>1, EmptyKept DEF CurrentWrite, CurrentImmediate
<1>23. ASSUME NEW r \in HoldReasons, Hold(r)
      PROVE  EmptyInv'
  <2>1. UNCHANGED announced /\ slot' = slot /\ pc' = pc
    BY <1>23 DEF Hold
  <2>. QED  BY <1>0, <2>1, EmptyKept DEF CurrentWrite, CurrentImmediate
<1>24. ASSUME NEW r \in HoldReasons, Release(r)
      PROVE  EmptyInv'
  <2>1. UNCHANGED announced /\ slot' = slot /\ pc' = pc
    BY <1>24 DEF Release
  <2>. QED  BY <1>0, <2>1, EmptyKept DEF CurrentWrite, CurrentImmediate
<1>26. CASE \/ \E ch \in {"xon", "xoff"} : ProdXonXoff(ch)
            \/ DropAutoTransmit
  <2>1. UNCHANGED announced /\ slot' = slot /\ pc' = pc
    BY <1>26 DEF ProdXonXoff, DropAutoTransmit
  <2>. QED  BY <1>0, <2>1, EmptyKept DEF CurrentWrite, CurrentImmediate
<1>25. CASE UNCHANGED vars
  <2>1. UNCHANGED announced /\ slot' = slot /\ pc' = pc
    BY <1>25 DEF vars, uartVars
  <2>. QED  BY <1>0, <2>1, EmptyKept, SlotNames DEF CurrentWrite,
               CurrentImmediate, OnlySlot
<1>. QED
  BY RawSteps, <1>1, <1>2, <1>3, <1>4, <1>5, <1>6, <1>7, <1>8, <1>9, <1>10,
     <1>11, <1>12, <1>13, <1>14, <1>15, <1>16, <1>17, <1>18, <1>19, <1>20,
     <1>22, <1>23, <1>24, <1>25, <1>26
     DEF RawStep

-----------------------------------------------------------------------------
(* TotalCharsQueued.  A request has a weight as long as it is on the books;  *)
(* a step changes the weight of one request at most.                         *)

\* As many pairs <<j, 1>>, <<j, 2>>, ... as w[j] says, for each request j.
Units(w) == {p \in Irps \X (1..MaxLen) : p[2] <= w[p[1]]}

\* The current write is not accounted for yet.
Unaccounted == \A c \in Contexts : pc[c] \notin {"pop", "keep"}

Booked(j) ==
    \/ irp[j].routine = "queued"
    \/ j = CurrentImmediate
    \/ j = CurrentWrite /\ Unaccounted
    \/ irp[j].status = "done"

Weight(j) == IF Booked(j) THEN irp[j].length ELSE 0

Weights == [j \in Irps |-> Weight(j)]

\* One weight that grows from nothing to n adds n units.
LEMMA UnitsAdded ==
    ASSUME NEW v, NEW w, NEW i \in Irps, NEW n \in 0..MaxLen,
           v[i] = 0, w[i] = n, \A j \in Irps : j # i => w[j] = v[j],
           IsFiniteSet(Units(v))
    PROVE  /\ IsFiniteSet(Units(w))
           /\ Cardinality(Units(w)) = Cardinality(Units(v)) + n
<1>. DEFINE new == {i} \X (1..n)
<1>0. MaxLen \in Nat /\ n \in Nat
  BY SerialWriteAssumption
<1>1. IsFiniteSet(1..n) /\ Cardinality(1..n) = n
  BY <1>0, FS_Interval
<1>2. IsFiniteSet({i}) /\ Cardinality({i}) = 1
  BY FS_Singleton
<1>3. IsFiniteSet(new) /\ Cardinality(new) = n
  <2>1. /\ IsFiniteSet({i} \X (1..n))
        /\ Cardinality({i} \X (1..n)) = Cardinality({i}) * Cardinality(1..n)
    BY <1>1, <1>2, FS_Product
  <2>. QED  BY <1>0, <1>1, <1>2, <2>1
<1>4. Units(w) = Units(v) \cup new
  <2>1. ASSUME NEW p \in Units(w) PROVE p \in Units(v) \cup new
    <3>1. p \in Irps \X (1..MaxLen) /\ p[2] <= w[p[1]]
      BY DEF Units
    <3>2. PICK j \in Irps, k \in 1..MaxLen : p = <<j, k>>
      BY <3>1
    <3>3. k <= w[j]
      BY <3>1, <3>2
    <3>4. CASE j = i
      BY <1>0, <3>2, <3>3, <3>4
    <3>5. CASE j # i
      BY <3>2, <3>3, <3>5 DEF Units
    <3>. QED  BY <3>4, <3>5
  <2>2. ASSUME NEW p \in Units(v) PROVE p \in Units(w)
    <3>1. p \in Irps \X (1..MaxLen) /\ p[2] <= v[p[1]]
      BY DEF Units
    <3>2. PICK j \in Irps, k \in 1..MaxLen : p = <<j, k>>
      BY <3>1
    <3>3. k <= v[j]
      BY <3>1, <3>2
    <3>4. j # i
      BY <1>0, <3>3
    <3>. QED  BY <3>2, <3>3, <3>4 DEF Units
  <2>3. ASSUME NEW p \in new PROVE p \in Units(w)
    <3>1. PICK k \in 1..n : p = <<i, k>>
      OBVIOUS
    <3>2. k \in 1..MaxLen /\ k <= w[i]
      BY <1>0
    <3>. QED  BY <3>1, <3>2 DEF Units
  <2>. QED  BY <2>1, <2>2, <2>3
<1>5. Units(v) \cap new = {}
  <2>. SUFFICES ASSUME NEW p \in Units(v), p \in new PROVE FALSE
    OBVIOUS
  <2>1. PICK k \in 1..n : p = <<i, k>>
    OBVIOUS
  <2>2. p[2] <= v[p[1]]
    BY DEF Units
  <2>. QED  BY <1>0, <2>1, <2>2
<1>. HIDE DEF new
<1>6. Cardinality(Units(v)) \in Nat
  BY FS_CardinalityType
<1>7. /\ IsFiniteSet(Units(w))
      /\ Cardinality(Units(w)) = Cardinality(Units(v)) + n - Cardinality({})
  BY <1>3, <1>4, <1>5, FS_Union
<1>. QED  BY <1>0, <1>6, <1>7, FS_EmptySet

\* The units go by the weights.
LEMMA UnitsSame ==
    ASSUME NEW v, NEW w, \A j \in Irps : w[j] = v[j]
    PROVE  Units(w) = Units(v)
<1>1. ASSUME NEW p \in Irps \X (1..MaxLen) PROVE w[p[1]] = v[p[1]]
  BY <1>1
<1>. QED  BY <1>1 DEF Units

\* Who is charged is who is on the books.
LEMMA ContainsEntries ==
    ASSUME NEW S, NEW q \in Seq(S), NEW x
    PROVE  Contains(q, x) <=> x \in Range(q)
  BY EntriesOfRange DEF Contains

\* The characters of CharCountExact are the units of the requests' weights.
LEMMA ChargedWeights ==
    ASSUME queue \in Seq(QueueIrps), RequestInv
    PROVE  Charged = Units(Weights)
<1>1. ASSUME NEW i \in Irps
      PROVE  Counted(i) \/ irp[i].status = "done" <=> Booked(i)
  BY ContainsEntries DEF RequestInv, RequestOK, Counted, Booked, Unaccounted
<1>. DEFINE S == {i \in Irps : Counted(i) \/ irp[i].status = "done"}
<1>2. \A i : i \in S <=> i \in Irps /\ Booked(i)
  BY <1>1
<1>3. Charged = {p \in S \X (1..MaxLen) : p[2] <= irp[p[1]].length}
  BY DEF Charged, Characters
<1>. HIDE DEF S
<1>. SUFFICES ASSUME NEW j, NEW k
              PROVE  <<j, k>> \in Charged <=> <<j, k>> \in Units(Weights)
  BY <1>3 DEF Units
<1>4. <<j, k>> \in Charged <=> /\ j \in Irps /\ Booked(j)
                               /\ k \in 1..MaxLen /\ k <= irp[j].length
  BY <1>2, <1>3
<1>5. <<j, k>> \in Units(Weights) <=> /\ j \in Irps
                                      /\ k \in 1..MaxLen /\ k <= Weights[j]
  BY DEF Units
<1>6. k \in 1..MaxLen => ~(k <= 0)
  BY SerialWriteAssumption
<1>. QED  BY <1>4, <1>5, <1>6 DEF Weights, Weight

\* The same of the next state.
LEMMA NextChargedWeights ==
    ASSUME queue' \in Seq(QueueIrps), RequestInv'
    PROVE  Charged' = Units(Weights')
<1>1. ASSUME NEW i \in Irps
      PROVE  Counted(i)' \/ irp'[i].status = "done" <=> Booked(i)'
  BY ContainsEntries DEF RequestInv, RequestOK, Counted, Booked, Unaccounted
<1>. DEFINE S == {i \in Irps : Counted(i)' \/ irp'[i].status = "done"}
<1>2. \A i : i \in S <=> i \in Irps /\ Booked(i)'
  BY <1>1
<1>3. Charged' = {p \in S \X (1..MaxLen) : p[2] <= irp'[p[1]].length}
  BY DEF Charged, Characters
<1>. HIDE DEF S
<1>. SUFFICES ASSUME NEW j, NEW k
              PROVE  <<j, k>> \in Charged' <=> <<j, k>> \in Units(Weights')
  BY <1>3 DEF Units
<1>4. <<j, k>> \in Charged' <=> /\ j \in Irps /\ Booked(j)'
                                /\ k \in 1..MaxLen /\ k <= irp'[j].length
  BY <1>2, <1>3
<1>5. <<j, k>> \in Units(Weights') <=> /\ j \in Irps
                                       /\ k \in 1..MaxLen /\ k <= Weights'[j]
  BY DEF Units
<1>6. k \in 1..MaxLen => ~(k <= 0)
  BY SerialWriteAssumption
<1>. QED  BY <1>4, <1>5, <1>6 DEF Weights, Weight

\* What is known of the counting when a step begins.
Counting == /\ Charged = Units(Weights) /\ Charged' = Units(Weights')
            /\ IsFiniteSet(Charged) /\ chars = Cardinality(Charged)
            /\ chars \in Nat

\* The count is exact after a step that changes neither it nor a weight,
LEMMA CountKept ==
    ASSUME Counting, chars' = chars, \A j \in Irps : Weight(j)' = Weight(j)
    PROVE  CountInv'
<1>1. \A j \in Irps : Weights'[j] = Weights[j]
  BY DEF Weights
<1>2. Charged' = Charged
  BY <1>1, UnitsSame DEF Counting
<1>. QED  BY <1>2 DEF Counting, CountInv, CharCountExact

\* after one that puts a request on the books,
LEMMA CountRaised ==
    ASSUME Counting, NEW i \in Irps, NEW n \in 0..MaxLen, chars' = chars + n,
           Weight(i) = 0, Weight(i)' = n,
           \A j \in Irps : j # i => Weight(j)' = Weight(j)
    PROVE  CountInv'
<1>1. Weights[i] = 0 /\ Weights'[i] = n
  BY DEF Weights
<1>2. \A j \in Irps : j # i => Weights'[j] = Weights[j]
  BY DEF Weights
<1>3. IsFiniteSet(Charged') /\ Cardinality(Charged') = Cardinality(Charged) + n
  BY <1>1, <1>2, UnitsAdded DEF Counting
<1>. QED  BY <1>3 DEF Counting, CountInv, CharCountExact

\* and after one that takes a request off them.
LEMMA CountLowered ==
    ASSUME Counting, NEW i \in Irps, NEW n \in 0..MaxLen, chars' = chars - n,
           Weight(i) = n, Weight(i)' = 0,
           \A j \in Irps : j # i => Weight(j)' = Weight(j)
    PROVE  CountInv'
<1>0. MaxLen \in Nat
  BY SerialWriteAssumption
<1>1. Weights[i] = n /\ Weights'[i] = 0
  BY DEF Weights
<1>2. \A j \in Irps : j # i => Weights[j] = Weights'[j]
  BY DEF Weights
<1>3. Units(Weights') \subseteq Units(Weights)
  <2>. SUFFICES ASSUME NEW j \in Irps, NEW k \in 1..MaxLen, k <= Weights'[j]
                PROVE  k <= Weights[j]
    BY DEF Units
  <2>1. j # i
    BY <1>0, <1>1
  <2>. QED  BY <1>2, <2>1
<1>4. IsFiniteSet(Charged')
  BY <1>3, FS_Subset DEF Counting
<1>5. Cardinality(Charged) = Cardinality(Charged') + n
  BY <1>1, <1>2, <1>4, UnitsAdded DEF Counting
<1>6. Cardinality(Charged') \in Nat
  BY <1>4, FS_CardinalityType
<1>. QED  BY <1>0, <1>4, <1>5, <1>6 DEF Counting, CountInv, CharCountExact

\* A request weighs what it did if it is where it was.
LEMMA WeightKept ==
    ASSUME NEW j \in Irps,
           irp'[j].length = irp[j].length,
           irp'[j].routine = "queued" <=> irp[j].routine = "queued",
           irp'[j].status = "done" <=> irp[j].status = "done",
           slot'["immediate"].irp = j <=> slot["immediate"].irp = j,
           slot'["write"].irp = j /\ Unaccounted' <=>
               slot["write"].irp = j /\ Unaccounted
    PROVE  Weight(j)' = Weight(j)
<1>1. Booked(j)' <=> Booked(j)
  BY DEF Booked, CurrentWrite, CurrentImmediate
<1>. QED  BY <1>1 DEF Weight

\* The other requests of a step that is about request i and moves c.
LEMMA OthersKept ==
    ASSUME NEW i, OnlyRequest(i),
           \A s \in {"write", "immediate"} : \A j \in Irps :
               j # i => (slot'[s].irp = j <=> slot[s].irp = j),
           CurrentWrite \in Irps \ {i} => (Unaccounted' <=> Unaccounted)
    PROVE  \A j \in Irps : j # i => Weight(j)' = Weight(j)
<1>. SUFFICES ASSUME NEW j \in Irps, j # i PROVE Weight(j)' = Weight(j)
  OBVIOUS
<1>1. irp'[j] = irp[j]
  BY DEF OnlyRequest
<1>. QED  BY <1>1, WeightKept DEF CurrentWrite

\* Only two places in the start loop come after the accounting.
LEMMA AccountedAlike ==
    ASSUME NEW c \in Contexts, NEW p, Moves(c, p),
           pc[c] \notin {"pop", "keep"}, p \notin {"pop", "keep"}
    PROVE  Unaccounted' <=> Unaccounted
  BY DEF Moves, Unaccounted

\* What was not sent weighs nothing,
LEMMA FreshWeight ==
    ASSUME NEW i \in Irps, RequestOK(i), Fresh(i)
    PROVE  Weight(i) = 0
<1>1. Unknown(i) /\ irp[i].routine = "none"
  BY FreshFacts
<1>2. ~Booked(i)
  BY <1>1, SlotNames DEF Unknown, Fresh, Booked, CurrentWrite, CurrentImmediate
<1>. QED  BY <1>2 DEF Weight

\* nor does what has no characters;
LEMMA NoLengthNoWeight ==
    ASSUME NEW i \in Irps, irp'[i].length = 0
    PROVE  Weight(i)' = 0
  BY DEF Weight

\* what is on the books weighs its characters,
LEMMA BookedWeight ==
    ASSUME NEW i \in Irps, Booked(i)
    PROVE  Weight(i) = irp[i].length
  BY DEF Weight

\* now as before.
LEMMA NewlyBookedWeight ==
    ASSUME NEW i \in Irps, Booked(i)'
    PROVE  Weight(i)' = irp'[i].length
  BY DEF Weight

\* How long a request may be.
LEMMA LengthsBound ==
    /\ \A i : Lengths(i) \subseteq 0..MaxLen
    /\ 0 \in 0..MaxLen /\ 1 \in 0..MaxLen
    /\ \A i \in XoffCounters \cup Immediates : Lengths(i) = {1}
    /\ \A i \in Flushes : Lengths(i) = {0}
<1>1. MaxLen \in Nat \ {0}
  BY SerialWriteAssumption
<1>. QED  BY <1>1, SerialWriteAssumption DEF Lengths, QueueIrps

\* The queue keeps being one of queue requests.
LEMMA QueueTypeStep == IInv /\ [Next]_vars => queue' \in Seq(QueueIrps)
<1>. SUFFICES ASSUME IInv, [Next]_vars PROVE queue' \in Seq(QueueIrps)
  OBVIOUS
<1>0. TypeOK /\ queue \in Seq(QueueIrps) /\ IsInjective(queue)
      /\ RequestInv /\ RefsMatchHolders
  BY DEF IInv, TypeOK, QueueInv
<1>1. ASSUME NEW i \in Irps, RefuseAtDispatch(i)
      PROVE  queue' \in Seq(QueueIrps)
  BY <1>0, <1>1, RefuseFacts
<1>2. ASSUME NEW i \in Irps, QueueAtDispatch(i)
      PROVE  queue' \in Seq(QueueIrps)
  <2>1. i \in QueueIrps /\ queue' = Append(queue, i)
    BY <1>0, <1>2, QueueFacts
  <2>. QED  BY <1>0, <2>1, AppendProperties
<1>3. ASSUME NEW i \in Irps, CancelledAtDispatch(i)
      PROVE  queue' \in Seq(QueueIrps)
  BY <1>0, <1>3, CancelledAtDispatchFacts
<1>4. ASSUME NEW i \in Irps, CancelQueuedIrp(i)
      PROVE  queue' \in Seq(QueueIrps)
  <2>1. \E n \in 1..Len(queue) : queue' = RemoveAt(queue, n)
    BY <1>0, <1>4, WithdrawFacts
  <2>. QED  BY <1>0, <2>1, RemoveEntries
<1>5. ASSUME NEW i \in Irps, FlagCancel(i)
      PROVE  queue' \in Seq(QueueIrps)
  BY <1>0, <1>5, FlagFacts
<1>6. ASSUME NEW c \in Contexts, NEW i \in Irps, StartAtDispatch(c, i)
      PROVE  queue' \in Seq(QueueIrps)
  BY <1>0, <1>6, StartFacts
<1>7. ASSUME NEW c \in Contexts, NEW i \in Irps, ImmediateAtDispatch(c, i)
      PROVE  queue' \in Seq(QueueIrps)
  BY <1>0, <1>7, ImmediateFacts
<1>8. ASSUME NEW c \in Contexts, FinishCancelled(c)
      PROVE  queue' \in Seq(QueueIrps)
  BY <1>0, <1>8 DEF FinishCancelled
<1>9. ASSUME NEW c \in Contexts, GiveWrite(c)
      PROVE  queue' \in Seq(QueueIrps)
  BY <1>0, <1>9 DEF GiveWrite
<1>10. ASSUME NEW c \in Contexts, Account(c)
      PROVE  queue' \in Seq(QueueIrps)
  BY <1>0, <1>10 DEF Account
<1>11. ASSUME NEW c \in Contexts, AccountXoff(c)
      PROVE  queue' \in Seq(QueueIrps)
  BY <1>0, <1>11 DEF AccountXoff
<1>12. ASSUME NEW c \in Contexts, GetNextIrp(c)
      PROVE  queue' \in Seq(QueueIrps)
  <2>1. queue' = IF queue = <<>> THEN <<>> ELSE Tail(queue)
    BY <1>12 DEF GetNextIrp
  <2>. QED  BY <1>0, <2>1, HeadEntries
<1>13. ASSUME NEW c \in Contexts, ProcessEmptyTransmit(c)
      PROVE  queue' \in Seq(QueueIrps)
  BY <1>0, <1>13 DEF ProcessEmptyTransmit
<1>14. ASSUME NEW c \in Contexts, FinishImmediateCancelled(c)
      PROVE  queue' \in Seq(QueueIrps)
  BY <1>0, <1>14 DEF FinishImmediateCancelled
<1>15. ASSUME NEW c \in Contexts, GiveImmediate(c)
      PROVE  queue' \in Seq(QueueIrps)
  BY <1>0, <1>15 DEF GiveImmediate
<1>16. ASSUME NEW c \in Contexts, GetNextImmediate(c)
      PROVE  queue' \in Seq(QueueIrps)
  BY <1>0, <1>16 DEF GetNextImmediate
<1>17. ASSUME NEW c \in Contexts, NEW s \in Slots, NEW h, NEW st, EndingOf(h,
  st),
           Ending(c, s, h, st)
      PROVE  queue' \in Seq(QueueIrps)
  BY <1>0, <1>17 DEF Ending
<1>18. ASSUME NEW s \in Slots, Expire(s)
      PROVE  queue' \in Seq(QueueIrps)
  BY <1>0, <1>18 DEF Expire
<1>19. CASE CountSinceXoff
  BY <1>0, <1>19 DEF CountSinceXoff
<1>20. CASE SentImmediate
  BY <1>0, <1>20 DEF SentImmediate
<1>21. CASE SentWrite
  BY <1>0, <1>21 DEF SentWrite
<1>22. CASE Outside
  BY <1>0, <1>22 DEF Outside
<1>. QED
  BY StepCases, <1>1, <1>2, <1>3, <1>4, <1>5, <1>6, <1>7, <1>8, <1>9, <1>10,
     <1>11, <1>12, <1>13, <1>14, <1>15, <1>16, <1>17, <1>18, <1>19, <1>20,
     <1>21, <1>22
     DEF NormalStep

\* TotalCharsQueued stays the number of characters on the books.
LEMMA CountInvStep == IInv /\ CounterSlotFree /\ [Next]_vars => CountInv'
<1>. SUFFICES ASSUME IInv, CounterSlotFree, [Next]_vars PROVE CountInv'
  OBVIOUS
<1>0. /\ IInv /\ TypeOK /\ KindInv /\ QueueInv /\ HeldInv /\ WriterInv
      /\ InterposerInv /\ RefsMatchHolders
      /\ \A i \in Irps : RequestOK(i)
  BY DEF IInv, RequestInv<1>00. Counting
  <2>1. queue \in Seq(QueueIrps) /\ RequestInv /\ CountInv /\ chars \in Nat
    BY DEF IInv, TypeOK
  <2>2. queue' \in Seq(QueueIrps) /\ RequestInv'
    BY QueueTypeStep, RequestInvStep
  <2>. QED
    BY <2>1, <2>2, ChargedWeights, NextChargedWeights
       DEF Counting, CountInv, CharCountExact
<1>1. ASSUME NEW i \in Irps, RefuseAtDispatch(i)
      PROVE  CountInv'
  <2>1. Fresh(i) /\ RequestOK(i) /\ Finished(i, 0)
        /\ UNCHANGED <<queue, slot, chars, pc>>
    BY <1>0, <1>1, RefuseFacts
  <2>2. Weight(i) = 0 /\ Weight(i)' = 0
    BY <2>1, FreshWeight, NoLengthNoWeight DEF Finished
  <2>3. \A j \in Irps : j # i => Weight(j)' = Weight(j)
    BY <2>1, OthersKept DEF Finished, Unaccounted
  <2>. QED  BY <1>00, <2>1, <2>2, <2>3, CountKept
<1>2. ASSUME NEW i \in Irps, QueueAtDispatch(i)
      PROVE  CountInv'
  <2>1. Fresh(i) /\ RequestOK(i) /\ Accepted(i, "queued")
        /\ UNCHANGED <<slot, pc>>
    BY <1>0, <1>2, QueueFacts
  <2>2. Weight(i) = 0
    BY <2>1, FreshWeight
  <2>3. Weight(i)' = irp'[i].length
    BY <2>1, NewlyBookedWeight DEF Accepted, Booked
  <2>4. \A j \in Irps : j # i => Weight(j)' = Weight(j)
    BY <2>1, OthersKept DEF Accepted, Unaccounted
  <2>5. irp'[i].length \in 0..MaxLen /\ chars' = chars + irp'[i].length
    BY <2>1, LengthsBound DEF Accepted
  <2>. QED  BY <1>00, <2>2, <2>3, <2>4, <2>5, CountRaised
<1>3. ASSUME NEW i \in Irps, CancelledAtDispatch(i)
      PROVE  CountInv'
  <2>1. Fresh(i) /\ RequestOK(i) /\ UNCHANGED <<slot, pc>>
    BY <1>0, <1>3, CancelledAtDispatchFacts
  <2>2. PICK n \in Lengths(i) : Finished(i, n) /\ chars' = chars + n
    BY <1>0, <1>3, CancelledAtDispatchFacts
  <2>3. Weight(i) = 0
    BY <2>1, FreshWeight
  <2>4. Weight(i)' = n
    BY <2>2, NewlyBookedWeight DEF Finished, Booked
  <2>5. \A j \in Irps : j # i => Weight(j)' = Weight(j)
    BY <2>1, <2>2, OthersKept DEF Finished, Unaccounted
  <2>6. n \in 0..MaxLen
    BY LengthsBound
  <2>. QED  BY <1>00, <2>2, <2>3, <2>4, <2>5, <2>6, CountRaised
<1>4. ASSUME NEW i \in Irps, CancelQueuedIrp(i)
      PROVE  CountInv'
  <2>1. /\ irp[i].routine = "queued" /\ Finished(i, 0)
        /\ chars' = chars - irp[i].length
        /\ UNCHANGED <<slot, pc>>
    BY <1>0, <1>4, WithdrawFacts
  <2>2. Weight(i) = irp[i].length
    BY <2>1, BookedWeight DEF Booked
  <2>3. Weight(i)' = 0
    BY <2>1, NoLengthNoWeight DEF Finished
  <2>4. \A j \in Irps : j # i => Weight(j)' = Weight(j)
    BY <2>1, OthersKept DEF Finished, Unaccounted
  <2>5. irp[i].length \in 0..MaxLen
    BY <1>0, RequestTypes
  <2>. QED  BY <1>00, <2>1, <2>2, <2>3, <2>4, <2>5, CountLowered
<1>5. ASSUME NEW i \in Irps, FlagCancel(i)
      PROVE  CountInv'
  <2>1. /\ OnlyRequest(i) /\ SameHolders(i)
        /\ irp'[i].status = irp[i].status /\ irp'[i].length = irp[i].length
        /\ UNCHANGED <<slot, chars, pc>>
    BY <1>0, <1>5, FlagFacts
  <2>2. Weight(i)' = Weight(i)
    BY <2>1, WeightKept DEF SameHolders, Unaccounted
  <2>3. \A j \in Irps : j # i => Weight(j)' = Weight(j)
    BY <2>1, OthersKept DEF Unaccounted
  <2>. QED  BY <1>00, <2>1, <2>2, <2>3, CountKept
<1>6. ASSUME NEW c \in Contexts, NEW i \in Irps, StartAtDispatch(c, i)
      PROVE  CountInv'
  <2>1. /\ AtPlace(c, "idle") /\ Fresh(i) /\ RequestOK(i)
        /\ CurrentWrite = None /\ Accepted(i, irp[i].routine)
        /\ OnlySlot("write") /\ slot'["write"].irp = i
        /\ Moves(c, IF i \in Flushes THEN "pop" ELSE "start")
    BY <1>0, <1>6, StartFacts
  <2>2. Weight(i) = 0
    BY <2>1, FreshWeight
  <2>3. i # None /\ None \notin Irps /\ slot'["immediate"] = slot["immediate"]
    BY <2>1, SlotNames, SerialWriteAssumption DEF OnlySlot
  <2>4. Unaccounted
    BY <1>0, <2>1, WriterFacts DEF Unaccounted, Writing
  <2>5. irp'[i].length \in Lengths(i) /\ chars' = chars + irp'[i].length
    BY <2>1 DEF Accepted
  <2>6. Weight(i)' = irp'[i].length
    <3>1. CASE i \in Flushes
      BY <2>5, <3>1, NoLengthNoWeight, LengthsBound
    <3>2. CASE i \notin Flushes
      <4>1. Unaccounted'
        BY <2>1, <2>4, <3>2 DEF Unaccounted, Moves
      <4>. QED  BY <2>1, <4>1, NewlyBookedWeight DEF Booked, CurrentWrite
    <3>. QED  BY <3>1, <3>2
  <2>7. \A j \in Irps : j # i => Weight(j)' = Weight(j)
    BY <2>1, <2>3, OthersKept DEF Accepted, CurrentWrite
  <2>8. irp'[i].length \in 0..MaxLen
    BY <2>5, LengthsBound
  <2>. QED  BY <1>00, <2>2, <2>5, <2>6, <2>7, <2>8, CountRaised
<1>7. ASSUME NEW c \in Contexts, NEW i \in Irps, ImmediateAtDispatch(c, i)
      PROVE  CountInv'
  <2>1. /\ AtPlace(c, "idle") /\ Fresh(i) /\ RequestOK(i) /\ i \in Immediates
        /\ CurrentImmediate = None /\ Accepted(i, irp[i].routine)
        /\ OnlySlot("immediate") /\ slot'["immediate"].irp = i
        /\ Moves(c, "istart")
    BY <1>0, <1>7, ImmediateFacts
  <2>2. Weight(i) = 0
    BY <2>1, FreshWeight
  <2>3. i # None /\ None \notin Irps /\ slot'["write"] = slot["write"]
    BY <2>1, SlotNames, SerialWriteAssumption DEF OnlySlot
  <2>4. Unaccounted' <=> Unaccounted
    BY <2>1, AccountedAlike DEF AtPlace
  <2>5. irp'[i].length \in Lengths(i) /\ chars' = chars + irp'[i].length
    BY <2>1 DEF Accepted
  <2>6. Weight(i)' = irp'[i].length
    BY <2>1, NewlyBookedWeight DEF Booked, CurrentImmediate
  <2>7. \A j \in Irps : j # i => Weight(j)' = Weight(j)
    BY <2>1, <2>3, <2>4, OthersKept DEF Accepted, CurrentImmediate
  <2>8. irp'[i].length \in 0..MaxLen
    BY <2>5, LengthsBound
  <2>. QED  BY <1>00, <2>2, <2>5, <2>6, <2>7, <2>8, CountRaised
<1>8. ASSUME NEW c \in Contexts, FinishCancelled(c)
      PROVE  CountInv'
  <2>0. PICK i \in Irps : i = CurrentWrite
    BY <1>0, <1>8, WorkingWriter, WriterFacts
  <2>00. /\ RequestOK(i) /\ WriterOK(c) /\ CurrentWrite # None /\ Writing(c)
         /\ InHand("write")
    BY <1>0, <1>8, WorkingWriter, WriterFacts
  <2>1. /\ Giving(c) /\ Becomes(i, "cancelled") /\ Moves(c, "next")
        /\ UNCHANGED <<slot, chars>>
    BY <1>0, <1>8, <2>0, <2>00, CancelledFacts
  <2>2. Unaccounted' <=> Unaccounted
    BY <2>1, AccountedAlike DEF Giving, AtPlace
  <2>3. irp[i].status # "done"
    BY <2>00, <2>0, <2>1 DEF WriterOK, Giving, AtPlace
  <2>4. Weight(i)' = Weight(i)
    BY <2>1, <2>2, <2>3, WeightKept DEF Becomes, SameHolders
  <2>5. \A j \in Irps : j # i => Weight(j)' = Weight(j)
    BY <2>1, <2>2, OthersKept DEF Becomes
  <2>. QED  BY <1>00, <2>1, <2>4, <2>5, CountKept
<1>9. ASSUME NEW c \in Contexts, GiveWrite(c)
      PROVE  CountInv'
  <2>0. PICK i \in Irps : i = CurrentWrite
    BY <1>0, <1>9, WorkingWriter, WriterFacts
  <2>00. /\ RequestOK(i) /\ WriterOK(c) /\ CurrentWrite # None /\ Writing(c)
         /\ InHand("write")
    BY <1>0, <1>9, WorkingWriter, WriterFacts
  <2>1. /\ Giving(c) /\ Handed("write", i, irp[i].length) /\ Moves(c, "idle")
        /\ UNCHANGED chars
    BY <1>0, <1>9, <2>0, <2>00, GiveFacts
  <2>2. Unaccounted' <=> Unaccounted
    BY <2>1, AccountedAlike DEF Giving, AtPlace
  <2>3. irp[i].routine = "none" /\ irp'[i].routine = "write"
    BY <2>00, <2>0, <2>1 DEF WriterOK, Loose, Giving, AtPlace, Handed
  <2>6. /\ slot'["immediate"] = slot["immediate"]
        /\ slot'["write"].irp = slot["write"].irp
    BY <2>0, <2>1, SlotNames DEF Handed, OnlySlot, CurrentWrite
  <2>4. Weight(i)' = Weight(i)
    BY <2>1, <2>2, <2>3, <2>6, WeightKept DEF Handed
  <2>5. \A j \in Irps : j # i => Weight(j)' = Weight(j)
    BY <2>1, <2>2, <2>6, OthersKept DEF Handed
  <2>. QED  BY <1>00, <2>1, <2>4, <2>5, CountKept
<1>10. ASSUME NEW c \in Contexts, Account(c)
      PROVE  CountInv'
  <2>0. PICK i \in Irps : i = CurrentWrite
    BY <1>0, <1>10, WorkingWriter, WriterFacts
  <2>00. /\ RequestOK(i) /\ WriterOK(c) /\ CurrentWrite # None /\ Writing(c)
         /\ InHand("write")
    BY <1>0, <1>10, WorkingWriter, WriterFacts
  <2>9. \A d \in Contexts : Writing(d) => d = c
    BY <1>0, <2>00, WriterFacts
  <2>1. /\ AtPlace(c, "next")
        /\ chars' = chars - irp[i].length
        /\ Moves(c, "pop")
        /\ UNCHANGED <<irp, completions, slot>>
    BY <1>0, <1>10, <2>0, AccountFacts
  <2>8. \A d \in Contexts : pc[d] \in {"pop", "keep"} => d = c
    BY <2>00, <2>9 DEF Writing
  <2>7. Unaccounted
    BY <2>1, <2>8 DEF Unaccounted, AtPlace
  <2>6. i # CurrentImmediate /\ i # None
    BY <1>0, <2>0, <2>00, WriteAndImmediate
  <2>2. Loose(i) /\ irp[i].status # "done"
    BY <2>00, <2>0, <2>1 DEF WriterOK, AtPlace
  <2>3. Weight(i) = irp[i].length
    BY <2>0, <2>7, BookedWeight DEF Booked
  <2>4. ~Unaccounted'
    BY <2>1 DEF Unaccounted, Moves
  <2>5. Weight(i)' = 0
    BY <2>1, <2>2, <2>4, <2>6 DEF Weight, Booked, Loose, CurrentImmediate
  <2>10. \A j \in Irps : j # i => Weight(j)' = Weight(j)
    BY <2>0, <2>1, OthersKept DEF OnlyRequest, CurrentWrite
  <2>11. irp[i].length \in 0..MaxLen
    BY <1>0, RequestTypes
  <2>. QED  BY <1>00, <2>1, <2>3, <2>5, <2>10, <2>11, CountLowered
<1>11. ASSUME NEW c \in Contexts, AccountXoff(c)
      PROVE  CountInv'
  <2>0. PICK i \in Irps : i = CurrentWrite
    BY <1>0, <1>11, WorkingWriter, WriterFacts
  <2>00. /\ RequestOK(i) /\ WriterOK(c) /\ CurrentWrite # None /\ Writing(c)
         /\ InHand("write")
    BY <1>0, <1>11, WorkingWriter, WriterFacts
  <2>9. \A d \in Contexts : Writing(d) => d = c
    BY <1>0, <2>00, WriterFacts
  <2>1. /\ AtPlace(c, "next") /\ StartsCounting(i)
        /\ chars' = chars - 1
        /\ \/ Becomes(i, "cancelled") /\ UNCHANGED slot /\ Moves(c, "pop")
           \/ (\E n \in 1..MaxCounter : Handed("xoff", i, n)) /\ Moves(c,
             "keep")
    BY <1>0, <1>11, <2>0, <2>00, AccountXoffFacts
  <2>8. \A d \in Contexts : pc[d] \in {"pop", "keep"} => d = c
    BY <2>00, <2>9 DEF Writing
  <2>7. Unaccounted
    BY <2>1, <2>8 DEF Unaccounted, AtPlace
  <2>6. i # CurrentImmediate /\ i # None
    BY <1>0, <2>0, <2>00, WriteAndImmediate
  <2>2. Loose(i) /\ irp[i].status = "success" /\ i \in XoffCounters
    BY <2>00, <2>0, <2>1 DEF WriterOK, AtPlace, StartsCounting
  <2>3. irp[i].length = 1
    BY <2>00, <2>2, LiveFacts, LengthsBound
  <2>4. Weight(i) = 1
    BY <2>0, <2>3, <2>7, BookedWeight DEF Booked
  <2>5. /\ ~Unaccounted' /\ OnlyRequest(i)
        /\ irp'[i].routine # "queued" /\ irp'[i].status # "done"
        /\ slot'["immediate"].irp = slot["immediate"].irp
        /\ slot'["write"].irp = slot["write"].irp
    <3>1. CASE Becomes(i, "cancelled") /\ UNCHANGED slot /\ Moves(c, "pop")
      BY <2>2, <3>1 DEF Becomes, SameHolders, Loose, Unaccounted, Moves
    <3>2. ASSUME NEW n \in 1..MaxCounter, Handed("xoff", i, n), Moves(c, "keep")
          PROVE  /\ ~Unaccounted' /\ OnlyRequest(i)
                 /\ irp'[i].routine # "queued" /\ irp'[i].status # "done"
                 /\ slot'["immediate"].irp = slot["immediate"].irp
                 /\ slot'["write"].irp = slot["write"].irp
      BY <2>2, <3>2, SlotNames DEF Handed, OnlySlot, Unaccounted, Moves
    <3>. QED  BY <2>1, <3>1, <3>2
  <2>10. Weight(i)' = 0
    BY <2>5, <2>6 DEF Weight, Booked, CurrentImmediate
  <2>11. \A j \in Irps : j # i => Weight(j)' = Weight(j)
    BY <2>0, <2>5, OthersKept DEF CurrentWrite
  <2>. QED  BY <1>00, <2>1, <2>4, <2>10, <2>11, LengthsBound, CountLowered
<1>12. ASSUME NEW c \in Contexts, GetNextIrp(c)
      PROVE  CountInv'
  <2>0. PICK i \in Irps : i = CurrentWrite
    BY <1>0, <1>12, WorkingWriter, WriterFacts
  <2>00. /\ RequestOK(i) /\ WriterOK(c) /\ CurrentWrite # None /\ Writing(c)
         /\ InHand("write")
    BY <1>0, <1>12, WorkingWriter, WriterFacts
  <2>9. \A d \in Contexts : Writing(d) => d = c
    BY <1>0, <2>00, WriterFacts
  <2>. DEFINE next == IF queue = <<>> THEN None ELSE Head(queue)
  <2>1. /\ pc[c] \in {"pop", "keep"}
        /\ AtPlace(c, "pop") => irp'[i] = Ended
        /\ AtPlace(c, "keep") /\ i # next => irp'[i] = irp[i]
        /\ \A j \in Irps : j # i /\ j # next => irp'[j] = irp[j]
        /\ \A j \in Irps : j # i /\ j = next =>
               irp'[j] = [irp[j] EXCEPT !.routine = "none"]
        /\ OnlySlot("write") /\ slot'["write"].irp = next
        /\ slot'["write"].owed = slot["write"].owed
        /\ slot'["write"].timer = slot["write"].timer
        /\ slot'["write"].sent = slot["write"].sent
        /\ slot'["write"].late = slot["write"].late
        /\ Moves(c, IF queue = <<>> THEN "empty"
                    ELSE IF next \in Flushes THEN pc[c] ELSE "start")
    BY <1>0, <1>12, <2>0, NextIrpFacts DEF AtPlace
  <2>2. queue = <<>> => next = None
    BY <2>1
  <2>3. queue # <<>> => next \in Irps /\ next \in Range(queue)
    BY <1>0, HeadEntries DEF QueueInv, TypeOK, Irps
  <2>. HIDE DEF next
  <2>4. None \notin Irps
    BY SerialWriteAssumption
  <2>5. next # None => /\ next \in Irps /\ irp[next].routine = "queued"
                      /\ irp[next].status = "pending" /\ Untouched(next)
                      /\ irp[next].length \in Lengths(next)
                      /\ \A s \in Slots : slot[s].irp # next
    <3>1. SUFFICES ASSUME next # None
                   PROVE  /\ next \in Irps /\ irp[next].routine = "queued"
                          /\ irp[next].status = "pending" /\ Untouched(next)
                          /\ irp[next].length \in Lengths(next)
                          /\ \A s \in Slots : slot[s].irp # next
      OBVIOUS
    <3>2. next \in Irps /\ next \in Range(queue) /\ RequestOK(next)
      BY <1>0, <2>2, <2>3, <3>1
    <3>. QED  BY <3>2 DEF RequestOK, Unknown
  <2>6. next # i
    BY <2>0, <2>4, <2>5, SlotNames DEF CurrentWrite
  <2>7. next # None =>
            /\ irp'[next].routine = "none" /\ irp'[next].refs = {}
            /\ irp'[next].status = "pending"
            /\ irp'[next].info = 0 /\ irp'[next].wire = 0
            /\ irp'[next].length = irp[next].length
    <3>1. SUFFICES ASSUME next # None
                   PROVE  /\ irp'[next].routine = "none" /\ irp'[next].refs = {}
                          /\ irp'[next].status = "pending"
                          /\ irp'[next].info = 0 /\ irp'[next].wire = 0
                          /\ irp'[next].length = irp[next].length
      OBVIOUS
    <3>2. /\ irp'[next] = [irp[next] EXCEPT !.routine = "none"]
          /\ irp[next] \in Irp
      BY <1>0, <2>1, <2>5, <2>6, <3>1 DEF TypeOK
    <3>. QED  BY <2>5, <3>1, <3>2 DEF Irp, Untouched
  <2>10. UNCHANGED chars
    BY <1>12 DEF GetNextIrp
  <2>11. \A d \in Contexts : pc[d] \in {"pop", "keep"} => d = c
    BY <2>9 DEF Writing
  <2>12. ~Unaccounted
    BY <2>1 DEF Unaccounted
  <2>13. slot'["immediate"] = slot["immediate"]
    BY <2>1, SlotNames DEF OnlySlot
  <2>14. i # CurrentImmediate
    BY <1>0, <2>0, <2>00, WriteAndImmediate
  <2>15. irp[i].routine # "queued"
    BY <2>0, <2>00, SlotNames DEF RequestOK, Unknown, CurrentWrite
  <2>16. Weight(i)' = Weight(i)
    <3>1. CASE AtPlace(c, "pop")
      <4>1. irp[i].status # "done"
        BY <2>00, <2>0, <3>1 DEF WriterOK
      <4>2. Weight(i) = 0
        BY <2>12, <2>14, <2>15, <4>1 DEF Weight, Booked
      <4>. QED  BY <2>1, <3>1, <4>2, NewFields, NoLengthNoWeight
    <3>2. CASE AtPlace(c, "keep")
      BY <2>1, <2>6, <2>12, <2>13, <3>2, WeightKept
    <3>. QED  BY <2>1, <3>1, <3>2 DEF AtPlace
  <2>17. ASSUME NEW k \in Irps, k = next
         PROVE  Weight(k)' = Weight(k)
    <3>0. /\ irp[k].routine = "queued" /\ irp[k].length \in Lengths(k)
          /\ irp'[k].length = irp[k].length /\ slot'["write"].irp = k
      BY <2>1, <2>4, <2>5, <2>7, <2>17
    <3>1. Weight(k) = irp[k].length
      BY <3>0, BookedWeight DEF Booked
    <3>2. CASE k \in Flushes
      BY <3>0, <3>1, <3>2, NoLengthNoWeight, LengthsBound
    <3>3. CASE k \notin Flushes
      <4>1. pc'[c] \notin {"pop", "keep"}
        BY <2>1, <2>17, <3>3 DEF Moves
      <4>2. Unaccounted'
        BY <2>1, <2>11, <4>1 DEF Unaccounted, Moves
      <4>. QED  BY <3>0, <3>1, <4>2, NewlyBookedWeight DEF Booked, CurrentWrite
    <3>. QED  BY <3>2, <3>3
  <2>18. ASSUME NEW j \in Irps, j # i, j # next
         PROVE  Weight(j)' = Weight(j)
    BY <2>0, <2>1, <2>13, <2>12, <2>18, WeightKept DEF CurrentWrite
  <2>. QED  BY <1>00, <2>10, <2>16, <2>17, <2>18, CountKept
<1>13. ASSUME NEW c \in Contexts, ProcessEmptyTransmit(c)
      PROVE  CountInv'
  <2>1. AtPlace(c, "empty") /\ Moves(c, "idle") /\ UNCHANGED <<irp, slot,
    chars>>
    BY <1>0, <1>13, EmptyFacts
  <2>2. Unaccounted' <=> Unaccounted
    BY <2>1, AccountedAlike DEF AtPlace
  <2>3. \A j \in Irps : Weight(j)' = Weight(j)
    BY <2>1, <2>2, WeightKept
  <2>. QED  BY <1>00, <2>1, <2>3, CountKept
<1>14. ASSUME NEW c \in Contexts, FinishImmediateCancelled(c)
      PROVE  CountInv'
  <2>0. PICK i \in Irps : i = CurrentImmediate
    BY <1>0, <1>14, WorkingInterposer, InterposerFacts
  <2>00. /\ RequestOK(i) /\ InterposerOK(c) /\ CurrentImmediate # None
         /\ Interposing(c) /\ InHand("immediate")
    BY <1>0, <1>14, WorkingInterposer, InterposerFacts
  <2>1. /\ AtPlace(c, "istart") /\ Finished(i, 1) /\ OnlySlot("immediate")
        /\ slot'["immediate"] = [slot["immediate"] EXCEPT !.irp = None]
        /\ Moves(c, "idle") /\ UNCHANGED chars
    BY <1>0, <1>14, <2>0, <2>00, ImmediateCancelledFacts
  <2>2. Unaccounted' <=> Unaccounted
    BY <2>1, AccountedAlike DEF AtPlace
  <2>3. /\ slot'["immediate"].irp = None /\ None \notin Irps
        /\ slot'["write"] = slot["write"]
    BY <1>0, <2>1, SlotNames, SerialWriteAssumption DEF OnlySlot, TypeOK, Slot
  <2>6. irp[i].length = 1 /\ i \in Immediates
    <3>1. i \in Immediates
      BY <1>0, <2>0, <2>00 DEF KindInv
    <3>2. irp[i].status \notin {"new", "done"}
      BY <2>0, <2>00 DEF InterposerOK
    <3>. QED  BY <2>00, <3>1, <3>2, LiveFacts, LengthsBound
  <2>7. Weight(i) = 1
    BY <2>0, <2>6, BookedWeight DEF Booked
  <2>4. Weight(i)' = 1
    BY <2>1, NewlyBookedWeight DEF Finished, Booked
  <2>8. \A r \in {"write", "immediate"} : \A j \in Irps :
            j # i => (slot'[r].irp = j <=> slot[r].irp = j)
    BY <2>0, <2>3 DEF CurrentImmediate
  <2>9. OnlyRequest(i)
    BY <2>1 DEF Finished
  <2>5. \A j \in Irps : j # i => Weight(j)' = Weight(j)
    BY <2>2, <2>8, <2>9, OthersKept
  <2>. QED  BY <1>00, <2>1, <2>4, <2>5, <2>7, CountKept
<1>15. ASSUME NEW c \in Contexts, GiveImmediate(c)
      PROVE  CountInv'
  <2>0. PICK i \in Irps : i = CurrentImmediate
    BY <1>0, <1>15, WorkingInterposer, InterposerFacts
  <2>00. /\ RequestOK(i) /\ InterposerOK(c) /\ CurrentImmediate # None
         /\ Interposing(c) /\ InHand("immediate")
    BY <1>0, <1>15, WorkingInterposer, InterposerFacts
  <2>1. /\ AtPlace(c, "istart") /\ Handed("immediate", i, 1) /\ Moves(c, "idle")
        /\ UNCHANGED chars
    BY <1>0, <1>15, <2>0, <2>00, GiveImmediateFacts
  <2>2. Unaccounted' <=> Unaccounted
    BY <2>1, AccountedAlike DEF AtPlace
  <2>3. irp[i].routine = "none" /\ irp'[i].routine = "immediate"
    BY <2>00, <2>0, <2>1 DEF InterposerOK, Loose, Handed
  <2>6. /\ slot'["write"] = slot["write"]
        /\ slot'["immediate"].irp = slot["immediate"].irp
    BY <2>0, <2>1, SlotNames DEF Handed, OnlySlot, CurrentImmediate
  <2>4. Weight(i)' = Weight(i)
    BY <2>1, <2>2, <2>3, <2>6, WeightKept DEF Handed
  <2>5. \A j \in Irps : j # i => Weight(j)' = Weight(j)
    BY <2>1, <2>2, <2>6, OthersKept DEF Handed
  <2>. QED  BY <1>00, <2>1, <2>4, <2>5, CountKept
<1>16. ASSUME NEW c \in Contexts, GetNextImmediate(c)
      PROVE  CountInv'
  <2>0. PICK i \in Irps : i = CurrentImmediate
    BY <1>0, <1>16, WorkingInterposer, InterposerFacts
  <2>00. /\ RequestOK(i) /\ InterposerOK(c) /\ CurrentImmediate # None
         /\ Interposing(c) /\ InHand("immediate")
    BY <1>0, <1>16, WorkingInterposer, InterposerFacts
  <2>1. /\ AtPlace(c, "inext") /\ Finished(i, 0) /\ OnlySlot("immediate")
        /\ slot'["immediate"] = [slot["immediate"] EXCEPT !.irp = None]
        /\ Moves(c, "idle") /\ chars' = chars - 1
    BY <1>0, <1>16, <2>0, <2>00, NextImmediateFacts
  <2>2. Unaccounted' <=> Unaccounted
    BY <2>1, AccountedAlike DEF AtPlace
  <2>3. /\ slot'["immediate"].irp = None /\ None \notin Irps
        /\ slot'["write"] = slot["write"]
    BY <1>0, <2>1, SlotNames, SerialWriteAssumption DEF OnlySlot, TypeOK, Slot
  <2>6. irp[i].length = 1 /\ i \in Immediates
    <3>1. i \in Immediates
      BY <1>0, <2>0, <2>00 DEF KindInv
    <3>2. irp[i].status \notin {"new", "done"}
      BY <2>0, <2>00 DEF InterposerOK
    <3>. QED  BY <2>00, <3>1, <3>2, LiveFacts, LengthsBound
  <2>7. Weight(i) = 1
    BY <2>0, <2>6, BookedWeight DEF Booked
  <2>4. Weight(i)' = 0
    BY <2>1, NoLengthNoWeight DEF Finished
  <2>8. \A r \in {"write", "immediate"} : \A j \in Irps :
            j # i => (slot'[r].irp = j <=> slot[r].irp = j)
    BY <2>0, <2>3 DEF CurrentImmediate
  <2>9. OnlyRequest(i)
    BY <2>1 DEF Finished
  <2>5. \A j \in Irps : j # i => Weight(j)' = Weight(j)
    BY <2>2, <2>8, <2>9, OthersKept
  <2>. QED  BY <1>00, <2>1, <2>4, <2>5, <2>7, LengthsBound, CountLowered
<1>17. ASSUME NEW c \in Contexts, NEW s \in Slots, NEW h, NEW st, EndingOf(h,
  st),
           Ending(c, s, h, st)
      PROVE  CountInv'
  <2>. DEFINE sent == slot[s].sent /\ h # "isr"
              late == slot[s].late /\ h # "timer"
              last == ~sent /\ ~late
  <2>0. PICK i \in Irps : i = slot[s].irp
    BY <1>17 DEF Ending
  <2>1. /\ ~InHand(s)
        /\ AtPlace(c, "idle") \/ (AtPlace(c, "start") /\ s = "xoff")
        /\ OnlyRequest(i) /\ OnlySlot(s)
        /\ slot'[s].irp = IF last /\ s = "xoff" THEN None ELSE i
        /\ slot'[s].owed = 0 /\ ~slot'[s].timer
        /\ slot'[s].sent <=> sent
        /\ slot'[s].late <=> late
        /\ last /\ s = "xoff" => Finished(i, 0)
        /\ ~(last /\ s = "xoff") =>
               /\ \A r : r \in irp'[i].refs <=>
                      (r = "isr" /\ sent) \/ (r = "timer" /\ late)
               /\ irp'[i].routine = "none"
               /\ irp'[i].status = IF last THEN st ELSE irp[i].status
               /\ irp'[i].length = irp[i].length
               /\ irp'[i].wire = irp[i].wire
        /\ Moves(c, IF last /\ s = "write" THEN "next"
                    ELSE IF last /\ s = "immediate" THEN "inext"
                    ELSE IF AtPlace(c, "start") THEN "give" ELSE "idle")
    BY <1>17, <2>0 DEF Ending
  <2>2. last <=> ~sent /\ ~late
    OBVIOUS
  <2>. HIDE DEF sent, late, last
  <2>3. None \notin Irps /\ i # None
    BY SerialWriteAssumption
  <2>4. st \in {"success", "timeout", "cancelled"}
    BY <1>17 DEF EndingOf
  <2>5. irp[i].status = IF s = "xoff" THEN "success" ELSE "pending"
    BY <1>0, <2>0, <2>1, <2>3 DEF HeldInv, HeldOK
  <2>6. UNCHANGED chars
    BY <1>17 DEF Ending
  <2>7. Unaccounted' <=> Unaccounted
    BY <2>1, AccountedAlike DEF AtPlace
  <2>8. irp[i].routine # "queued"
    BY <1>0, <2>0 DEF RequestOK, Unknown
  <2>9. \A r \in {"write", "immediate"} : slot'[r].irp = slot[r].irp
    BY <2>0, <2>1, SlotNames DEF OnlySlot
  <2>10. \A j \in Irps : j # i => Weight(j)' = Weight(j)
    BY <2>1, <2>7, <2>9, OthersKept
  <2>11. Weight(i)' = Weight(i)
    <3>1. CASE ~(last /\ s = "xoff")
      <4>1. irp[i].status # "done" /\ irp'[i].status # "done"
        BY <2>1, <2>4, <2>5, <3>1
      <4>. QED  BY <2>1, <2>7, <2>8, <2>9, <3>1, <4>1, WeightKept
    <3>2. CASE last /\ s = "xoff"
      <4>1. Weight(i)' = 0
        BY <2>1, <3>2, NoLengthNoWeight DEF Finished
      <4>2. i # CurrentImmediate /\ irp[i].status # "done"
        BY <1>0, <2>0, <2>3, <2>5, <3>2, WriteAndImmediate
      <4>3. i = CurrentWrite => ~Unaccounted
        <5>1. SUFFICES ASSUME i = CurrentWrite PROVE ~Unaccounted
          OBVIOUS
        <5>2. \E d \in Contexts : AtPlace(d, "keep")
          BY <1>0, <2>0, <2>3, <3>2, <5>1, SlotNames, TwoSlots DEF CurrentWrite
        <5>. QED  BY <5>2 DEF Unaccounted, AtPlace
      <4>. QED  BY <2>8, <4>1, <4>2, <4>3 DEF Weight, Booked
    <3>. QED  BY <3>1, <3>2
  <2>. QED  BY <1>00, <2>6, <2>10, <2>11, CountKept
<1>18. ASSUME NEW s \in Slots, Expire(s)
      PROVE  CountInv'
  <2>1. /\ UNCHANGED <<irp, chars, pc>>
        /\ \A r \in Slots : slot'[r].irp = slot[r].irp
    BY <1>0, <1>18 DEF Expire, TypeOK, Slot
  <2>2. \A j \in Irps : Weight(j)' = Weight(j)
    BY <2>1, SlotNames, WeightKept DEF Unaccounted
  <2>. QED  BY <1>00, <2>1, <2>2, CountKept
<1>19. CASE CountSinceXoff
  <2>1. /\ UNCHANGED <<irp, chars, pc>>
        /\ \A r \in Slots : slot'[r].irp = slot[r].irp
    BY <1>0, <1>19 DEF CountSinceXoff, TypeOK, Slot
  <2>2. \A j \in Irps : Weight(j)' = Weight(j)
    BY <2>1, SlotNames, WeightKept DEF Unaccounted
  <2>. QED  BY <1>00, <2>1, <2>2, CountKept
<1>20. CASE SentImmediate
  <2>1. /\ UNCHANGED <<chars, pc>>
        /\ OnlyRequest(CurrentImmediate) /\ OnlySlot("immediate")
        /\ slot'["immediate"].irp = slot["immediate"].irp
        /\ CurrentImmediate \in Irps
        /\ SameHolders(CurrentImmediate)
        /\ irp'[CurrentImmediate].status = irp[CurrentImmediate].status
        /\ irp'[CurrentImmediate].length = irp[CurrentImmediate].length
    BY <1>20 DEF SentImmediate, CurrentWrite, CurrentImmediate
  <2>2. PICK i \in Irps : i = CurrentImmediate
    BY <2>1
  <2>3. \A r \in {"write", "immediate"} : slot'[r].irp = slot[r].irp
    BY <2>1, SlotNames DEF OnlySlot
  <2>4. Weight(i)' = Weight(i)
    BY <2>1, <2>2, <2>3, WeightKept DEF SameHolders, Unaccounted
  <2>5. \A j \in Irps : j # i => Weight(j)' = Weight(j)
    BY <2>1, <2>2, <2>3, OthersKept DEF Unaccounted
  <2>. QED  BY <1>00, <2>1, <2>4, <2>5, CountKept
<1>21. CASE SentWrite
  <2>1. /\ UNCHANGED <<chars, pc>>
        /\ OnlyRequest(CurrentWrite) /\ OnlySlot("write")
        /\ slot'["write"].irp = slot["write"].irp
        /\ CurrentWrite \in Irps
        /\ SameHolders(CurrentWrite)
        /\ irp'[CurrentWrite].status = irp[CurrentWrite].status
        /\ irp'[CurrentWrite].length = irp[CurrentWrite].length
    BY <1>21 DEF SentWrite, CurrentWrite, CurrentImmediate
  <2>2. PICK i \in Irps : i = CurrentWrite
    BY <2>1
  <2>3. \A r \in {"write", "immediate"} : slot'[r].irp = slot[r].irp
    BY <2>1, SlotNames DEF OnlySlot
  <2>4. Weight(i)' = Weight(i)
    BY <2>1, <2>2, <2>3, WeightKept DEF SameHolders, Unaccounted
  <2>5. \A j \in Irps : j # i => Weight(j)' = Weight(j)
    BY <2>1, <2>2, <2>3, OthersKept DEF Unaccounted
  <2>. QED  BY <1>00, <2>1, <2>4, <2>5, CountKept
<1>22. CASE Outside
  <2>1. UNCHANGED <<irp, slot, chars, pc>>
    BY <1>22 DEF Outside
  <2>2. \A j \in Irps : Weight(j)' = Weight(j)
    BY <2>1, WeightKept DEF Unaccounted
  <2>. QED  BY <1>00, <2>1, <2>2, CountKept
<1>. QED
  BY StepCases, <1>1, <1>2, <1>3, <1>4, <1>5, <1>6, <1>7, <1>8, <1>9, <1>10,
     <1>11, <1>12, <1>13, <1>14, <1>15, <1>16, <1>17, <1>18, <1>19, <1>20,
     <1>21, <1>22
     DEF NormalStep

-----------------------------------------------------------------------------
(* The types. *)

RequestTyped == irp \in [Irps -> Irp] /\ completions \in [Irps -> Nat]
SlotTyped == slot \in [Slots -> Slot]
LineTyped == /\ held \subseteq HoldReasons
             /\ holdingEmpty \in BOOLEAN
             /\ uart \in {"busy", "irq", "idle"}
             /\ flowChar \in {"none", "xon", "xoff"}
             /\ emptied \in BOOLEAN
             /\ announced \in BOOLEAN
             /\ stranded \in BOOLEAN
PlaceTyped == pc \in [Contexts -> Places]
Typed == RequestTyped /\ SlotTyped /\ LineTyped /\ PlaceTyped

\* A request that has ended is a request.
LEMMA EndedTypes ==
    ASSUME NEW n \in 0..MaxLen
    PROVE  Ended \in Irp /\ [Ended EXCEPT !.length = n] \in Irp /\ New \in Irp
<1>1. 0 \in 0..MaxLen
  BY LengthsBound
<1>2. New \in Irp
  BY <1>1 DEF New, Irp, RefTypes
<1>3. Ended \in Irp
  BY <1>2 DEF Ended, Irp
<1>. QED  BY <1>2, <1>3 DEF Irp

\* Requests stay requests when one is replaced by another,
LEMMA RequestUpdated ==
    ASSUME irp \in [Irps -> Irp], NEW i \in Irps, NEW r \in Irp,
           irp' = [irp EXCEPT ![i] = r]
    PROVE  irp' \in [Irps -> Irp]
  OBVIOUS

\* completions stay numbers,
LEMMA CompletedOnce ==
    ASSUME completions \in [Irps -> Nat], NEW i \in Irps, Complete(i)
    PROVE  completions' \in [Irps -> Nat]
  BY DEF Complete

\* and both hold when a request is completed,
LEMMA FinishTypes ==
    ASSUME TypeOK, NEW i \in Irps,
           Finish(i) \/ \E n \in 0..MaxLen : FinishCounted(i, n)
    PROVE  RequestTyped'
<1>1. irp \in [Irps -> Irp] /\ completions \in [Irps -> Nat]
  BY DEF TypeOK
<1>2. Complete(i) /\ \E r \in Irp : irp' = [irp EXCEPT ![i] = r]
  BY EndedTypes, LengthsBound DEF Finish, FinishCounted
<1>. QED  BY <1>1, <1>2, RequestUpdated, CompletedOnce DEF RequestTyped

\* or accepted.
LEMMA AcceptTypes ==
    ASSUME TypeOK, NEW i \in Irps, NEW n \in Lengths(i), UNCHANGED completions,
           \/ irp' = [irp EXCEPT ![i].length = n, ![i].status = "pending"]
           \/ irp' = [irp EXCEPT ![i].length = n, ![i].status = "pending",
                                 ![i].routine = "queued"]
    PROVE  RequestTyped'
<1>1. irp[i] \in Irp /\ n \in 0..MaxLen
  BY LengthsBound DEF TypeOK
<1>2. /\ [irp[i] EXCEPT !.length = n, !.status = "pending"] \in Irp
      /\ [irp[i] EXCEPT !.length = n, !.status = "pending",
                        !.routine = "queued"] \in Irp
  BY <1>1 DEF Irp
<1>. QED  BY <1>2 DEF TypeOK, RequestTyped

\* A slot may be given any request,
LEMMA SlotGiven ==
    ASSUME TypeOK, NEW s \in Slots, NEW x \in Irps \cup {None},
           slot' = [slot EXCEPT ![s].irp = x]
    PROVE  SlotTyped'
<1>1. [slot[s] EXCEPT !.irp = x] \in Slot
  BY DEF TypeOK, Slot
<1>. QED  BY <1>1 DEF TypeOK, SlotTyped

\* and a context may go to any place.
LEMMA PlaceTaken ==
    ASSUME TypeOK, NEW c \in Contexts, NEW p \in Places, Go(c, p)
    PROVE  PlaceTyped'
  BY DEF TypeOK, PlaceTyped, Go

\* The types after HandToIsr.
LEMMA HandTypes ==
    ASSUME TypeOK, NEW s \in Slots, NEW i \in Irps, NEW n \in Nat,
           n <= MaxLen + MaxCounter, HandToIsr(s, i, n), UNCHANGED completions
    PROVE  RequestTyped' /\ SlotTyped'
<1>1. PICK t \in TimerChoices :
          /\ irp' = [irp EXCEPT ![i].routine = s,
                                ![i].refs = {"cancel", "isr"} \cup
                                            (IF t THEN {"timer"} ELSE {})]
          /\ slot' = [slot EXCEPT ![s].irp = i, ![s].owed = n, ![s].timer = t]
  BY DEF HandToIsr
<1>2. t \in BOOLEAN /\ n \in 0..(MaxLen + MaxCounter)
  BY SerialWriteAssumption
<1>. DEFINE refs == {"cancel", "isr"} \cup (IF t THEN {"timer"} ELSE {})
<1>3. refs \in SUBSET RefTypes
  BY DEF RefTypes
<1>4. irp' = [irp EXCEPT ![i].routine = s, ![i].refs = refs]
  BY <1>1
<1>. HIDE DEF refs
<1>5. [irp[i] EXCEPT !.routine = s, !.refs = refs] \in Irp
  BY <1>3 DEF TypeOK, Irp
<1>6. [slot[s] EXCEPT !.irp = i, !.owed = n, !.timer = t] \in Slot
  BY <1>2 DEF TypeOK, Slot
<1>7. irp' \in [Irps -> Irp] /\ slot' \in [Slots -> Slot]
  BY <1>1, <1>4, <1>5, <1>6 DEF TypeOK
<1>. QED  BY <1>7 DEF TypeOK, RequestTyped, SlotTyped

\* A step that leaves the UART and the flow control alone.
LEMMA LineAlone ==
    ASSUME TypeOK, UNCHANGED <<held, holdingEmpty, flowChar, emptied>>,
           \/ UNCHANGED <<uart, stranded>>
           \/ \E when : Tickle(when),
           \/ announced' = announced
           \/ \E x, y : Announce(x, y)
    PROVE  LineTyped'
  BY DEF TypeOK, LineTyped, Tickle, Wake, Announce

\* What SerialGrabWriteFromIsr reports is what was put into the UART.
LEMMA AmountTypes ==
    ASSUME IInv, NEW s \in Slots, slot[s].owed > 0, slot[s].irp \in Writes
    PROVE  AmountSent(slot[s].irp) \in 0..MaxLen
<1>0. TypeOK /\ KindInv /\ RefsMatchHolders /\ SentInv
  BY DEF IInv
<1>1. slot[s].irp # None /\ ~InHand(s)
  BY <1>0, HeldSlot
<1>2. s = "write"
  BY <1>0, SerialWriteAssumption
     DEF Slots, KindInv, CurrentWrite, CurrentImmediate, QueueIrps, Irps
<1>3. PICK i \in Irps : i = slot[s].irp
  BY <1>0, <1>1, CurrentRequest
<1>4. irp[i].wire + slot["write"].owed = irp[i].length
  BY <1>0, <1>1, <1>2, <1>3 DEF SentInv, CurrentWrite
<1>5. irp[i].wire \in 0..MaxLen /\ irp[i].length \in 0..MaxLen
  BY <1>0, <1>3, RequestTypes
<1>6. slot["write"].owed \in 0..(MaxLen + MaxCounter)
  BY <1>0, SlotTypes, SlotNames
<1>7. AmountSent(i) = irp[i].wire
  BY <1>4, <1>5, <1>6, SerialWriteAssumption DEF AmountSent
<1>. QED  BY <1>3, <1>5, <1>7

\* The types after SerialTryToCompleteCurrent.
LEMMA TryTypes ==
    ASSUME IInv,
           NEW c \in Contexts, NEW s \in Slots, NEW h, NEW st,
           NEW sync \in BOOLEAN, NEW timed \in BOOLEAN,
           TryToCompleteCurrent(c, s, h, st, sync, timed), EndingOf(h, st),
           slot[s].irp # None
    PROVE  Typed'
<1>. DEFINE i == slot[s].irp
            left == ReferencesLeft(s, h, sync, timed)
            last == left = {}
            info == IF i \notin Writes \/ (last /\ st = "cancelled") THEN 0
                    ELSE IF sync /\ slot[s].owed > 0 THEN AmountSent(i)
                    ELSE irp[i].info
            status == IF last THEN st ELSE irp[i].status
            cancel == irp[i].cancel \/ h = "cancel"
            irp2 == IF last /\ s = "xoff" THEN None ELSE i
            owed2 == IF sync THEN 0 ELSE slot[s].owed
            timer2 == slot[s].timer /\ ~timed
            sent2 == slot[s].sent /\ h # "isr"
            late2 == slot[s].late /\ h # "timer"
            p == CASE last /\ s = "write" -> "next"
                   [] last /\ s = "immediate" -> "inext"
                   [] OTHER -> IF AtPlace(c, "start") THEN "give" ELSE "idle"
<1>0. TypeOK
  BY DEF IInv
<1>1. i \in Irps
  BY <1>0, CurrentRequest
<1>2. irp[i] \in Irp /\ slot[s] \in Slot
  BY <1>0, <1>1 DEF TypeOK
<1>3. left \in SUBSET RefTypes
  BY <1>2 DEF ReferencesLeft, Irp
<1>4. info \in 0..MaxLen
  <2>1. irp[i].info \in 0..MaxLen /\ 0 \in 0..MaxLen
    BY <1>2, LengthsBound DEF Irp
  <2>2. i \in Writes /\ slot[s].owed > 0 => AmountSent(i) \in 0..MaxLen
    BY AmountTypes
  <2>. HIDE DEF left, i
  <2>. QED  BY <2>1, <2>2
<1>5. st \in {"success", "timeout", "cancelled"}
  BY DEF EndingOf
<1>6. status \in {"new", "pending", "success", "timeout", "cancelled", "done"}
  <2>1. irp[i].status \in {"new", "pending", "success", "timeout", "cancelled",
                           "done"}
    BY <1>2 DEF Irp
  <2>. HIDE DEF left, i
  <2>. QED  BY <1>5, <2>1
<1>7. cancel \in BOOLEAN
  OBVIOUS
<1>8. /\ irp2 \in Irps \cup {None} /\ timer2 \in BOOLEAN
      /\ sent2 \in BOOLEAN /\ late2 \in BOOLEAN
  BY <1>1
<1>9. owed2 \in 0..(MaxLen + MaxCounter)
  BY <1>2, SerialWriteAssumption DEF Slot
<1>10. p \in Places
  BY DEF Places
<1>11. /\ slot' = [slot EXCEPT ![s] = [irp |-> irp2, owed |-> owed2,
                                       timer |-> timer2, sent |-> sent2,
                                       late |-> late2]]
       /\ IF last /\ s = "xoff" THEN Finish(i)
          ELSE /\ irp' = [irp EXCEPT ![i] =
                             [irp[i] EXCEPT !.cancel = cancel, !.refs = left,
                                            !.routine = "none",
                                            !.status = status,
                                            !.info = info]]
               /\ UNCHANGED completions
       /\ Go(c, p)
       /\ UNCHANGED <<queue, chars, uartVars>>
  BY <1>0, <1>1 DEF TryToCompleteCurrent, TypeOK
<1>. HIDE DEF left, info, status, cancel, irp2, owed2, timer2, sent2, late2, p,
              last, i
<1>12. SlotTyped'
  <2>1. [irp |-> irp2, owed |-> owed2, timer |-> timer2, sent |-> sent2,
         late |-> late2] \in Slot
    BY <1>8, <1>9 DEF Slot
  <2>. QED  BY <1>0, <1>11, <2>1 DEF TypeOK, SlotTyped
<1>13. RequestTyped'
  <2>1. CASE last /\ s = "xoff"
    BY <1>0, <1>1, <1>11, <2>1, FinishTypes
  <2>2. CASE ~(last /\ s = "xoff")
    <3>1. [irp[i] EXCEPT !.cancel = cancel, !.refs = left, !.routine = "none",
                         !.status = status, !.info = info] \in Irp
      BY <1>2, <1>3, <1>4, <1>6, <1>7 DEF Irp
    <3>2. irp' \in [Irps -> Irp]
      BY <1>0, <1>1, <1>11, <2>2, <3>1 DEF TypeOK
    <3>. QED  BY <1>0, <1>11, <2>2, <3>2 DEF RequestTyped, TypeOK
  <2>. QED  BY <2>1, <2>2
<1>14. PlaceTyped'
  BY <1>0, <1>10, <1>11, PlaceTaken
<1>15. LineTyped'
  BY <1>0, <1>11 DEF LineTyped, TypeOK, uartVars
<1>. QED  BY <1>12, <1>13, <1>14, <1>15 DEF Typed

\* What the ISR sends keeps the types.
LEMMA SendTypes ==
    ASSUME IInv, NEW x, SendsImmediate(x) \/ SendsWrite(x),
           IF SendsImmediate(x) THEN SendImmediate ELSE SendWrite,
           UNCHANGED completions
    PROVE  RequestTyped' /\ SlotTyped'
<1>0. IInv /\ TypeOK /\ RefsMatchHolders /\ SentInv
  BY DEF IInv
<1>1. CASE SendsImmediate(x)
  <2>1. slot["immediate"].owed > 0 /\ SendImmediate
    BY <1>1 DEF SendsImmediate
  <2>2. CurrentImmediate \in Irps
    BY <1>0, <2>1, HeldSlot, CurrentRequest, SlotNames DEF CurrentImmediate
  <2>3. [slot["immediate"] EXCEPT !.owed = 0, !.sent = TRUE] \in Slot
    <3>1. 0 \in 0..(MaxLen + MaxCounter)
      BY SerialWriteAssumption
    <3>. QED  BY <1>0, <3>1, SlotNames DEF TypeOK, Slot
  <2>4. [irp[CurrentImmediate] EXCEPT !.wire = 1] \in Irp
    <3>1. 1 \in 0..MaxLen
      BY SerialWriteAssumption
    <3>2. irp[CurrentImmediate] \in Irp
      BY <1>0, <2>2 DEF TypeOK
    <3>. QED  BY <3>1, <3>2 DEF Irp
  <2>. QED
    BY <1>0, <2>1, <2>2, <2>3, <2>4
       DEF SendImmediate, TypeOK, RequestTyped, SlotTyped
<1>2. CASE ~SendsImmediate(x)
  <2>1. slot["write"].owed > 0 /\ SendWrite
    BY <1>2 DEF SendsWrite
  <2>2. slot["write"].irp # None /\ ~InHand("write")
    BY <1>0, <2>1, HeldSlot, SlotNames
  <2>3. PICK i \in Irps : i = CurrentWrite
    BY <1>0, <2>2, CurrentRequest, SlotNames DEF CurrentWrite
  <2>. DEFINE n == Lesser(FifoSize, slot["write"].owed)
              owed2 == slot["write"].owed - n
              last == n = slot["write"].owed
              sent2 == slot["write"].sent \/ last
              wire2 == irp[i].wire + n
              info2 == IF last /\ i \in Writes THEN irp[i].length
                       ELSE irp[i].info
  <2>4. /\ irp[i].wire \in 0..MaxLen /\ irp[i].length \in 0..MaxLen
        /\ irp[i].info \in 0..MaxLen
    BY <1>0, RequestTypes
  <2>5. irp[i].wire + slot["write"].owed = irp[i].length
    BY <1>0, <2>1, <2>2, <2>3 DEF SentInv, CurrentWrite
  <2>6. slot["write"].owed \in 0..(MaxLen + MaxCounter)
    BY <1>0, SlotTypes, SlotNames
  <2>7. n \in 1..slot["write"].owed
    BY <2>1, <2>6, SerialWriteAssumption DEF Lesser
  <2>8. /\ slot' = [slot EXCEPT !["write"] =
                       [slot["write"] EXCEPT !.owed = owed2, !.sent = sent2]]
        /\ irp' = [irp EXCEPT ![i] =
                      [irp[i] EXCEPT !.wire = wire2, !.info = info2]]
    BY <1>0, <2>1, <2>3, SlotNames DEF SendWrite, TypeOK
  <2>9. sent2 \in BOOLEAN
    OBVIOUS
  <2>. HIDE DEF n
  <2>10. owed2 \in 0..(MaxLen + MaxCounter)
    BY <2>6, <2>7, SerialWriteAssumption
  <2>11. wire2 \in 0..MaxLen
    BY <2>4, <2>5, <2>6, <2>7, SerialWriteAssumption
  <2>. HIDE DEF last
  <2>12. info2 \in 0..MaxLen
    BY <2>4
  <2>. HIDE DEF owed2, sent2, wire2, info2
  <2>13. [slot["write"] EXCEPT !.owed = owed2, !.sent = sent2] \in Slot
    BY <1>0, <2>9, <2>10, SlotNames DEF TypeOK, Slot
  <2>14. [irp[i] EXCEPT !.wire = wire2, !.info = info2] \in Irp
    BY <1>0, <2>11, <2>12 DEF TypeOK, Irp
  <2>. QED
    BY <1>0, <2>8, <2>13, <2>14 DEF TypeOK, RequestTyped, SlotTyped
<1>. QED  BY <1>1, <1>2

\* The types after the ISR has sent.
LEMMA TransmitTypes ==
    ASSUME IInv, NEW x \in SUBSET HoldReasons, Transmit(x),
           UNCHANGED <<completions, pc>>
    PROVE  Typed'
<1>0. TypeOK
  BY DEF IInv
<1>1. LineTyped'
  BY <1>0, SerialWriteAssumption DEF Transmit, SendFlowChar, TypeOK, LineTyped
<1>2. RequestTyped' /\ SlotTyped'
  <2>1. CASE ~SendsFlowChar(x) /\ (SendsImmediate(x) \/ SendsWrite(x))
    BY <2>1, SendTypes DEF Transmit
  <2>2. CASE SendsFlowChar(x) \/ ~(SendsImmediate(x) \/ SendsWrite(x))
    BY <1>0, <2>2 DEF Transmit, TypeOK, RequestTyped, SlotTyped
  <2>. QED  BY <2>1, <2>2
<1>. QED  BY <1>0, <1>1, <1>2 DEF Typed, TypeOK, PlaceTyped

\* Every step keeps the types of what it changes.
LEMMA TypedStep == IInv /\ [Next]_vars => Typed'
<1>. SUFFICES ASSUME IInv, [Next]_vars PROVE Typed'
  OBVIOUS
<1>0. IInv /\ TypeOK
  BY DEF IInv
<1>1. ASSUME NEW i \in Irps, RefuseAtDispatch(i)
      PROVE  Typed'
  <2>1. RequestTyped'
    BY <1>0, <1>1, FinishTypes DEF RefuseAtDispatch
  <2>2. SlotTyped'
    BY <1>0, <1>1 DEF RefuseAtDispatch, TypeOK, SlotTyped
  <2>3. LineTyped'
    BY <1>0, <1>1 DEF RefuseAtDispatch, TypeOK, LineTyped, uartVars
  <2>4. PlaceTyped'
    BY <1>0, <1>1 DEF RefuseAtDispatch, TypeOK, PlaceTyped
  <2>. QED  BY <2>1, <2>2, <2>3, <2>4 DEF Typed
<1>2. ASSUME NEW i \in Irps, QueueAtDispatch(i)
      PROVE  Typed'
  <2>1. RequestTyped'
    BY <1>0, <1>2, AcceptTypes DEF QueueAtDispatch
  <2>2. SlotTyped'
    BY <1>0, <1>2 DEF QueueAtDispatch, TypeOK, SlotTyped
  <2>3. LineTyped'
    BY <1>0, <1>2 DEF QueueAtDispatch, TypeOK, LineTyped, uartVars
  <2>4. PlaceTyped'
    BY <1>0, <1>2 DEF QueueAtDispatch, TypeOK, PlaceTyped
  <2>. QED  BY <2>1, <2>2, <2>3, <2>4 DEF Typed
<1>3. ASSUME NEW i \in Irps, CancelledAtDispatch(i)
      PROVE  Typed'
  <2>1. RequestTyped'
    BY <1>0, <1>3, FinishTypes, LengthsBound DEF CancelledAtDispatch
  <2>2. SlotTyped'
    BY <1>0, <1>3 DEF CancelledAtDispatch, TypeOK, SlotTyped
  <2>3. LineTyped'
    BY <1>0, <1>3 DEF CancelledAtDispatch, TypeOK, LineTyped, uartVars
  <2>4. PlaceTyped'
    BY <1>0, <1>3 DEF CancelledAtDispatch, TypeOK, PlaceTyped
  <2>. QED  BY <2>1, <2>2, <2>3, <2>4 DEF Typed
<1>4. ASSUME NEW i \in Irps, CancelQueuedIrp(i)
      PROVE  Typed'
  <2>1. RequestTyped'
    BY <1>0, <1>4, FinishTypes DEF CancelQueuedIrp
  <2>2. SlotTyped'
    BY <1>0, <1>4 DEF CancelQueuedIrp, TypeOK, SlotTyped
  <2>3. LineTyped'
    BY <1>0, <1>4 DEF CancelQueuedIrp, TypeOK, LineTyped, uartVars
  <2>4. PlaceTyped'
    BY <1>0, <1>4 DEF CancelQueuedIrp, TypeOK, PlaceTyped
  <2>. QED  BY <2>1, <2>2, <2>3, <2>4 DEF Typed
<1>5. ASSUME NEW i \in Irps, FlagCancel(i)
      PROVE  Typed'
  <2>1. RequestTyped'
    <3>1. [irp[i] EXCEPT !.cancel = TRUE] \in Irp
      BY <1>0 DEF TypeOK, Irp
    <3>. QED  BY <1>0, <1>5, <3>1 DEF FlagCancel, TypeOK, RequestTyped
  <2>2. SlotTyped'
    BY <1>0, <1>5 DEF FlagCancel, TypeOK, SlotTyped
  <2>3. LineTyped'
    BY <1>0, <1>5 DEF FlagCancel, TypeOK, LineTyped, uartVars
  <2>4. PlaceTyped'
    BY <1>0, <1>5 DEF FlagCancel, TypeOK, PlaceTyped
  <2>. QED  BY <2>1, <2>2, <2>3, <2>4 DEF Typed
<1>6. ASSUME NEW c \in Contexts, NEW i \in Irps, StartAtDispatch(c, i)
      PROVE  Typed'
  <2>1. RequestTyped'
    BY <1>0, <1>6, AcceptTypes DEF StartAtDispatch
  <2>2. SlotTyped'
    BY <1>0, <1>6, SlotGiven, SlotNames DEF StartAtDispatch
  <2>3. LineTyped'
    BY <1>0, <1>6 DEF StartAtDispatch, TypeOK, LineTyped, uartVars
  <2>4. PlaceTyped'
    BY <1>0, <1>6, PlaceTaken DEF StartAtDispatch, Places
  <2>. QED  BY <2>1, <2>2, <2>3, <2>4 DEF Typed
<1>7. ASSUME NEW c \in Contexts, NEW i \in Irps, ImmediateAtDispatch(c, i)
      PROVE  Typed'
  <2>1. RequestTyped'
    <3>1. 1 \in Lengths(i)
      BY <1>7, LengthsBound DEF ImmediateAtDispatch
    <3>. QED  BY <1>0, <1>7, <3>1, AcceptTypes DEF ImmediateAtDispatch
  <2>2. SlotTyped'
    BY <1>0, <1>7, SlotGiven, SlotNames DEF ImmediateAtDispatch
  <2>3. LineTyped'
    BY <1>0, <1>7 DEF ImmediateAtDispatch, TypeOK, LineTyped, uartVars
  <2>4. PlaceTyped'
    BY <1>0, <1>7, PlaceTaken DEF ImmediateAtDispatch, Places
  <2>. QED  BY <2>1, <2>2, <2>3, <2>4 DEF Typed
<1>8. ASSUME NEW c \in Contexts, PreemptXoff(c)
      PROVE  Typed'
  <2>1. slot["xoff"].irp # None
        /\ TryToCompleteCurrent(c, "xoff", "xoffref", "success", TRUE, TRUE)
    BY <1>8 DEF PreemptXoff
  <2>. QED  BY <1>0, <2>1, TryTypes, SlotNames DEF EndingOf
<1>9. ASSUME NEW c \in Contexts, FinishCancelled(c)
      PROVE  Typed'
  <2>0. CurrentWrite \in Irps /\ RequestOK(CurrentWrite)
    BY <1>0, <1>9, WorkingWriter, WriterFacts
  <2>1. RequestTyped'
    <3>1. [irp[CurrentWrite] EXCEPT !.status = "cancelled"] \in Irp
      BY <1>0, <2>0 DEF TypeOK, Irp
    <3>. QED  BY <1>0, <1>9, <2>0, <3>1 DEF FinishCancelled, TypeOK,
                 RequestTyped
  <2>2. SlotTyped'
    BY <1>0, <1>9 DEF FinishCancelled, TypeOK, SlotTyped
  <2>3. LineTyped'
    BY <1>0, <1>9 DEF FinishCancelled, TypeOK, LineTyped, uartVars
  <2>4. PlaceTyped'
    BY <1>0, <1>9, PlaceTaken DEF FinishCancelled, Places
  <2>. QED  BY <2>1, <2>2, <2>3, <2>4 DEF Typed
<1>10. ASSUME NEW c \in Contexts, GiveWrite(c)
      PROVE  Typed'
  <2>0. CurrentWrite \in Irps
    BY <1>0, <1>10, WorkingWriter, WriterFacts
  <2>1. irp[CurrentWrite].length \in Nat
        /\ irp[CurrentWrite].length <= MaxLen + MaxCounter
    BY <1>0, <2>0, RequestTypes, SerialWriteAssumption
  <2>2. RequestTyped' /\ SlotTyped'
    BY <1>0, <1>10, <2>0, <2>1, HandTypes, SlotNames DEF GiveWrite
  <2>3. LineTyped'
    BY <1>0, <1>10, LineAlone DEF GiveWrite
  <2>4. PlaceTyped'
    BY <1>0, <1>10, PlaceTaken DEF GiveWrite, Places
  <2>. QED  BY <2>2, <2>3, <2>4 DEF Typed
<1>11. ASSUME NEW c \in Contexts, Account(c)
      PROVE  Typed'
  <2>1. RequestTyped'
    BY <1>0, <1>11 DEF Account, TypeOK, RequestTyped
  <2>2. SlotTyped'
    BY <1>0, <1>11 DEF Account, TypeOK, SlotTyped
  <2>3. LineTyped'
    BY <1>0, <1>11 DEF Account, TypeOK, LineTyped, uartVars
  <2>4. PlaceTyped'
    BY <1>0, <1>11, PlaceTaken DEF Account, Places
  <2>. QED  BY <2>1, <2>2, <2>3, <2>4 DEF Typed
<1>12. ASSUME NEW c \in Contexts, AccountXoff(c)
      PROVE  Typed'
  <2>0. CurrentWrite \in Irps
    BY <1>0, <1>12, WorkingWriter, WriterFacts
  <2>1. RequestTyped' /\ SlotTyped' /\ PlaceTyped'
    <3>1. CASE irp[CurrentWrite].cancel
      <4>1. [irp[CurrentWrite] EXCEPT !.status = "cancelled"] \in Irp
        BY <1>0, <2>0 DEF TypeOK, Irp
      <4>2. RequestTyped' /\ SlotTyped'
        BY <1>0, <1>12, <2>0, <3>1, <4>1
           DEF AccountXoff, TypeOK, RequestTyped, SlotTyped
      <4>3. PlaceTyped'
        BY <1>0, <1>12, <3>1, PlaceTaken DEF AccountXoff, Places
      <4>. QED  BY <4>2, <4>3
    <3>2. CASE ~irp[CurrentWrite].cancel
      <4>1. PICK n \in 1..MaxCounter : HandToIsr("xoff", CurrentWrite, n)
        BY <1>12, <3>2 DEF AccountXoff
      <4>2. n \in Nat /\ n <= MaxLen + MaxCounter /\ UNCHANGED completions
        BY <1>12, SerialWriteAssumption DEF AccountXoff
      <4>3. RequestTyped' /\ SlotTyped'
        BY <1>0, <2>0, <4>1, <4>2, HandTypes, SlotNames
      <4>4. PlaceTyped'
        BY <1>0, <1>12, <3>2, PlaceTaken DEF AccountXoff, Places
      <4>. QED  BY <4>3, <4>4
    <3>. QED  BY <3>1, <3>2
  <2>2. LineTyped'
    BY <1>0, <1>12 DEF AccountXoff, TypeOK, LineTyped, uartVars
  <2>. QED  BY <2>1, <2>2 DEF Typed
<1>13. ASSUME NEW c \in Contexts, GetNextIrp(c)
      PROVE  Typed'
  <2>. DEFINE next == IF queue = <<>> THEN None ELSE Head(queue)
              ended == IF AtPlace(c, "pop") THEN {CurrentWrite} ELSE {}
  <2>1. next \in Irps \cup {None}
    BY <1>0, HeadEntries DEF TypeOK, IInv, QueueInv, Irps
  <2>2. /\ irp' = [i \in Irps |->
                      IF i \in ended THEN Ended
                      ELSE IF i = next THEN [irp[i] EXCEPT !.routine = "none"]
                      ELSE irp[i]]
        /\ completions' = [i \in Irps |->
                              completions[i] + IF i \in ended THEN 1 ELSE 0]
        /\ slot' = [slot EXCEPT !["write"].irp = next]
        /\ pc[c] \in {"pop", "keep"}
        /\ Go(c, IF queue = <<>> THEN "empty"
                 ELSE IF next \in Flushes THEN pc[c] ELSE "start")
        /\ UNCHANGED uartVars
    BY <1>13 DEF GetNextIrp
  <2>. HIDE DEF next, ended
  <2>3. SlotTyped'
    BY <1>0, <2>1, <2>2, SlotGiven, SlotNames
  <2>4. PlaceTyped'
    BY <1>0, <2>2, PlaceTaken DEF Places
  <2>5. LineTyped'
    BY <1>0, <2>2 DEF TypeOK, LineTyped, uartVars
  <2>6. RequestTyped'
    <3>1. Ended \in Irp
      BY EndedTypes, LengthsBound
    <3>2. \A i \in Irps : irp[i] \in Irp /\ [irp[i] EXCEPT !.routine = "none"]
              \in Irp
      BY <1>0 DEF TypeOK, Irp
    <3>3. irp' \in [Irps -> Irp]
      BY <2>2, <3>1, <3>2
    <3>4. completions' \in [Irps -> Nat]
      BY <1>0, <2>2 DEF TypeOK
    <3>. QED  BY <3>3, <3>4 DEF RequestTyped
  <2>. QED  BY <2>3, <2>4, <2>5, <2>6 DEF Typed
<1>14. ASSUME NEW c \in Contexts, ProcessEmptyTransmit(c)
      PROVE  Typed'
  <2>1. RequestTyped'
    BY <1>0, <1>14 DEF ProcessEmptyTransmit, TypeOK, RequestTyped
  <2>2. SlotTyped'
    BY <1>0, <1>14 DEF ProcessEmptyTransmit, TypeOK, SlotTyped
  <2>3. LineTyped'
    BY <1>0, <1>14, LineAlone DEF ProcessEmptyTransmit
  <2>4. PlaceTyped'
    BY <1>0, <1>14, PlaceTaken DEF ProcessEmptyTransmit, Places
  <2>. QED  BY <2>1, <2>2, <2>3, <2>4 DEF Typed
<1>15. ASSUME NEW c \in Contexts, FinishImmediateCancelled(c)
      PROVE  Typed'
  <2>0. CurrentImmediate \in Irps
    BY <1>0, <1>15, WorkingInterposer, InterposerFacts
  <2>1. RequestTyped'
    BY <1>0, <1>15, <2>0, FinishTypes, LengthsBound DEF FinishImmediateCancelled
  <2>2. SlotTyped'
    BY <1>0, <1>15, SlotGiven, SlotNames DEF FinishImmediateCancelled
  <2>3. LineTyped'
    BY <1>0, <1>15 DEF FinishImmediateCancelled, TypeOK, LineTyped, uartVars
  <2>4. PlaceTyped'
    BY <1>0, <1>15, PlaceTaken DEF FinishImmediateCancelled, Places
  <2>. QED  BY <2>1, <2>2, <2>3, <2>4 DEF Typed
<1>16. ASSUME NEW c \in Contexts, GiveImmediate(c)
      PROVE  Typed'
  <2>0. CurrentImmediate \in Irps
    BY <1>0, <1>16, WorkingInterposer, InterposerFacts
  <2>1. 1 \in Nat /\ 1 <= MaxLen + MaxCounter
    BY SerialWriteAssumption
  <2>2. RequestTyped' /\ SlotTyped'
    BY <1>0, <1>16, <2>0, <2>1, HandTypes, SlotNames DEF GiveImmediate
  <2>3. LineTyped'
    BY <1>0, <1>16, LineAlone DEF GiveImmediate
  <2>4. PlaceTyped'
    BY <1>0, <1>16, PlaceTaken DEF GiveImmediate, Places
  <2>. QED  BY <2>2, <2>3, <2>4 DEF Typed
<1>17. ASSUME NEW c \in Contexts, GetNextImmediate(c)
      PROVE  Typed'
  <2>0. CurrentImmediate \in Irps
    BY <1>0, <1>17, WorkingInterposer, InterposerFacts
  <2>1. RequestTyped'
    BY <1>0, <1>17, <2>0, FinishTypes DEF GetNextImmediate
  <2>2. SlotTyped'
    BY <1>0, <1>17, SlotGiven, SlotNames DEF GetNextImmediate
  <2>3. LineTyped'
    BY <1>0, <1>17, LineAlone DEF GetNextImmediate
  <2>4. PlaceTyped'
    BY <1>0, <1>17, PlaceTaken DEF GetNextImmediate, Places
  <2>. QED  BY <2>1, <2>2, <2>3, <2>4 DEF Typed
<1>18. ASSUME NEW s \in Slots, Expire(s)
      PROVE  Typed'
  <2>1. RequestTyped'
    BY <1>0, <1>18 DEF Expire, TypeOK, RequestTyped
  <2>2. SlotTyped'
    <3>1. [slot[s] EXCEPT !.timer = FALSE, !.late = TRUE] \in Slot
      BY <1>0 DEF TypeOK, Slot
    <3>. QED  BY <1>0, <1>18, <3>1 DEF Expire, TypeOK, SlotTyped
  <2>3. LineTyped'
    BY <1>0, <1>18 DEF Expire, TypeOK, LineTyped, uartVars
  <2>4. PlaceTyped'
    BY <1>0, <1>18 DEF Expire, TypeOK, PlaceTyped
  <2>. QED  BY <2>1, <2>2, <2>3, <2>4 DEF Typed
<1>19. ASSUME NEW c \in Contexts, NEW s \in Slots, CompleteDpc(c, s)
      PROVE  Typed'
  <2>1. slot[s].sent /\ TryToCompleteCurrent(c, s, "isr", "success", FALSE,
    TRUE)
    BY <1>19 DEF CompleteDpc
  <2>2. slot[s].irp # None
    BY <1>0, <2>1, HeldSlot DEF IInv
  <2>. QED  BY <1>0, <2>1, <2>2, TryTypes DEF EndingOf
<1>20. ASSUME NEW c \in Contexts, NEW s \in Slots, TimeoutDpc(c, s)
      PROVE  Typed'
  <2>. DEFINE timed == s # "xoff"
  <2>1. slot[s].late /\ TryToCompleteCurrent(c, s, "timer", "timeout", TRUE,
    timed)
    BY <1>20 DEF TimeoutDpc
  <2>2. slot[s].irp # None
    BY <1>0, <2>1, HeldSlot DEF IInv
  <2>3. timed \in BOOLEAN
    OBVIOUS
  <2>. HIDE DEF timed
  <2>. QED  BY <1>0, <2>1, <2>2, <2>3, TryTypes DEF EndingOf
<1>21. ASSUME NEW c \in Contexts, NEW s \in Slots, CancelCurrentIrp(c, s)
      PROVE  Typed'
  <2>1. slot[s].irp # None
        /\ TryToCompleteCurrent(c, s, "cancel", "cancelled", TRUE, TRUE)
    BY <1>21 DEF CancelCurrentIrp
  <2>. QED  BY <1>0, <2>1, TryTypes DEF EndingOf
<1>22. CASE ThrInterrupt
  <2>1. UNCHANGED <<completions, pc>>
    BY <1>22 DEF ThrInterrupt
  <2>2. CASE Transmit(held)
    BY <1>0, <2>1, <2>2, TransmitTypes DEF TypeOK
  <2>3. CASE ~Transmit(held)
    BY <1>0, <1>22, <2>3 DEF ThrInterrupt, Typed, TypeOK, RequestTyped,
       SlotTyped, LineTyped, PlaceTyped
  <2>. QED  BY <2>2, <2>3
<1>23. ASSUME NEW x \in SUBSET HoldReasons, LeaveIsr(x)
       PROVE  Typed'
  <2>1. UNCHANGED <<completions, pc>>
    BY <1>23 DEF LeaveIsr
  <2>2. CASE Transmit({})
    BY <1>0, <2>1, <2>2, TransmitTypes
  <2>3. CASE ~Transmit({})
    BY <1>0, <1>23, <2>1, <2>3 DEF LeaveIsr, Typed, TypeOK, RequestTyped,
       SlotTyped, LineTyped, PlaceTyped
  <2>. QED  BY <2>2, <2>3
<1>24. CASE Drain
  BY <1>0, <1>24 DEF Drain, Typed, TypeOK, RequestTyped, SlotTyped, LineTyped,
     PlaceTyped
<1>25. CASE CountSinceXoff
  <2>1. RequestTyped'
    BY <1>0, <1>25 DEF CountSinceXoff, TypeOK, RequestTyped
  <2>2. SlotTyped'
    <3>0. /\ slot["xoff"].owed \in 0..(MaxLen + MaxCounter)
          /\ slot["xoff"].owed > 0
      BY <1>0, <1>25, SlotTypes, SlotNames DEF CountSinceXoff
    <3>2. slot["xoff"].owed - 1 \in 0..(MaxLen + MaxCounter)
      BY <3>0, SerialWriteAssumption
    <3>. DEFINE n == slot["xoff"].owed - 1
                b == slot["xoff"].sent \/ slot["xoff"].owed = 1
    <3>3. slot' = [slot EXCEPT !["xoff"] = [slot["xoff"] EXCEPT !.owed = n,
      !.sent = b]]
      BY <1>0, <1>25 DEF CountSinceXoff, TypeOK
    <3>4. n \in 0..(MaxLen + MaxCounter) /\ b \in BOOLEAN
      BY <3>2
    <3>. HIDE DEF n, b
    <3>1. [slot["xoff"] EXCEPT !.owed = n, !.sent = b] \in Slot
      BY <1>0, <3>4, SlotNames DEF TypeOK, Slot
    <3>. QED  BY <1>0, <3>1, <3>3 DEF TypeOK, SlotTyped
  <2>3. LineTyped'
    BY <1>0, <1>25 DEF CountSinceXoff, TypeOK, LineTyped, uartVars
  <2>4. PlaceTyped'
    BY <1>0, <1>25 DEF CountSinceXoff, TypeOK, PlaceTyped
  <2>. QED  BY <2>1, <2>2, <2>3, <2>4 DEF Typed
<1>26. ASSUME NEW r \in HoldReasons, Hold(r)
      PROVE  Typed'
  BY <1>0, <1>26 DEF Hold, Typed, TypeOK, RequestTyped, SlotTyped, LineTyped,
     PlaceTyped
<1>27. ASSUME NEW r \in HoldReasons, Release(r)
      PROVE  Typed'
  BY <1>0, <1>27 DEF Release, Tickle, Wake, Typed, TypeOK, RequestTyped,
     SlotTyped, LineTyped, PlaceTyped
<1>29. ASSUME NEW ch \in {"xon", "xoff"}, ProdXonXoff(ch)
      PROVE  Typed'
  BY <1>0, <1>29 DEF ProdXonXoff, Tickle, Wake, Typed, TypeOK, RequestTyped,
     SlotTyped, LineTyped, PlaceTyped
<1>30. CASE DropAutoTransmit
  BY <1>0, <1>30 DEF DropAutoTransmit, Wake, Typed, TypeOK, RequestTyped,
     SlotTyped, LineTyped, PlaceTyped
<1>31. CASE XonReceived \/ OtherInterrupt
  BY <1>0, <1>23, <1>31 DEF XonReceived, OtherInterrupt, TypeOK
<1>28. CASE UNCHANGED vars
  BY <1>0, <1>28 DEF vars, uartVars, Typed, TypeOK, RequestTyped, SlotTyped,
     LineTyped, PlaceTyped
<1>40. \A c : c \in Threads \/ c \in Cpus => c \in Contexts
  BY DEF Contexts
<1>41. CASE \E i \in Irps : \/ RefuseAtDispatch(i) \/ QueueAtDispatch(i)
                           \/ CancelledAtDispatch(i)
                           \/ CancelQueuedIrp(i) \/ FlagCancel(i)
  BY <1>41, <1>1, <1>2, <1>3, <1>4, <1>5
<1>42. CASE \E c \in Threads : \/ \E i \in Irps : \/ StartAtDispatch(c, i)
                                              \/ ImmediateAtDispatch(c, i)
                               \/ \E s \in Slots : CancelCurrentIrp(c, s)
  BY <1>40, <1>42, <1>6, <1>7, <1>21
<1>43. CASE \E c \in Contexts : Work(c)
  BY <1>43, <1>8, <1>9, <1>10, <1>11, <1>12, <1>13, <1>14, <1>15, <1>16,
     <1>17 DEF Work
<1>44. CASE \E s \in Slots : Expire(s) \/ RunDpc(s)
  BY <1>40, <1>44, <1>18, <1>19, <1>20 DEF RunDpc
<1>. QED
  BY <1>41, <1>42, <1>43, <1>44, <1>22, <1>24, <1>25, <1>26, <1>27, <1>28,
     <1>29, <1>30, <1>31 DEF Next

\* TotalCharsQueued is a number because it is a count.
LEMMA TypeOKStep == IInv /\ CounterSlotFree /\ [Next]_vars => TypeOK'
<1>. SUFFICES ASSUME IInv, CounterSlotFree, [Next]_vars PROVE TypeOK'
  OBVIOUS
<1>1. Typed' /\ queue' \in Seq(QueueIrps)
  BY TypedStep, QueueTypeStep
<1>2. chars' \in Nat
  BY CountInvStep, FS_CardinalityType DEF CountInv, CharCountExact
<1>. QED
  BY <1>1, <1>2
     DEF Typed, RequestTyped, SlotTyped, LineTyped, PlaceTyped, TypeOK

-----------------------------------------------------------------------------
(* The invariant holds, and with it what the runs check. *)

\* At first there is nothing to do and nobody does anything,
LEMMA NothingAtFirst ==
    ASSUME Init
    PROVE  /\ queue = <<>> /\ chars = 0 /\ held = {} /\ holdingEmpty
           /\ uart = "idle" /\ announced
           /\ \A i \in Irps : irp[i] = New /\ completions[i] = 0
           /\ \A s \in Slots : /\ slot[s].irp = None /\ slot[s].owed = 0
                               /\ ~slot[s].timer /\ ~slot[s].sent
                               /\ ~slot[s].late
           /\ \A c \in Contexts : pc[c] = "idle"
  BY DEF Init

\* everything has its type,
LEMMA InitTypes == Init => TypeOK
<1>. SUFFICES ASSUME Init PROVE TypeOK
  OBVIOUS
<1>1. 0 \in 0..(MaxLen + MaxCounter) /\ 0 \in 0..MaxLen
  BY SerialWriteAssumption
<1>2. New \in Irp /\ <<>> \in Seq(QueueIrps) /\ "idle" \in Places
  BY <1>1, EndedTypes, EmptySeq DEF Places
<1>3. [irp |-> None, owed |-> 0, timer |-> FALSE, sent |-> FALSE,
       late |-> FALSE] \in Slot
  BY <1>1 DEF Slot
<1>. QED  BY <1>2, <1>3 DEF Init, TypeOK

\* and the invariant holds.
LEMMA InitIInv == Init => IInv
<1>. SUFFICES ASSUME Init PROVE IInv
  OBVIOUS
<1>1. TypeOK
  BY InitTypes
<1>. USE NothingAtFirst, SlotNames, SerialWriteAssumption
<1>2. KindInv
  BY DEF KindInv, CurrentWrite, CurrentImmediate
<1>3. Len(queue) = 0 /\ DOMAIN queue = {} /\ Range(queue) = {}
  <2>1. Len(queue) = 0 /\ DOMAIN queue = 1..0
    BY EmptySeq
  <2>. QED  BY <2>1 DEF Range
<1>4. QueueInv
  BY <1>3 DEF QueueInv, IsInjective
<1>5. RequestInv
  <2>. SUFFICES ASSUME NEW i \in Irps PROVE RequestOK(i)
    BY DEF RequestInv
  <2>1. /\ irp[i].status = "new" /\ irp[i].refs = {}
        /\ irp[i].routine = "none" /\ irp[i].length = 0
        /\ irp[i].info = 0 /\ irp[i].wire = 0 /\ completions[i] = 0
    BY NewFields
  <2>2. Unknown(i)
    BY DEF Unknown
  <2>3. "none" \notin Slots
    BY DEF Slots
  <2>. QED  BY <1>3, <2>1, <2>2, <2>3 DEF RequestOK, Fresh, Untouched, Loose
<1>6. \A c \in Contexts : /\ ~Writing(c) /\ ~Interposing(c)
                          /\ \A p : AtPlace(c, p) => p = "idle"
  BY DEF Writing, Interposing, AtPlace
<1>7. WriterInv /\ InterposerInv
  BY <1>6 DEF WriterInv, InterposerInv
<1>8. HeldInv /\ RefsMatchHolders
  BY DEF HeldInv, HeldOK, RefsMatchHolders, RefsExact
<1>9. SentInv
  BY DEF SentInv, CurrentWrite
<1>10. HonestCount
  BY <1>6 DEF HonestCount
<1>11. CounterYields
  BY DEF CounterYields
<1>12. CancelNotMissed
  BY NewFields DEF CancelNotMissed
<1>13. UartInv /\ TransmitNeverStalls
  BY DEF UartInv, TransmitNeverStalls, Work2Do
<1>14. EmptyInv
  BY DEF EmptyInv
<1>15. CountInv
  <2>1. \A i \in Irps : irp[i].length = 0
    BY NewFields
  <2>2. Charged = {}
    <3>. SUFFICES ASSUME NEW p \in Charged PROVE FALSE
      OBVIOUS
    <3>1. p[1] \in Irps /\ p[2] \in 1..MaxLen /\ p[2] <= irp[p[1]].length
      BY DEF Charged, Characters
    <3>. QED  BY <2>1, <3>1
  <2>. QED  BY <2>2, FS_EmptySet DEF CountInv, CharCountExact
<1>. QED
  BY <1>1, <1>2, <1>4, <1>5, <1>7, <1>8, <1>9, <1>10, <1>11, <1>12, <1>13,
     <1>14, <1>15 DEF IInv

\* Every step keeps it, as long as the slot of the counter is free when needed.
LEMMA IInvStep == IInv /\ CounterSlotFree /\ [Next]_vars => IInv'
<1>. SUFFICES ASSUME IInv, CounterSlotFree, [Next]_vars PROVE IInv'
  OBVIOUS
<1>1. TypeOK' /\ KindInv' /\ QueueInv' /\ RequestInv'
  BY TypeOKStep, KindInvStep, QueueInvStep, RequestInvStep
<1>2. WriterInv' /\ InterposerInv' /\ HeldInv' /\ RefsMatchHolders'
  BY WriterInvStep, InterposerInvStep, HoldersStep DEF HoldersOK
<1>3. SentInv' /\ HonestCount' /\ CounterYields' /\ CancelNotMissed'
  BY SentInvStep, HonestCountStep, CounterYieldsStep, CancelNotMissedStep
<1>4. UartInv' /\ TransmitNeverStalls' /\ EmptyInv' /\ CountInv'
  BY LineStep, EmptyInvStep, CountInvStep DEF LineOK
<1>. QED  BY <1>1, <1>2, <1>3, <1>4 DEF IInv

\* As long as no XOFF counter starts to count while another one still does,
\* the invariant holds.
THEOREM Inductive == Spec /\ []CounterSlotFree => []IInv
  BY InitIInv, IInvStep, PTL DEF Spec

\* That is so when there is one XOFF counter at most: the one that is about to
\* start is not the one that counts.
THEOREM OneCounterIsFree ==
    ASSUME \A x, y \in XoffCounters : x = y
    PROVE  Spec => []CounterSlotFree
<1>1. IInv => CounterSlotFree
  <2>. SUFFICES ASSUME IInv, NEW c \in Contexts, AtPlace(c, "next"),
                       StartsCounting(CurrentWrite), slot["xoff"].irp # None
                PROVE  FALSE
    BY DEF CounterSlotFree
  <2>1. WriterOK(c)
    BY WriterFacts DEF Writing, AtPlace
  <2>2. CurrentWrite # slot["xoff"].irp
    BY <2>1 DEF WriterOK, AtPlace
  <2>3. slot["xoff"].irp \in XoffCounters /\ CurrentWrite \in XoffCounters
    BY DEF IInv, KindInv, StartsCounting
  <2>. QED  BY <2>2, <2>3
<1>2. IInv /\ [Next]_vars => IInv'
  BY <1>1, IInvStep
<1>. QED  BY InitIInv, <1>1, <1>2, PTL DEF Spec

\* The types, and with them the bounds on every count of characters.
THEOREM TypeCorrect == Spec /\ []CounterSlotFree => []TypeOK
<1>1. IInv => TypeOK
  BY DEF IInv
<1>. QED  BY Inductive, <1>1, PTL

\* SerialStartWrite and SerialGetNextWrite run for one request at a time, and
\* so do their counterparts for the immediate character.
THEOREM OneStarterAlways == Spec /\ []CounterSlotFree => []OneStarter
<1>1. IInv => OneStarter
  <2>. SUFFICES ASSUME IInv PROVE OneStarter
    OBVIOUS
  <2>1. \A c \in Contexts : Writing(c) => CurrentWrite # None
    BY WriterFacts
  <2>2. \A c \in Contexts : Interposing(c) => CurrentImmediate # None
    BY InterposerFacts
  <2>. QED  BY <2>1, <2>2 DEF IInv, WriterInv, InterposerInv, OneStarter
<1>. QED  BY Inductive, <1>1, PTL

\* The reference mask of each slot's request is the set of parties that can
\* still reach it, and a request nobody works on has one.
THEOREM ReferencesExact == Spec /\ []CounterSlotFree => []RefsMatchHolders
<1>1. IInv => RefsMatchHolders
  BY DEF IInv
<1>. QED  BY Inductive, <1>1, PTL

\* A completed request is never touched again.
THEOREM CompletedIsGone == Spec /\ []CounterSlotFree => []NoUseAfterCompletion
<1>1. IInv => NoUseAfterCompletion
  <2>. SUFFICES ASSUME IInv, NEW i \in Irps, completions[i] > 0
                PROVE  /\ completions[i] = 1
                       /\ \A s \in Slots : slot[s].irp = i =>
                              /\ s = "write"
                              /\ \E c \in Contexts : AtPlace(c, "keep")
                       /\ ~Contains(queue, i)
                       /\ irp[i].refs = {} /\ irp[i].routine = "none"
    BY DEF NoUseAfterCompletion
  <2>1. RequestOK(i) /\ queue \in Seq(QueueIrps)
    BY DEF IInv, RequestInv, TypeOK
  <2>2. irp[i].status = "done" /\ completions[i] = 1
    BY <2>1 DEF RequestOK
  <2>3. /\ Loose(i)
        /\ \A s \in Slots : slot[s].irp = i =>
               s = "write" /\ \E c \in Contexts : AtPlace(c, "keep")
    BY <2>1, <2>2 DEF RequestOK
  <2>4. ~Contains(queue, i)
    <3>1. irp[i].routine = "queued" <=> i \in Range(queue)
      BY <2>1 DEF RequestOK
    <3>. QED  BY <2>1, <2>3, <3>1, ContainsEntries DEF Loose
  <2>. QED  BY <2>2, <2>3, <2>4 DEF Loose
<1>. QED  BY Inductive, <1>1, PTL

\* A cancelled request never waits with an uncalled cancel routine.
THEOREM CancelNeverMissed == Spec /\ []CounterSlotFree => []CancelNotMissed
<1>1. IInv => CancelNotMissed
  BY DEF IInv
<1>. QED  BY Inductive, <1>1, PTL

\* TotalCharsQueued is exact.
THEOREM CharCountAlwaysExact == Spec /\ []CounterSlotFree => []CharCountExact
<1>1. IInv => CharCountExact
  BY DEF IInv, CountInv
<1>. QED  BY Inductive, <1>1, PTL

\* Neither a hold, nor a give, nor a prod, nor an interrupt is lost between the
\* others: the UART sleeps on a character only when SERIAL_AUTO_TRANSMIT was
\* taken away while an XON or XOFF was waiting (stranded).
THEOREM TransmitAlwaysMoves ==
    Spec /\ []CounterSlotFree => []TransmitNeverStalls
<1>1. IInv => TransmitNeverStalls
  BY DEF IInv
<1>. QED  BY Inductive, <1>1, PTL

\* A write reports what was put on the wire.
THEOREM CountAlwaysHonest == Spec /\ []CounterSlotFree => []HonestCount
<1>1. IInv => HonestCount
  BY DEF IInv
<1>. QED  BY Inductive, <1>1, PTL

\* An XOFF counter never counts while the next write is sent.
THEOREM CounterAlwaysYields == Spec /\ []CounterSlotFree => []CounterYields
<1>1. IInv => CounterYields
  BY DEF IInv
<1>. QED  BY Inductive, <1>1, PTL

\* The end of a transmission is announced once everything is through.
THEOREM EmptyNeverMissed == Spec /\ []CounterSlotFree => []EmptyNotMissed
<1>1. IInv => EmptyNotMissed
  BY DEF IInv, EmptyInv, EmptyNotMissed
<1>. QED  BY Inductive, <1>1, PTL

\* With one XOFF counter, as in the runs' instances, all of this holds of the
\* specification itself.
THEOREM SafeWithOneCounter ==
    ASSUME \A x, y \in XoffCounters : x = y
    PROVE  Spec => [](/\ TypeOK /\ OneStarter /\ RefsMatchHolders
                      /\ NoUseAfterCompletion /\ CancelNotMissed
                      /\ CharCountExact /\ TransmitNeverStalls /\ HonestCount
                      /\ CounterYields /\ EmptyNotMissed)
  BY OneCounterIsFree, TypeCorrect, OneStarterAlways, ReferencesExact,
     CompletedIsGone, CancelNeverMissed, CharCountAlwaysExact,
     TransmitAlwaysMoves, CountAlwaysHonest, CounterAlwaysYields,
     EmptyNeverMissed, PTL

-----------------------------------------------------------------------------
(* The write queue as an IrpQueue. *)

\* What IrpQueue sees as completions.
Departed == [i \in QueueIrps |-> IF Left(i) THEN 1 ELSE 0]

QueueStep == WriteQueue!Next \/ UNCHANGED <<CurrentWrite, queue, Departed>>

\* What has left the queue was sent, and is neither in it nor the current write;
LEMMA LeftIs ==
    ASSUME queue \in Seq(QueueIrps), NEW i
    PROVE  Left(i) <=> i # CurrentWrite /\ i \notin Range(queue) /\ ~Fresh(i)
  BY ContainsEntries DEF Left

\* and after the step as well.
LEMMA NextLeftIs ==
    ASSUME queue' \in Seq(QueueIrps), NEW i
    PROVE  Left(i)' <=> /\ i # slot'["write"].irp /\ i \notin Range(queue')
                        /\ irp'[i].status # "new"
  BY ContainsEntries DEF Left, Fresh, CurrentWrite

\* A step that neither the queue nor the current write notices.
LEMMA QueueUntouched ==
    ASSUME slot'["write"].irp = slot["write"].irp, queue' = queue,
           \A i \in QueueIrps : irp'[i].status = "new" <=> irp[i].status = "new"
    PROVE  QueueStep
<1>1. \A i \in QueueIrps : Left(i)' <=> Left(i)
  BY DEF Left, Fresh, CurrentWrite
<1>2. Departed' = Departed
  BY <1>1 DEF Departed
<1>. QED  BY <1>2 DEF QueueStep, CurrentWrite

\* One request leaves.
LEMMA OneDeparts ==
    ASSUME NEW i \in QueueIrps, ~Left(i), Left(i)',
           \A j \in QueueIrps : j # i => (Left(j)' <=> Left(j))
    PROVE  Departed' = [Departed EXCEPT ![i] = @ + 1]
<1>1. Departed[i] = 0 /\ Departed'[i] = 1
  BY DEF Departed
<1>2. \A j \in QueueIrps : j # i => Departed'[j] = Departed[j]
  BY DEF Departed
<1>3. \A j \in QueueIrps : Departed'[j] = [Departed EXCEPT ![i] = @ + 1][j]
  BY <1>1, <1>2 DEF Departed
<1>. QED  BY <1>3 DEF Departed

\* A request is new to IrpQueue if it is new to the driver.
LEMMA FreshThere ==
    ASSUME IInv, NEW i \in QueueIrps, Fresh(i)
    PROVE  WriteQueue!Fresh(i) /\ ~Left(i)
<1>1. RequestOK(i) /\ i \in Irps
  BY DEF IInv, RequestInv, Irps
<1>2. Unknown(i) /\ i \notin Range(queue)
  BY <1>1, FreshFacts
<1>3. i # CurrentWrite
  BY <1>2, SlotNames DEF Unknown, CurrentWrite
<1>4. ~Left(i)
  BY DEF Left
<1>5. Departed[i] = 0
  BY <1>4 DEF Departed
<1>. QED
  BY <1>2, <1>3, <1>4, <1>5 DEF WriteQueue!Fresh, WriteQueue!Range, Range,
     Departed

\* Every step is one of IrpQueue's, or IrpQueue does not see it.
LEMMA QueueSteps == IInv /\ [Next]_vars => QueueStep
<1>. SUFFICES ASSUME IInv, [Next]_vars PROVE QueueStep
  OBVIOUS
<1>0. /\ IInv /\ TypeOK /\ QueueInv /\ KindInv /\ queue \in Seq(QueueIrps)
      /\ IsInjective(queue)
      /\ \A i \in Irps : RequestOK(i)
  BY DEF IInv, RequestInv, TypeOK, QueueInv
<1>1. ASSUME NEW i \in Irps, RefuseAtDispatch(i)
      PROVE  QueueStep
  <2>1. Fresh(i) /\ Finished(i, 0) /\ UNCHANGED <<queue, slot>>
    BY <1>0, <1>1, RefuseFacts
  <2>4. irp'[i].status # "new" /\ slot' = slot /\ queue' = queue
        /\ OnlyRequest(i)
    BY <2>1 DEF Finished
  <2>2. CASE i \notin QueueIrps
    <3>1. \A j \in QueueIrps : irp'[j].status = "new" <=> irp[j].status = "new"
      BY <2>2, <2>4 DEF OnlyRequest, Irps
    <3>. QED  BY <2>4, <3>1, QueueUntouched
  <2>3. CASE i \in QueueIrps
    <3>1. WriteQueue!Fresh(i) /\ ~Left(i)
      BY <1>0, <2>1, <2>3, FreshThere
    <3>2. i # slot["write"].irp /\ i \notin Range(queue)
      BY <1>0, <2>1, FreshFacts, SlotNames DEF Unknown
    <3>3. Left(i)'
      BY <1>0, <2>4, <3>2, NextLeftIs
    <3>4. \A j \in QueueIrps : j # i => (Left(j)' <=> Left(j))
      BY <2>4 DEF OnlyRequest, Left, Fresh, CurrentWrite, Irps
    <3>5. Departed' = [Departed EXCEPT ![i] = @ + 1]
      BY <2>3, <3>1, <3>3, <3>4, OneDeparts
    <3>6. WriteQueue!Refuse(i)
      BY <2>4, <3>1, <3>5
         DEF WriteQueue!Refuse, WriteQueue!Complete, Departed, CurrentWrite
    <3>. QED  BY <2>3, <3>6 DEF QueueStep, WriteQueue!Next
  <2>. QED  BY <2>2, <2>3
<1>2. ASSUME NEW i \in Irps, QueueAtDispatch(i)
      PROVE  QueueStep
  <2>1. /\ i \in QueueIrps /\ Fresh(i) /\ Accepted(i, "queued")
        /\ queue # <<>> \/ CurrentWrite # None
        /\ queue' = Append(queue, i) /\ UNCHANGED slot
    BY <1>0, <1>2, QueueFacts
  <2>2. WriteQueue!Fresh(i) /\ ~Left(i) /\ i \notin Range(queue)
    BY <1>0, <2>1, FreshThere, FreshFacts
  <2>3. /\ queue' \in Seq(QueueIrps)
        /\ \A y : y \in Range(queue') <=> y \in Range(queue) \/ y = i
    BY <1>0, <2>1, <2>2, AppendEntries
  <2>4. \A j \in QueueIrps : Left(j)' <=> Left(j)
    <3>. SUFFICES ASSUME NEW j \in QueueIrps PROVE Left(j)' <=> Left(j)
      OBVIOUS
    <3>1. CASE j = i
      BY <2>2, <2>3, <3>1, NextLeftIs
    <3>2. CASE j # i
      BY <1>0, <2>1, <2>3, <3>2, LeftIs, NextLeftIs
         DEF Accepted, OnlyRequest, Fresh, CurrentWrite, Irps
    <3>. QED  BY <3>1, <3>2
  <2>5. Departed' = Departed
    BY <2>4 DEF Departed
  <2>6. CurrentWrite # None
    BY <1>0, <2>1 DEF QueueInv
  <2>7. WriteQueue!Wait(i)
    BY <2>1, <2>2, <2>5, <2>6 DEF WriteQueue!Wait, Departed, CurrentWrite
  <2>. QED  BY <2>1, <2>7 DEF QueueStep, WriteQueue!Next
<1>3. ASSUME NEW i \in Irps, CancelledAtDispatch(i)
      PROVE  QueueStep
  <2>1. /\ Fresh(i) /\ (\E n : Finished(i, n))
        /\ UNCHANGED <<queue, slot>>
    BY <1>0, <1>3, CancelledAtDispatchFacts
  <2>4. irp'[i].status # "new" /\ slot' = slot /\ queue' = queue
        /\ OnlyRequest(i)
    BY <2>1 DEF Finished
  <2>2. CASE i \notin QueueIrps
    <3>1. \A j \in QueueIrps : irp'[j].status = "new" <=> irp[j].status = "new"
      BY <2>2, <2>4 DEF OnlyRequest, Irps
    <3>. QED  BY <2>4, <3>1, QueueUntouched
  <2>3. CASE i \in QueueIrps
    <3>1. WriteQueue!Fresh(i) /\ ~Left(i)
      BY <1>0, <2>1, <2>3, FreshThere
    <3>2. i # slot["write"].irp /\ i \notin Range(queue)
      BY <1>0, <2>1, FreshFacts, SlotNames DEF Unknown
    <3>3. Left(i)'
      BY <1>0, <2>4, <3>2, NextLeftIs
    <3>4. \A j \in QueueIrps : j # i => (Left(j)' <=> Left(j))
      BY <2>4 DEF OnlyRequest, Left, Fresh, CurrentWrite, Irps
    <3>5. Departed' = [Departed EXCEPT ![i] = @ + 1]
      BY <2>3, <3>1, <3>3, <3>4, OneDeparts
    <3>6. WriteQueue!Refuse(i)
      BY <2>4, <3>1, <3>5
         DEF WriteQueue!Refuse, WriteQueue!Complete, Departed, CurrentWrite
    <3>. QED  BY <2>3, <3>6 DEF QueueStep, WriteQueue!Next
  <2>. QED  BY <2>2, <2>3
<1>4. ASSUME NEW i \in Irps, CancelQueuedIrp(i)
      PROVE  QueueStep
  <2>1. /\ Finished(i, 0) /\ UNCHANGED slot
        /\ irp[i].routine = "queued"
    BY <1>0, <1>4, WithdrawFacts
  <2>2. PICK n \in 1..Len(queue) : queue[n] = i /\ queue' = RemoveAt(queue, n)
    BY <1>0, <1>4, WithdrawFacts
  <2>3. /\ i \in QueueIrps /\ i \in Range(queue)
        /\ queue' \in Seq(QueueIrps)
        /\ \A y : y \in Range(queue') <=> y \in Range(queue) /\ y # i
    BY <1>0, <2>2, RemoveEntries
  <2>4. i # slot["write"].irp
    BY <1>0, <2>1, SlotNames DEF RequestOK, Unknown
  <2>5. ~Left(i) /\ Left(i)'
    BY <1>0, <2>1, <2>3, <2>4, LeftIs, NextLeftIs DEF Finished
  <2>6. \A j \in QueueIrps : j # i => (Left(j)' <=> Left(j))
    BY <1>0, <2>1, <2>3, LeftIs, NextLeftIs
       DEF Finished, OnlyRequest, Fresh, CurrentWrite, Irps
  <2>7. Departed' = [Departed EXCEPT ![i] = @ + 1]
    BY <2>3, <2>5, <2>6, OneDeparts
  <2>8. n \in DOMAIN queue
    BY <1>0, LenProperties
  <2>9. WriteQueue!Withdraw(n)
    BY <2>1, <2>2, <2>7, <2>8
       DEF WriteQueue!Withdraw, WriteQueue!Complete, Departed, CurrentWrite,
           WriteQueue!RemoveAt, RemoveAt
  <2>. QED  BY <2>8, <2>9 DEF QueueStep, WriteQueue!Next
<1>5. ASSUME NEW i \in Irps, FlagCancel(i)
      PROVE  QueueStep
  <2>1. /\ slot'["write"].irp = slot["write"].irp /\ queue' = queue
        /\ \A j \in QueueIrps : irp'[j].status = "new" <=> irp[j].status = "new"
    BY <1>0, <1>5, FlagFacts DEF OnlyRequest, Irps
  <2>. QED  BY <2>1, QueueUntouched
<1>6. ASSUME NEW c \in Contexts, NEW i \in Irps, StartAtDispatch(c, i)
      PROVE  QueueStep
  <2>1. /\ i \in QueueIrps /\ Fresh(i) /\ queue = <<>> /\ CurrentWrite = None
        /\ Accepted(i, irp[i].routine)
        /\ slot'["write"].irp = i /\ UNCHANGED queue
    BY <1>0, <1>6, StartFacts
  <2>2. WriteQueue!Fresh(i) /\ ~Left(i)
    BY <1>0, <2>1, FreshThere
  <2>3. CurrentWrite \notin QueueIrps
    BY <2>1, SerialWriteAssumption DEF Irps
  <2>4. \A j \in QueueIrps : Left(j)' <=> Left(j)
    <3>. SUFFICES ASSUME NEW j \in QueueIrps PROVE Left(j)' <=> Left(j)
      OBVIOUS
    <3>1. CASE j = i
      BY <2>1, <2>2, <3>1 DEF Left, CurrentWrite
    <3>2. CASE j # i
      BY <2>1, <2>3, <3>2
         DEF Left, Fresh, Accepted, OnlyRequest, CurrentWrite, Irps
    <3>. QED  BY <3>1, <3>2
  <2>5. Departed' = Departed
    BY <2>4 DEF Departed
  <2>6. WriteQueue!Start(i)
    BY <2>1, <2>2, <2>5 DEF WriteQueue!Start, Departed, CurrentWrite
  <2>. QED  BY <2>1, <2>6 DEF QueueStep, WriteQueue!Next
<1>7. ASSUME NEW c \in Contexts, NEW i \in Irps, ImmediateAtDispatch(c, i)
      PROVE  QueueStep
  <2>1. /\ slot'["write"].irp = slot["write"].irp /\ queue' = queue
        /\ \A j \in QueueIrps : irp'[j].status = "new" <=> irp[j].status = "new"
    BY <1>0, <1>7, ImmediateFacts, SlotNames, SerialWriteAssumption
       DEF Accepted, OnlyRequest, OnlySlot, Irps
  <2>. QED  BY <2>1, QueueUntouched
<1>8. ASSUME NEW c \in Contexts, FinishCancelled(c)
      PROVE  QueueStep
  <2>0. /\ CurrentWrite \in QueueIrps
        /\ CurrentWrite \in Irps
        /\ CurrentWrite # None
        /\ WriterOK(c) /\ RequestOK(CurrentWrite)
    BY <1>0, <1>8, WorkingWriter, WriterFacts DEF KindInv
  <2>1. /\ slot'["write"].irp = slot["write"].irp /\ queue' = queue
        /\ \A j \in QueueIrps : irp'[j].status = "new" <=> irp[j].status = "new"
    BY <1>0, <1>8, <2>0, CancelledFacts DEF Becomes, OnlyRequest, WriterOK,
       Giving, AtPlace, Irps
  <2>. QED  BY <2>1, QueueUntouched
<1>9. ASSUME NEW c \in Contexts, GiveWrite(c)
      PROVE  QueueStep
  <2>0. /\ CurrentWrite \in QueueIrps
        /\ CurrentWrite \in Irps
        /\ CurrentWrite # None
        /\ WriterOK(c) /\ RequestOK(CurrentWrite)
    BY <1>0, <1>9, WorkingWriter, WriterFacts DEF KindInv
  <2>1. /\ slot'["write"].irp = slot["write"].irp /\ queue' = queue
        /\ \A j \in QueueIrps : irp'[j].status = "new" <=> irp[j].status = "new"
    BY <1>0, <1>9, <2>0, GiveFacts DEF Handed, OnlyRequest, CurrentWrite, Irps
  <2>. QED  BY <2>1, QueueUntouched
<1>10. ASSUME NEW c \in Contexts, Account(c)
      PROVE  QueueStep
  <2>1. /\ slot'["write"].irp = slot["write"].irp /\ queue' = queue
        /\ \A j \in QueueIrps : irp'[j].status = "new" <=> irp[j].status = "new"
    BY <1>0, <1>10, AccountFacts
  <2>. QED  BY <2>1, QueueUntouched
<1>11. ASSUME NEW c \in Contexts, AccountXoff(c)
      PROVE  QueueStep
  <2>0. /\ CurrentWrite \in QueueIrps
        /\ CurrentWrite \in Irps
        /\ CurrentWrite # None
        /\ WriterOK(c) /\ RequestOK(CurrentWrite)
    BY <1>0, <1>11, WorkingWriter, WriterFacts DEF KindInv
  <2>1. \/ Becomes(CurrentWrite, "cancelled") /\ UNCHANGED slot
        \/ \E n \in 1..MaxCounter : Handed("xoff", CurrentWrite, n)
    BY <1>0, <1>11, <2>0, AccountXoffFacts
  <2>2. queue' = queue /\ irp[CurrentWrite].status # "new"
    BY <1>11 DEF AccountXoff, StartsCounting
  <2>3. CASE Becomes(CurrentWrite, "cancelled") /\ UNCHANGED slot
    BY <2>2, <2>3, QueueUntouched DEF Becomes, OnlyRequest, Irps
  <2>4. ASSUME NEW n \in 1..MaxCounter, Handed("xoff", CurrentWrite, n)
        PROVE  QueueStep
    BY <2>2, <2>4, QueueUntouched, SlotNames
       DEF Handed, OnlyRequest, OnlySlot, Irps
  <2>. QED  BY <2>1, <2>3, <2>4
<1>12. ASSUME NEW c \in Contexts, GetNextIrp(c)
      PROVE  QueueStep
  <2>0. PICK i \in QueueIrps : i = CurrentWrite
    BY <1>0, <1>12, WorkingWriter, WriterFacts DEF KindInv
  <2>00. /\ i \in Irps /\ i # None /\ WriterOK(c) /\ RequestOK(i)
    BY <1>0, <1>12, <2>0, WorkingWriter, WriterFacts
  <2>. DEFINE next == IF queue = <<>> THEN None ELSE Head(queue)
  <2>1. /\ pc[c] \in {"pop", "keep"}
        /\ AtPlace(c, "pop") => irp'[i] = Ended
        /\ AtPlace(c, "keep") /\ i # next => irp'[i] = irp[i]
        /\ \A j \in Irps : j # i /\ j # next => irp'[j] = irp[j]
        /\ \A j \in Irps : j # i /\ j = next =>
               irp'[j] = [irp[j] EXCEPT !.routine = "none"]
        /\ slot'["write"].irp = next
        /\ queue' = IF queue = <<>> THEN <<>> ELSE Tail(queue)
    BY <1>0, <1>12, <2>0, <2>00, NextIrpFacts DEF AtPlace
  <2>2. i \notin Range(queue)
    BY <2>0, <2>00, SlotNames DEF RequestOK, Unknown, CurrentWrite
  <2>3. /\ queue' \in Seq(QueueIrps)
        /\ \A y : y \in Range(queue') <=> y \in Range(queue) /\ y # next
        /\ next # None => next \in QueueIrps /\ next \in Range(queue)
    <3>1. CASE queue = <<>>
      <4>1. DOMAIN queue = {}
        BY <3>1
      <4>. QED  BY <1>0, <2>1, <3>1, <4>1 DEF Range
    <3>2. CASE queue # <<>>
      BY <1>0, <2>1, <3>2, HeadEntries
    <3>. QED  BY <3>1, <3>2
  <2>4. \A j \in QueueIrps : irp[j] \in Irp /\ j \in Irps
    BY <1>0 DEF TypeOK, Irps
  <2>5. \A j \in QueueIrps : j # i => irp'[j].status = irp[j].status
    <3>. SUFFICES ASSUME NEW j \in QueueIrps, j # i
                  PROVE  irp'[j].status = irp[j].status
      OBVIOUS
    <3>1. CASE j = next
      <4>1. irp'[j] = [irp[j] EXCEPT !.routine = "none"] /\ irp[j] \in Irp
        BY <2>1, <2>4, <3>1
      <4>. QED  BY <4>1 DEF Irp
    <3>2. CASE j # next
      BY <2>1, <2>4, <3>2
    <3>. QED  BY <3>1, <3>2
  <2>6. next # i
    BY <2>00, <2>2, <2>3
  <2>. DEFINE x == slot'["write"].irp
  <2>7. irp'[i].status # "new"
    <3>1. CASE AtPlace(c, "pop")
      BY <2>1, <3>1, NewFields
    <3>2. CASE AtPlace(c, "keep")
      <4>1. irp[i].status # "new"
        BY <1>0, <2>0, <2>00, <3>2, FreshFacts, SlotNames
           DEF Fresh, Unknown, CurrentWrite
      <4>. QED  BY <2>1, <2>6, <3>2, <4>1
    <3>. QED  BY <2>1, <3>1, <3>2 DEF AtPlace
  <2>8. ~Left(i) /\ Left(i)'
    BY <2>0, <2>1, <2>2, <2>3, <2>6, <2>7, NextLeftIs DEF Left
  <2>9. \A j \in QueueIrps : j # i => (Left(j)' <=> Left(j))
    <3>. SUFFICES ASSUME NEW j \in QueueIrps, j # i PROVE Left(j)' <=> Left(j)
      OBVIOUS
    <3>1. irp'[j].status = "new" <=> Fresh(j)
      BY <2>5 DEF Fresh
    <3>2. CASE j = next
      <4>1. j \in Range(queue)
        BY <1>0, <2>3, <2>4, <3>2, SerialWriteAssumption
      <4>. QED  BY <1>0, <2>1, <2>3, <3>2, <4>1, LeftIs, NextLeftIs
    <3>3. CASE j # next
      BY <1>0, <2>0, <2>1, <2>3, <3>1, <3>3, LeftIs, NextLeftIs
    <3>. QED  BY <3>2, <3>3
  <2>10. Departed' = [Departed EXCEPT ![CurrentWrite] = @ + 1]
    BY <2>0, <2>8, <2>9, OneDeparts
  <2>11. WriteQueue!Finish
    <3>1. CurrentWrite # None /\ WriteQueue!Complete(CurrentWrite)
      BY <2>0, <2>00, <2>10 DEF WriteQueue!Complete, Departed
    <3>2. CurrentWrite' = next
      BY <2>1 DEF CurrentWrite
    <3>. QED  BY <2>1, <3>1, <3>2 DEF WriteQueue!Finish
  <2>. QED  BY <2>11 DEF QueueStep, WriteQueue!Next
<1>13. ASSUME NEW c \in Contexts, ProcessEmptyTransmit(c)
      PROVE  QueueStep
  <2>1. /\ slot'["write"].irp = slot["write"].irp /\ queue' = queue
        /\ \A j \in QueueIrps : irp'[j].status = "new" <=> irp[j].status = "new"
    BY <1>0, <1>13, EmptyFacts
  <2>. QED  BY <2>1, QueueUntouched
<1>14. ASSUME NEW c \in Contexts, FinishImmediateCancelled(c)
      PROVE  QueueStep
  <2>0. /\ CurrentImmediate \in Irps /\ CurrentImmediate # None
        /\ CurrentImmediate \notin QueueIrps
    BY <1>0, <1>14, WorkingInterposer, InterposerFacts, SerialWriteAssumption
       DEF KindInv
  <2>1. /\ slot'["write"].irp = slot["write"].irp /\ queue' = queue
        /\ \A j \in QueueIrps : irp'[j].status = "new" <=> irp[j].status = "new"
    BY <1>0, <1>14, <2>0, ImmediateCancelledFacts, SlotNames
       DEF Finished, OnlyRequest, OnlySlot, Irps
  <2>. QED  BY <2>1, QueueUntouched
<1>15. ASSUME NEW c \in Contexts, GiveImmediate(c)
      PROVE  QueueStep
  <2>0. /\ CurrentImmediate \in Irps /\ CurrentImmediate # None
        /\ CurrentImmediate \notin QueueIrps
    BY <1>0, <1>15, WorkingInterposer, InterposerFacts, SerialWriteAssumption
       DEF KindInv
  <2>1. /\ slot'["write"].irp = slot["write"].irp /\ queue' = queue
        /\ \A j \in QueueIrps : irp'[j].status = "new" <=> irp[j].status = "new"
    BY <1>0, <1>15, <2>0, GiveImmediateFacts, SlotNames
       DEF Handed, OnlyRequest, OnlySlot, Irps
  <2>. QED  BY <2>1, QueueUntouched
<1>16. ASSUME NEW c \in Contexts, GetNextImmediate(c)
      PROVE  QueueStep
  <2>0. /\ CurrentImmediate \in Irps /\ CurrentImmediate # None
        /\ CurrentImmediate \notin QueueIrps
    BY <1>0, <1>16, WorkingInterposer, InterposerFacts, SerialWriteAssumption
       DEF KindInv
  <2>1. /\ slot'["write"].irp = slot["write"].irp /\ queue' = queue
        /\ \A j \in QueueIrps : irp'[j].status = "new" <=> irp[j].status = "new"
    BY <1>0, <1>16, <2>0, NextImmediateFacts, SlotNames
       DEF Finished, OnlyRequest, OnlySlot, Irps
  <2>. QED  BY <2>1, QueueUntouched
<1>17. ASSUME NEW c \in Contexts, NEW s \in Slots, NEW h, NEW st, EndingOf(h,
  st),
           Ending(c, s, h, st)
      PROVE  QueueStep
  <2>0. PICK i \in Irps : i = slot[s].irp
    BY <1>17 DEF Ending
  <2>2. /\ OnlyRequest(i) /\ OnlySlot(s) /\ queue' = queue /\ ~InHand(s)
        /\ s # "xoff" => slot'[s].irp = i
        /\ irp'[i].status \in {"done", st, irp[i].status}
    BY <1>17, <2>0 DEF Ending, Finished
  <2>3. st # "new"
    BY <1>17 DEF EndingOf
  <2>4. irp[i].status # "new"
    BY <1>0, <2>0, FreshFacts DEF Unknown, Fresh
  <2>5. slot'["write"].irp = slot["write"].irp
    BY <2>0, <2>2, SlotNames DEF OnlySlot
  <2>6. \A j \in QueueIrps : irp'[j].status = "new" <=> irp[j].status = "new"
    <3>. SUFFICES ASSUME NEW j \in QueueIrps
                  PROVE  irp'[j].status = "new" <=> irp[j].status = "new"
      OBVIOUS
    <3>1. CASE j = i
      BY <2>2, <2>3, <2>4, <3>1
    <3>2. CASE j # i
      BY <2>2, <3>2 DEF OnlyRequest, Irps
    <3>. QED  BY <3>1, <3>2
  <2>. QED  BY <2>2, <2>5, <2>6, QueueUntouched
<1>18. ASSUME NEW s \in Slots, Expire(s)
      PROVE  QueueStep
  <2>1. UNCHANGED <<irp, queue>> /\ slot'["write"].irp = slot["write"].irp
    BY <1>0, <1>18, SlotNames DEF Expire, TypeOK, Slot
  <2>. QED  BY <2>1, QueueUntouched
<1>19. CASE CountSinceXoff
  <2>1. UNCHANGED <<irp, queue>> /\ slot'["write"].irp = slot["write"].irp
    BY <1>0, <1>19, SlotNames DEF CountSinceXoff, TypeOK, Slot
  <2>. QED  BY <2>1, QueueUntouched
<1>20. CASE SentImmediate
  <2>1. /\ slot'["write"].irp = slot["write"].irp /\ queue' = queue
        /\ \A j \in QueueIrps : irp'[j].status = "new" <=> irp[j].status = "new"
    BY <1>0, <1>20, SlotNames DEF SentImmediate, OnlyRequest, OnlySlot, Irps
  <2>. QED  BY <2>1, QueueUntouched
<1>21. CASE SentWrite
  <2>1. /\ slot'["write"].irp = slot["write"].irp /\ queue' = queue
        /\ \A j \in QueueIrps : irp'[j].status = "new" <=> irp[j].status = "new"
    BY <1>0, <1>21 DEF SentWrite, OnlyRequest, CurrentWrite, Irps
  <2>. QED  BY <2>1, QueueUntouched
<1>22. CASE Outside
  BY <1>22, QueueUntouched DEF Outside
<1>. QED
  BY StepCases, <1>1, <1>2, <1>3, <1>4, <1>5, <1>6, <1>7, <1>8, <1>9, <1>10,
     <1>11, <1>12, <1>13, <1>14, <1>15, <1>16, <1>17, <1>18, <1>19, <1>20,
     <1>21, <1>22
     DEF NormalStep

\* Writes, flushes and XOFF counters leave the write queue once and in order.
THEOREM Refinement == Spec /\ []CounterSlotFree => ImplementsIrpQueue
<1>1. Init => WriteQueue!Init
  <2>. SUFFICES ASSUME Init PROVE WriteQueue!Init
    OBVIOUS
  <2>1. CurrentWrite = None /\ queue = <<>>
    BY SlotNames DEF Init, CurrentWrite
  <2>2. \A i \in QueueIrps : ~Left(i)
    BY NothingAtFirst, NewFields DEF Left, Fresh, Irps
  <2>3. [i \in QueueIrps |-> IF Left(i) THEN 1 ELSE 0] = [i \in QueueIrps |-> 0]
    BY <2>2
  <2>. QED  BY <2>1, <2>3 DEF WriteQueue!Init
<1>2. IInv /\ [Next]_vars => [WriteQueue!Next]_(WriteQueue!vars)
  BY QueueSteps DEF QueueStep, WriteQueue!vars, Departed
<1>. QED
  BY Inductive, <1>1, <1>2, PTL DEF Spec, ImplementsIrpQueue, WriteQueue!Spec

\* With one XOFF counter, the write queue implements IrpQueue without more ado.
THEOREM RefinementWithOneCounter ==
    ASSUME \A x, y \in XoffCounters : x = y
    PROVE  Spec => ImplementsIrpQueue
  BY OneCounterIsFree, Refinement, PTL

==============================================================================
