----------------------------- MODULE SerialWait -----------------------------
(***************************************************************************)
(* The wait mask of one serial port: serial/serial/waitmask.c, its callers *)
(* in ioctl.c and the places in isr.c, modmflow.c and write.c that report  *)
(* events.                                                                 *)
(*                                                                         *)
(* IOCTL_SERIAL_SET_WAIT_MASK says which events to record, and             *)
(* IOCTL_SERIAL_WAIT_ON_MASK waits for one of them.  Both go through       *)
(* MaskQueue, and SerialStartMask works on one of them at a time.  A wait  *)
(* leaves the queue without being completed: it becomes the current wait,  *)
(* known to the ISR by IrpMaskLocation and to IoCancelIrp by its cancel    *)
(* routine.  Events nobody waits for are kept in HistoryMask for the next  *)
(* wait.                                                                   *)
(*                                                                         *)
(* One step is one cancel-spin-lock section, one routine at device level   *)
(* or the CommWaitDpc.  SerialKillAllReadsOrWrites and the end of          *)
(* SerialKillPendingIrps are a series of the cancel steps.                 *)
(***************************************************************************)
EXTENDS Naturals, SequencesExt

CONSTANTS
    SetMasks,   \* IOCTL_SERIAL_SET_WAIT_MASK requests
    Waits,      \* IOCTL_SERIAL_WAIT_ON_MASK requests
    Threads,    \* threads that submit requests and run SerialStartMask
    None,       \* no request
    Events,     \* the SERIAL_EV_ bits in use
    TxEmpty     \* SERIAL_EV_TXEMPTY

Irps == SetMasks \cup Waits

\* SERIAL_REF_ISR and SERIAL_REF_CANCEL
RefTypes == {"isr", "cancel"}

ASSUME SerialWaitAssumption ==
    /\ SetMasks \cap Waits = {}
    /\ None \notin Irps
    /\ TxEmpty \in Events

VARIABLES
    status,         \* how far a request is, or IoStatus.Status in the end
    completions,    \* how often IoCompleteRequest was called on it
    cancel,         \* Irp->Cancel
    routine,        \* Irp->CancelRoutine
    told,           \* the events written to the buffer of a wait
    queue,          \* MaskQueue
    currentMask,    \* CurrentMaskIrp
    currentWait,    \* CurrentWaitIrp
    refs,           \* its reference mask
    location,       \* IrpMaskLocation is set: the ISR knows the current wait
    dpcQueued,      \* CommWaitDpc is queued
    isrMask,        \* IsrWaitMask
    history,        \* HistoryMask
    emptied,        \* EmptiedTransmit
    writing,        \* the last character of a write was sent, and the write
                    \* has not been completed
    pc              \* where each thread is in SerialStartMask

irpVars == <<status, completions, cancel, routine, told>>
queueVars == <<queue, currentMask>>
waitVars == <<currentWait, refs, location, dpcQueued>>
eventVars == <<isrMask, history, emptied, writing>>
vars == <<irpVars, queueVars, waitVars, eventVars, pc>>

TypeOK ==
    /\ status \in [Irps -> {"new", "pending", "success", "cancelled", "invalid"}]
    /\ completions \in [Irps -> Nat]
    /\ cancel \in [Irps -> BOOLEAN]
    /\ routine \in [Irps -> {"none", "queued", "wait"}]
    /\ told \in [Irps -> SUBSET Events]
    /\ queue \in Seq(Irps)
    /\ currentMask \in Irps \cup {None}
    /\ currentWait \in Waits \cup {None}
    /\ refs \subseteq RefTypes
    /\ location \in BOOLEAN
    /\ dpcQueued \in BOOLEAN
    /\ isrMask \subseteq Events
    /\ history \subseteq isrMask
    /\ emptied \in BOOLEAN
    /\ writing \in BOOLEAN
    /\ pc \in [Threads -> {"idle", "start", "give", "next"}]

Init ==
    /\ status = [i \in Irps |-> "new"]
    /\ completions = [i \in Irps |-> 0]
    /\ cancel = [i \in Irps |-> FALSE]
    /\ routine = [i \in Irps |-> "none"]
    /\ told = [i \in Irps |-> {}]
    /\ queue = <<>>
    /\ currentMask = None
    /\ currentWait = None
    /\ refs = {}
    /\ location = FALSE
    /\ dpcQueued = FALSE
    /\ isrMask = {}
    /\ history = {}
    /\ emptied = FALSE
    /\ writing = FALSE
    /\ pc = [t \in Threads |-> "idle"]

-----------------------------------------------------------------------------
(* Helpers shared by the actions. *)

Fresh(i) == status[i] = "new"

AtPlace(t, p) == pc[t] = p
Go(t, p) == pc' = [pc EXCEPT ![t] = p]

Complete(i, st) ==
    /\ completions' = [completions EXCEPT ![i] = @ + 1]
    /\ status' = [status EXCEPT ![i] = st]

\* The rest of SerialGetNextIrp once it holds the lock: the head of the queue
\* becomes the current request and, of the cancel routines r, loses its own.
TakeNext(t, r) ==
    IF queue = <<>>
    THEN /\ currentMask' = None
         /\ routine' = r
         /\ Go(t, "idle")
         /\ UNCHANGED queue
    ELSE /\ currentMask' = Head(queue)
         /\ queue' = Tail(queue)
         /\ routine' = [r EXCEPT ![Head(queue)] = "none"]
         /\ Go(t, "start")

\* SerialTryToCompleteCurrent: the caller gives up its reference h, takes the
\* wait from the ISR if it is to grab it, and removes the cancel routine.  If
\* no reference is left the wait ends with status st.
TryToCompleteCurrent(h, grab, st) ==
    LET w == currentWait
        left == {r \in refs \ {h} : /\ r = "isr" => ~(grab /\ location)
                                    /\ r = "cancel" => routine[w] = "none"}
    IN  /\ location' = (location /\ ~grab)
        /\ dpcQueued' = (dpcQueued /\ h # "isr")
        /\ refs' = left
        /\ routine' = [routine EXCEPT ![w] = "none"]
        /\ cancel' = [cancel EXCEPT ![w] = @ \/ h = "cancel"]
        /\ IF left = {}
           THEN Complete(w, st) /\ currentWait' = None
           ELSE UNCHANGED <<completions, status, currentWait>>
        /\ UNCHANGED <<told, queueVars, eventVars, pc>>

-----------------------------------------------------------------------------
(* Dispatch: SerialIoControl and SerialStartOrQueue. *)

\* The gate turns it away, a buffer is too small or the mask has unknown bits.
RefuseAtDispatch(i) ==
    /\ Fresh(i)
    /\ Complete(i, "invalid")
    /\ UNCHANGED <<cancel, routine, told, queueVars, waitVars, eventVars, pc>>

StartAtDispatch(t, i) ==
    /\ AtPlace(t, "idle") /\ Fresh(i)
    /\ queue = <<>> /\ currentMask = None
    /\ currentMask' = i
    /\ status' = [status EXCEPT ![i] = "pending"]
    /\ Go(t, "start")
    /\ UNCHANGED <<completions, cancel, routine, told, queue, waitVars, eventVars>>

\* Mutant: the newcomer overtakes the queue.
QueueAtHead(i) ==
    /\ Fresh(i) /\ ~cancel[i]
    /\ queue # <<>> \/ currentMask # None
    /\ queue' = <<i>> \o queue
    /\ status' = [status EXCEPT ![i] = "pending"]
    /\ routine' = [routine EXCEPT ![i] = "queued"]
    /\ UNCHANGED <<completions, cancel, told, currentMask, waitVars, eventVars, pc>>

QueueAtDispatch(i) ==
    /\ Fresh(i) /\ ~cancel[i]
    /\ queue # <<>> \/ currentMask # None
    /\ queue' = Append(queue, i)
    /\ status' = [status EXCEPT ![i] = "pending"]
    /\ routine' = [routine EXCEPT ![i] = "queued"]
    /\ UNCHANGED <<completions, cancel, told, currentMask, waitVars, eventVars, pc>>

\* It would have to wait in the queue but is cancelled already.
CancelledAtDispatch(i) ==
    /\ Fresh(i) /\ cancel[i]
    /\ queue # <<>> \/ currentMask # None
    /\ Complete(i, "cancelled")
    /\ UNCHANGED <<cancel, routine, told, queueVars, waitVars, eventVars, pc>>

-----------------------------------------------------------------------------
(* SerialStartMask, one iteration of its loop. *)

\* The new mask m is in force with the history h of events; the ISR knows a wait
\* if and only if known, and its completion is queued if and only if ended.
SetMask(t, m, h, known, ended) ==
    /\ AtPlace(t, "start") /\ currentMask \in SetMasks
    /\ isrMask' = m
    /\ history' = h
    /\ location' = known
    /\ dpcQueued' = ended
    /\ status' = [status EXCEPT ![currentMask] = "success"]
    /\ Go(t, "next")
    /\ UNCHANGED <<completions, cancel, routine, told, queueVars, currentWait,
                   refs, emptied, writing>>

\* Mutant: the old wait is taken from the ISR and forgotten.
FinishOldWaitQuietly(t) ==
    \E m \in SUBSET Events : SetMask(t, m, history \cap m, FALSE, dpcQueued)

\* SerialFinishOldWait: the current wait, if the ISR still has it, ends with no
\* event, and the new mask keeps what it can of the history.
FinishOldWait(t) ==
    \E m \in SUBSET Events :
        SetMask(t, m, history \cap m, FALSE, dpcQueued \/ location)

\* Mutant: a wait may replace another one.
CheckMaskOnly(t) ==
    /\ AtPlace(t, "start") /\ currentMask \in Waits
    /\ IF isrMask = {}
       THEN /\ status' = [status EXCEPT ![currentMask] = "invalid"]
            /\ Go(t, "next")
       ELSE Go(t, "give") /\ UNCHANGED status
    /\ UNCHANGED <<completions, cancel, routine, told, queueVars, waitVars,
                   eventVars>>

\* A wait on an empty mask, or while another one waits, is invalid.  No lock
\* is held.
CheckWait(t) ==
    /\ AtPlace(t, "start") /\ currentMask \in Waits
    /\ IF isrMask = {} \/ currentWait # None
       THEN /\ status' = [status EXCEPT ![currentMask] = "invalid"]
            /\ Go(t, "next")
       ELSE Go(t, "give") /\ UNCHANGED status
    /\ UNCHANGED <<completions, cancel, routine, told, queueVars, waitVars,
                   eventVars>>

\* Under the cancel spin lock the wait is found cancelled.
WaitFoundCancelled(t) ==
    /\ AtPlace(t, "give") /\ cancel[currentMask]
    /\ status' = [status EXCEPT ![currentMask] = "cancelled"]
    /\ Go(t, "next")
    /\ UNCHANGED <<completions, cancel, routine, told, queueVars, waitVars,
                   eventVars>>

\* The references, the cancel routine and SerialGiveWaitToIsr for wait w.  If
\* something happened since the last wait, w is answered at once.
HandToIsr(w) ==
    /\ currentWait' = w
    /\ refs' = RefTypes
    /\ location' = (history = {})
    /\ dpcQueued' = (history # {})
    /\ told' = [told EXCEPT ![w] = history]
    /\ history' = {}
    /\ emptied' = (emptied /\ history # {})

\* The wait becomes the current wait, and SerialGetNextIrpLocked, still under
\* the lock, takes the next request without completing anything.
GiveWait(t) ==
    /\ AtPlace(t, "give") /\ ~cancel[currentMask]
    /\ HandToIsr(currentMask)
    /\ TakeNext(t, [routine EXCEPT ![currentMask] = "wait"])
    /\ UNCHANGED <<status, completions, cancel, isrMask, writing>>

\* SerialGetNextIrp completes the request and takes the next.
GetNextIrp(t) ==
    /\ AtPlace(t, "next")
    /\ Complete(currentMask, status[currentMask])
    /\ TakeNext(t, routine)
    /\ UNCHANGED <<cancel, told, waitVars, eventVars>>

-----------------------------------------------------------------------------
(* Events, at device level. *)

\* Mutant: the wait hears only of the event at hand.
RecordLast(e) ==
    /\ IF location
       THEN /\ told' = [told EXCEPT ![currentWait] = {e}]
            /\ location' = FALSE
            /\ dpcQueued' = TRUE
            /\ history' = {}
       ELSE /\ history' = {e}
            /\ UNCHANGED <<told, location, dpcQueued>>
    /\ UNCHANGED <<status, completions, cancel, routine, queueVars, currentWait,
                   refs, isrMask, pc>>

\* An event is recorded; a wait the ISR knows is answered with everything
\* recorded, and its completion is queued.
Record(e) ==
    /\ IF location
       THEN /\ told' = [told EXCEPT ![currentWait] = history \cup {e}]
            /\ location' = FALSE
            /\ dpcQueued' = TRUE
            /\ history' = {}
       ELSE /\ history' = history \cup {e}
            /\ UNCHANGED <<told, location, dpcQueued>>
    /\ UNCHANGED <<status, completions, cancel, routine, queueVars, currentWait,
                   refs, isrMask, pc>>

\* A character, a line status or a modem line the mask asks for.
Event(e) ==
    /\ e \in isrMask \ {TxEmpty}
    /\ Record(e)
    /\ UNCHANGED <<emptied, writing>>

\* The ISR puts the last character of a write into the UART.
Transmit ==
    /\ emptied' = TRUE
    /\ writing' = TRUE
    /\ UNCHANGED <<irpVars, queueVars, waitVars, isrMask, history, pc>>

\* The write is completed, nothing is left to write, and
\* SerialProcessEmptyTransmit looks whether to report it.
EndWrite ==
    /\ writing
    /\ writing' = FALSE
    /\ IF TxEmpty \in isrMask /\ emptied
       THEN Record(TxEmpty)
       ELSE UNCHANGED <<irpVars, queueVars, waitVars, isrMask, history, pc>>
    /\ UNCHANGED emptied

\* SerialCompleteWait
CompleteWaitDpc ==
    /\ dpcQueued
    /\ TryToCompleteCurrent("isr", FALSE, "success")

-----------------------------------------------------------------------------
(* Cancellation: IoCancelIrp, SerialKillPendingIrps. *)

\* SerialCancelQueued
CancelQueuedIrp(n) ==
    /\ queue' = RemoveAt(queue, n)
    /\ routine' = [routine EXCEPT ![queue[n]] = "none"]
    /\ cancel' = [cancel EXCEPT ![queue[n]] = TRUE]
    /\ Complete(queue[n], "cancelled")
    /\ UNCHANGED <<told, currentMask, waitVars, eventVars, pc>>

\* SerialCancelWait
CancelWait ==
    /\ currentWait # None /\ routine[currentWait] = "wait"
    /\ TryToCompleteCurrent("cancel", TRUE, "cancelled")

\* No cancel routine: the flag is left for whoever starts the request.
FlagCancel(i) ==
    /\ completions[i] = 0
    /\ routine[i] = "none" /\ ~cancel[i]
    /\ cancel' = [cancel EXCEPT ![i] = TRUE]
    /\ UNCHANGED <<status, completions, routine, told, queueVars, waitVars,
                   eventVars, pc>>

-----------------------------------------------------------------------------
\* What a thread does once it has entered SerialStartMask.
Work(t) == \/ FinishOldWait(t) \/ CheckWait(t) \/ WaitFoundCancelled(t)
           \/ GiveWait(t) \/ GetNextIrp(t)

Next ==
    \/ \E i \in Irps : \/ RefuseAtDispatch(i) \/ QueueAtDispatch(i)
                       \/ CancelledAtDispatch(i) \/ FlagCancel(i)
    \/ \E n \in DOMAIN queue : CancelQueuedIrp(n)
    \/ \E t \in Threads : \/ \E i \in Irps : StartAtDispatch(t, i)
                          \/ Work(t)
    \/ \E e \in Events : Event(e)
    \/ Transmit \/ EndWrite
    \/ CompleteWaitDpc \/ CancelWait

Spec == Init /\ [][Next]_vars

\* A thread in SerialStartMask goes on, a queued DPC runs, and a write whose
\* characters are sent is completed.  Nobody has to submit or to cancel
\* anything, and no event has to happen.
Fairness == /\ \A t \in Threads : WF_vars(Work(t))
            /\ WF_vars(CompleteWaitDpc)
            /\ WF_vars(EndWrite)

FairSpec == Spec /\ Fairness

-----------------------------------------------------------------------------
(* Safety. *)

\* The ASSERTs of SerialStartMask: it has a request, alone (98); a new mask
\* leaves no mask location behind (133); and when a wait is made the current
\* one there is neither a location nor another wait (286), although the test
\* for it was made without a lock.
StartMaskAsserts ==
    \A t \in Threads : pc[t] # "idle" =>
        /\ currentMask # None
        /\ \A u \in Threads : pc[u] # "idle" => u = t
        /\ AtPlace(t, "next") /\ currentMask \in SetMasks => ~location
        /\ AtPlace(t, "give") => ~location /\ currentWait = None

\* The references of the current wait are exact: the ISR's stands for the mask
\* location or else for the queued DPC, that of the cancel routine for the
\* cancel routine, and a wait without references does not stay behind.
RefsMatchHolders ==
    /\ ~(location /\ dpcQueued)
    /\ location \/ dpcQueued => currentWait # None
    /\ currentWait # None =>
           /\ (location \/ dpcQueued) <=> "isr" \in refs
           /\ routine[currentWait] = "wait" <=> "cancel" \in refs
           /\ "isr" \in refs
    /\ \A i \in Irps : routine[i] = "wait" => i = currentWait

\* A completed request is completed once, and neither the queue, SerialStartMask,
\* the ISR nor IoCancelIrp can reach it.
NoUseAfterCompletion ==
    \A i \in Irps : completions[i] > 0 =>
        /\ completions[i] = 1
        /\ i \notin {currentMask, currentWait}
        /\ i \notin Range(queue)
        /\ routine[i] = "none"

\* No request has both its Cancel flag and a cancel routine nobody called.
CancelNotMissed == \A i \in Irps : ~(cancel[i] /\ routine[i] # "none")

\* No event is kept from a wait the ISR knows: it is written through the mask
\* location when it happens, or when the wait is given to the ISR.
WaitHearsAtOnce == location => history = {}

\* What makes these inductive.  A request is in the queue, once, if and only if
\* its cancel routine is SerialCancelQueued.
QueueInv ==
    /\ IsInjective(queue)
    /\ \A i \in Irps : i \in Range(queue) <=> routine[i] = "queued"
    /\ queue # <<>> => currentMask # None

\* A request is new, waits, is the current mask request, is the current wait
\* or is completed, and only a wait that was answered was told of events.
PlaceInv ==
    /\ \A i \in Irps :
           /\ Fresh(i) \/ routine[i] = "queued" \/ i \in {currentMask, currentWait}
              => completions[i] = 0
           /\ Fresh(i) => routine[i] = "none" /\ i \notin {currentMask, currentWait}
           /\ told[i] # {} /\ completions[i] = 0 => i = currentWait /\ ~location
    /\ currentMask # None =>
           routine[currentMask] = "none" /\ currentMask # currentWait
    /\ currentWait # None => routine[currentWait] # "queued"
    /\ \A t \in Threads : AtPlace(t, "give") => currentMask \in Waits

IInv == /\ TypeOK
        /\ StartMaskAsserts
        /\ RefsMatchHolders
        /\ NoUseAfterCompletion
        /\ CancelNotMissed
        /\ WaitHearsAtOnce
        /\ QueueInv
        /\ PlaceInv

\* The events that were recorded and that nobody has been told of for good.
Owed == history \cup UNION {told[w] : w \in {v \in Waits : completions[v] = 0}}

\* "Don't wipe out any historical data we are still interested in": a recorded
\* event is kept until a wait that tells of it ends with success, through
\* cancels, new masks and completions that cross, or until a new mask leaves
\* it out.
NoEventLost ==
    [][\A e \in Owed \ Owed' :
          \/ e \notin isrMask'
          \/ \E w \in Waits : /\ completions'[w] > completions[w]
                              /\ status'[w] = "success"
                              /\ e \in told[w]]_vars

(* A promise the code does not keep; see the README. *)

\* A wait for SERIAL_EV_TXEMPTY that the ISR knows when the last write ends is
\* answered.  waitmask.c:470 says of clearing EmptiedTransmit for a new wait:
\* "it doesn't hurt anything to set it to false".
EmptyReported ==
    [][writing /\ ~writing' /\ location /\ TxEmpty \in isrMask => ~location']_vars

-----------------------------------------------------------------------------
\* Seen from the queue a request is done with when it leaves it, which a wait
\* does without being completed.
Left(i) == ~Fresh(i) /\ i # currentMask /\ i \notin Range(queue)

Departures == [i \in Irps |-> IF Left(i) THEN 1 ELSE 0]

MaskQueue == INSTANCE IrpQueue WITH
    active <- currentMask,
    waiting <- queue,
    completions <- Departures

\* Masks and waits are worked on one at a time in the order they came.
ImplementsIrpQueue == MaskQueue!Spec

-----------------------------------------------------------------------------
(* Liveness, under FairSpec. *)

Completed(i) == completions[i] > 0

\* Every request that has a reason to end does: a new mask, a request that is
\* cancelled, a wait that was told of events, and a wait that a new mask finds.
RequestsEnd ==
    \A i \in Irps :
        (/\ ~Fresh(i)
         /\ \/ i \in SetMasks
            \/ cancel[i]
            \/ told[i] # {}
            \/ currentWait = i /\ currentMask \in SetMasks)
        ~> Completed(i)
=============================================================================
