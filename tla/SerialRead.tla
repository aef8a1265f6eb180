----------------------------- MODULE SerialRead -----------------------------
(***************************************************************************)
(* The life of the read requests of one serial port: serial/serial/read.c  *)
(* and the parts of utils.c, isr.c and purge.c it is built from.           *)
(*                                                                         *)
(* The current read can be known to four parties at once: the interrupt    *)
(* service routine that stores characters in its buffer, its cancel        *)
(* routine, the total timer and the interval timer.  Each holds a bit of a *)
(* reference mask in the request, and whoever drops the last bit completes *)
(* the request and starts the next one.                                    *)
(*                                                                         *)
(* One step is one cancel-spin-lock section, one interrupt, one timer      *)
(* expiry or one DPC dispatch; the characters themselves are in SerialRing.*)
(***************************************************************************)
EXTENDS Integers, FiniteSets, SequencesExt

CONSTANTS
    Irps,       \* the requests put on the read queue
    Resizes,    \* those that are IOCTL_SERIAL_SET_QUEUE_SIZE, not reads
    Threads,    \* threads that submit, cancel and purge
    Cpus,       \* processors that run DPCs
    None,       \* no request, no DPC
    MaxLen,     \* bound on the length of a read
    BufferSize, \* characters the interrupt buffer holds
    ErrorAbort, \* SERIAL_ERROR_ABORT is set in HandFlow.ControlHandShake
    TimeoutSettings \* the SERIAL_TIMEOUTS a read may find in effect

Contexts == Threads \cup Cpus

\* The parties that act on a read from a DPC, named by the bit they hold:
\* SERIAL_REF_ISR, SERIAL_REF_TOTAL_TIMER and SERIAL_REF_INT_TIMER.
Timers == {"total", "interval"}
Sources == {"isr"} \cup Timers
RefTypes == Sources \cup {"cancel"}

\* The DPCs: one per source, and CommErrorDpc, which holds no reference.
Dpcs == Sources \cup {"error"}

TimeoutValues == {"zero", "some", "max"}

ASSUME SerialReadAssumption ==
    /\ Resizes \subseteq Irps
    /\ None \notin Irps \cup Contexts \cup Dpcs
    /\ None \notin TimeoutSettings
    /\ Threads \cap Cpus = {}
    /\ MaxLen \in Nat \ {0}
    /\ BufferSize \in Nat \ {0}
    /\ ErrorAbort \in BOOLEAN
    /\ TimeoutSettings \subseteq [interval : TimeoutValues,
                                  constant : TimeoutValues,
                                  multiplier : TimeoutValues]

\* CountOnLastRead when it is not a count.
ReadCancelled == -1     \* SERIAL_COMPLETE_READ_CANCEL
ReadTotal     == -2     \* SERIAL_COMPLETE_READ_TOTAL
ReadComplete  == -3     \* SERIAL_COMPLETE_READ_COMPLETE

VARIABLES
    cancel,         \* Irp->Cancel
    routine,        \* Irp->CancelRoutine: "none", "queued" or "current"
    refs,           \* the reference mask in Parameters.Others.Argument4
    length,         \* Parameters.Read.Length
    info,           \* IoStatus.Information
    status,         \* IoStatus.Status
    completions,    \* how often IoCompleteRequest was called on it
    queue,          \* ReadQueue
    current,        \* CurrentReadIrp
    needed,         \* NumberNeededForRead
    count,          \* CharsInInterruptBuffer
    userSlot,       \* CurrentCharSlot within the user buffer
    readByIsr,      \* ReadByIsr
    lastCount,      \* CountOnLastRead
    armed,          \* the ISR has the user buffer; the timer is set
    dpcQueued,      \* the DPC is in a DPC queue
    dpcCount,       \* DpcCount
    lock,           \* holder of the cancel spin lock between steps
    pc,             \* where each context is
    job,            \* the DPC a processor is running
    copied,         \* updateChar.CharsCopied of SerialStartRead
    timeouts        \* timeoutsForIrp of SerialStartRead

irpVars == <<cancel, routine, refs, length, info, status, completions>>
queueVars == <<queue, current>>
bufferVars == <<needed, count, userSlot, readByIsr, lastCount>>
sourceVars == <<armed, dpcQueued, dpcCount>>
contextVars == <<lock, pc, job, copied, timeouts>>
vars == <<irpVars, queueVars, bufferVars, sourceVars, contextVars>>

Statuses == {"pending", "success", "timeout", "cancelled"}
Places == {"idle", "start", "copied", "next", "kill", "dpc", "expired",
           "epilogue"}

TypeOK ==
    /\ cancel \in [Irps -> BOOLEAN]
    /\ routine \in [Irps -> {"none", "queued", "current"}]
    /\ refs \in [Irps -> SUBSET RefTypes]
    /\ length \in [Irps -> 0..MaxLen]
    /\ info \in [Irps -> 0..MaxLen]
    /\ status \in [Irps -> Statuses]
    /\ completions \in [Irps -> Nat]
    /\ queue \in Seq(Irps)
    /\ current \in Irps \cup {None}
    /\ needed \in 0..MaxLen
    /\ count \in 0..BufferSize
    /\ userSlot \in 0..MaxLen
    /\ readByIsr \in 0..MaxLen
    /\ lastCount \in ReadComplete..MaxLen
    /\ armed \in [Sources -> BOOLEAN]
    /\ dpcQueued \in [Dpcs -> BOOLEAN]
    /\ dpcCount \in Int
    /\ lock \in Contexts \cup {None}
    /\ pc \in [Contexts -> Places]
    /\ job \in [Contexts -> Dpcs \cup {None}]
    /\ copied \in [Contexts -> 0..MaxLen]
    /\ timeouts \in [Contexts -> TimeoutSettings \cup {None}]

Init ==
    /\ cancel = [i \in Irps |-> FALSE]
    /\ routine = [i \in Irps |-> "none"]
    /\ refs = [i \in Irps |-> {}]
    /\ length = [i \in Irps |-> 0]
    /\ info = [i \in Irps |-> 0]
    /\ status = [i \in Irps |-> "pending"]
    /\ completions = [i \in Irps |-> 0]
    /\ queue = <<>>
    /\ current = None
    /\ needed = 0
    /\ count = 0
    /\ userSlot = 0
    /\ readByIsr = 0
    /\ lastCount = 0
    /\ armed = [s \in Sources |-> FALSE]
    /\ dpcQueued = [d \in Dpcs |-> FALSE]
    /\ dpcCount = 1
    /\ lock = None
    /\ pc = [c \in Contexts |-> "idle"]
    /\ job = [c \in Contexts |-> None]
    /\ copied = [c \in Contexts |-> 0]
    /\ timeouts = [c \in Contexts |-> None]

-----------------------------------------------------------------------------
(* Helpers shared by the actions. *)

Fresh(i) == /\ completions[i] = 0
            /\ current # i
            /\ i \notin Range(queue)

AtPlace(c, p) == pc[c] = p

Go(c, p) == pc' = [pc EXCEPT ![c] = p]

\* Where a context continues once it no longer works on the read queue: a DPC
\* still has to run SerialDpcEpilogue, a thread is done.
Back(c) == IF job[c] = None THEN "idle" ELSE "epilogue"

Complete(i) == completions' = [completions EXCEPT ![i] = @ + 1]

\* SerialCompleteRequest of a request that is not the current one.
Refuse(i, s) == /\ status' = [status EXCEPT ![i] = s]
                /\ info' = [info EXCEPT ![i] = 0]
                /\ Complete(i)

\* SerialSetTimer of the timers in T: DpcCount counts a timer once, however often
\* it is set.
SetTimers(T) == dpcCount' = dpcCount + Cardinality({t \in T : ~armed[t]})

\* SerialCancelTimer of both timers; the caller clears them in armed.
CancelTimers == dpcCount' = dpcCount - Cardinality({t \in Timers : armed[t]})

\* Mutant: an insertion that finds the DPC queued is counted too.
InsertQueueDpcCountingAll(d) ==
    /\ dpcQueued' = [dpcQueued EXCEPT ![d] = TRUE]
    /\ dpcCount' = dpcCount + 1

\* SerialInsertQueueDpc: a DPC object is in a DPC queue at most once.
InsertQueueDpc(d) == /\ dpcQueued' = [dpcQueued EXCEPT ![d] = TRUE]
                     /\ dpcCount' = dpcCount + IF dpcQueued[d] THEN 0 ELSE 1

\* What the timeouts ask for: useIntervalTimer, returnWithWhatsPresent,
\* os2ssreturn, crunchDownToOne, useTotalTimer.
UseInterval(t) == t.interval = "some"
ReturnWithWhatsPresent(t) ==
    t.interval = "max" /\ t.constant = "zero" /\ t.multiplier = "zero"
Os2ssReturn(t) ==
    t.interval = "max" /\ t.constant # "max" /\ ~ReturnWithWhatsPresent(t)
CrunchDownToOne(t) ==
    t.interval = "max" /\ t.constant # "max" /\ t.multiplier = "max"
UseTotal(t) == IF t.interval = "max"
               THEN Os2ssReturn(t)
               ELSE t.constant # "zero" \/ t.multiplier # "zero"

TimersFor(t) == {x \in Timers : \/ x = "total" /\ UseTotal(t)
                                \/ x = "interval" /\ UseInterval(t)}

Lesser(a, b) == IF a < b THEN a ELSE b

\* Mutants of ReferencesLeft: a timer that cannot be cancelled loses its
\* reference too; a cancelled timer keeps it.
ReferencesLeftDroppingTimers(h, grabbed) ==
    {r \in refs[current] \ {h} : /\ r = "isr" => ~grabbed
                                 /\ r = "cancel" => routine[current] = "none"
                                 /\ r \notin Timers}
ReferencesLeftKeepingTimers(h, grabbed) ==
    {r \in refs[current] \ {h} : /\ r = "isr" => ~grabbed
                                 /\ r = "cancel" => routine[current] = "none"}

\* Who still refers to the current read once the caller has given up h and
\* taken back the user buffer, the cancel routine and the timers it could.
ReferencesLeft(h, grabbed) ==
    {r \in refs[current] \ {h} : /\ r = "isr" => ~grabbed
                                 /\ r = "cancel" => routine[current] = "none"
                                 /\ r \in Timers => ~armed[r]}

(***************************************************************************)
(* SerialTryToCompleteCurrent, with SerialGrabReadFromIsr when sync and    *)
(* with SerialRundownIrpRefs: the caller gives up its reference h, takes   *)
(* the user buffer from the ISR, and cancels the cancel routine and the    *)
(* timers.  If no reference is left the request has status s and the       *)
(* caller goes on to SerialGetNextIrp.                                     *)
(***************************************************************************)
TryToCompleteCurrent(c, h, s, sync) ==
    LET grabbed == sync /\ armed["isr"]
        left == ReferencesLeft(h, grabbed)
        last == left = {}
    IN  /\ refs' = [refs EXCEPT ![current] = left]
        /\ routine' = [routine EXCEPT ![current] = "none"]
        /\ armed' = [x \in Sources |-> x = "isr" /\ armed[x] /\ ~sync]
        /\ CancelTimers
        /\ count' = IF grabbed THEN 0 ELSE count
        /\ userSlot' = IF grabbed THEN 0 ELSE userSlot
        /\ info' = [info EXCEPT ![current] =
                        IF last /\ s = "cancelled" THEN 0
                        ELSE IF grabbed THEN userSlot ELSE @]
        /\ status' = [status EXCEPT ![current] = IF last THEN s ELSE @]
        /\ Go(c, IF last THEN "next" ELSE Back(c))
        /\ UNCHANGED <<length, completions, queueVars, needed, readByIsr,
                       dpcQueued, job, copied, timeouts>>

-----------------------------------------------------------------------------
(* SerialRead and SerialStartOrQueue. *)

\* SerialIRPPrologue or SerialCompleteIfError rejects the request, or the
\* read asks for nothing.
RefuseAtDispatch(i) ==
    /\ Fresh(i)
    /\ \E s \in {"success", "cancelled"} : Refuse(i, s)
    /\ UNCHANGED <<cancel, routine, refs, length, queueVars, bufferVars,
                   sourceVars, contextVars>>

Arrive(i) == \E n \in 1..MaxLen : length' = [length EXCEPT ![i] = n]

\* Mutant: a current request is overlooked.
StartAtDispatchWhenQueueEmpty(c, i) ==
    /\ AtPlace(c, "idle") /\ lock = None
    /\ Fresh(i)
    /\ queue = <<>>
    /\ Arrive(i)
    /\ current' = i
    /\ Go(c, "start")
    /\ UNCHANGED <<cancel, routine, refs, info, status, completions, queue,
                   bufferVars, sourceVars, lock, job, copied, timeouts>>

StartAtDispatch(c, i) ==
    /\ AtPlace(c, "idle") /\ lock = None
    /\ Fresh(i)
    /\ queue = <<>> /\ current = None
    /\ Arrive(i)
    /\ current' = i
    /\ Go(c, "start")
    /\ UNCHANGED <<cancel, routine, refs, info, status, completions, queue,
                   bufferVars, sourceVars, lock, job, copied, timeouts>>

\* Mutant: the cancel flag is not looked at.
QueueAtDispatchUnchecked(i) ==
    /\ lock = None
    /\ Fresh(i)
    /\ queue # <<>> \/ current # None
    /\ Arrive(i)
    /\ queue' = Append(queue, i)
    /\ routine' = [routine EXCEPT ![i] = "queued"]
    /\ UNCHANGED <<cancel, refs, info, status, completions, current,
                   bufferVars, sourceVars, contextVars>>

QueueAtDispatch(i) ==
    /\ lock = None
    /\ Fresh(i)
    /\ queue # <<>> \/ current # None
    /\ ~cancel[i]
    /\ Arrive(i)
    /\ queue' = Append(queue, i)
    /\ routine' = [routine EXCEPT ![i] = "queued"]
    /\ UNCHANGED <<cancel, refs, info, status, completions, current,
                   bufferVars, sourceVars, contextVars>>

\* A request that would have to wait but is cancelled already.
CancelledAtDispatch(i) ==
    /\ lock = None
    /\ Fresh(i)
    /\ queue # <<>> \/ current # None
    /\ cancel[i]
    /\ Arrive(i)
    /\ Refuse(i, "cancelled")
    /\ UNCHANGED <<cancel, routine, refs, queueVars, bufferVars, sourceVars,
                   contextVars>>

-----------------------------------------------------------------------------
(* SerialStartRead, one loop iteration in up to three steps. *)

\* SerialResizeBuffer: the characters move to a larger buffer (SerialRing).
ResizeBuffer(c) ==
    /\ AtPlace(c, "start") /\ current \in Resizes
    /\ info' = [info EXCEPT ![current] = 0]
    /\ status' = [status EXCEPT ![current] = "success"]
    /\ Go(c, "next")
    /\ UNCHANGED <<cancel, routine, refs, length, completions, queueVars,
                   bufferVars, sourceVars, lock, job, copied, timeouts>>

\* Old timers are cancelled, the timeouts read, and under the control lock
\* SerialGetCharsFromIntBuffer copies what the interrupt buffer has.
StartCopy(c) ==
    /\ AtPlace(c, "start") /\ current \notin Resizes
    /\ LET got == Lesser(count, length[current])
       IN  /\ needed' = length[current] - got
           /\ info' = [info EXCEPT ![current] = @ + got]
           /\ copied' = [copied EXCEPT ![c] = got]
    /\ \E t \in TimeoutSettings : timeouts' = [timeouts EXCEPT ![c] = t]
    /\ CancelTimers
    /\ armed' = [x \in Sources |-> x = "isr" /\ armed[x]]
    /\ Go(c, "copied")
    /\ UNCHANGED <<cancel, routine, refs, length, status, completions,
                   queueVars, count, userSlot, readByIsr, lastCount,
                   dpcQueued, lock, job>>

\* Mutant: os2ssreturn without a character.
SatisfiedByNothing(c) ==
    \/ ReturnWithWhatsPresent(timeouts[c])
    \/ needed = 0
    \/ Os2ssReturn(timeouts[c])

\* The first copy is enough for the read or for its timeouts.
Satisfied(c) ==
    \/ ReturnWithWhatsPresent(timeouts[c])
    \/ needed = 0
    \/ Os2ssReturn(timeouts[c]) /\ info[current] # 0

FinishAtOnce(c) ==
    /\ AtPlace(c, "copied")
    /\ Satisfied(c)
    /\ count' = count - copied[c]
    /\ status' = [status EXCEPT ![current] = "success"]
    /\ copied' = [copied EXCEPT ![c] = 0]
    /\ Go(c, "next")
    /\ UNCHANGED <<cancel, routine, refs, length, info, completions, queueVars,
                   needed, userSlot, readByIsr, lastCount, sourceVars, lock,
                   job, timeouts>>

\* The request was cancelled before it could be given to the ISR.  The copied
\* characters stay counted in the interrupt buffer.
FinishCancelled(c) ==
    /\ AtPlace(c, "copied") /\ lock = None
    /\ ~Satisfied(c)
    /\ cancel[current]
    /\ refs' = [refs EXCEPT ![current] = {}]
    /\ status' = [status EXCEPT ![current] = "cancelled"]
    /\ info' = [info EXCEPT ![current] = 0]
    /\ copied' = [copied EXCEPT ![c] = 0]
    /\ Go(c, "next")
    /\ UNCHANGED <<cancel, routine, length, completions, queueVars, bufferVars,
                   sourceVars, lock, job, timeouts>>

\* SerialUpdateAndSwitchToUser: what arrived since the first copy is copied
\* too, with the ISR kept out.
Wanted(c) == IF CrunchDownToOne(timeouts[c]) THEN 1 ELSE needed
Got(c) == Lesser(count - copied[c], Wanted(c))

SecondCopy(c) ==
    /\ AtPlace(c, "copied") /\ lock = None
    /\ ~Satisfied(c)
    /\ ~cancel[current]
    /\ needed' = Wanted(c) - Got(c)
    /\ count' = count - copied[c] - Got(c)
    /\ info' = [info EXCEPT ![current] = @ + Got(c)]
    /\ length' = [length EXCEPT ![current] =
                     IF CrunchDownToOne(timeouts[c]) THEN 1 ELSE @]
    /\ copied' = [copied EXCEPT ![c] = 0]
    /\ UNCHANGED <<cancel, completions, queueVars, dpcQueued, lock, job>>

FinishAtSwitch(c) ==
    /\ SecondCopy(c)
    /\ Got(c) = Wanted(c)
    /\ refs' = [refs EXCEPT ![current] = {}]
    /\ status' = [status EXCEPT ![current] = "success"]
    /\ Go(c, "next")
    /\ UNCHANGED <<routine, userSlot, readByIsr, lastCount, armed, dpcCount,
                   timeouts>>

\* A read that is still short goes to the ISR, its cancel routine and its
\* timers; the cancel spin lock keeps all of them off until that is done.
SwitchToUser(c) ==
    /\ SecondCopy(c)
    /\ Got(c) < Wanted(c)
    /\ userSlot' = info[current] + Got(c)
    /\ lastCount' = info[current] + Got(c)
    /\ readByIsr' = 0
    /\ routine' = [routine EXCEPT ![current] = "current"]
    /\ LET timers == TimersFor(timeouts[c])
       IN  /\ refs' = [refs EXCEPT ![current] = {"isr", "cancel"} \cup timers]
           /\ armed' = [x \in Sources |-> armed[x] \/ x \in {"isr"} \cup timers]
           /\ SetTimers(timers)
    /\ timeouts' = [timeouts EXCEPT ![c] = None]
    /\ Go(c, Back(c))
    /\ UNCHANGED status

\* SerialGetNextIrp completes the current request and makes the head of the
\* queue current, to be started by the same context.
FinishCurrent(c) ==
    /\ AtPlace(c, "next") /\ lock = None
    /\ Complete(current)
    /\ timeouts' = [timeouts EXCEPT ![c] = None]
    /\ UNCHANGED <<cancel, refs, length, info, status, bufferVars, sourceVars,
                   lock, job, copied>>

\* Mutant: the latest request is taken.
GetNewestIrp(c) ==
    /\ FinishCurrent(c)
    /\ queue # <<>>
    /\ current' = Last(queue)
    /\ queue' = Front(queue)
    /\ routine' = [routine EXCEPT ![Last(queue)] = "none"]
    /\ Go(c, "start")

GetNextIrp(c) ==
    /\ FinishCurrent(c)
    /\ queue # <<>>
    /\ current' = Head(queue)
    /\ queue' = Tail(queue)
    /\ routine' = [routine EXCEPT ![Head(queue)] = "none"]
    /\ Go(c, "start")

GetNoIrp(c) ==
    /\ FinishCurrent(c)
    /\ queue = <<>>
    /\ current' = None
    /\ Go(c, Back(c))
    /\ UNCHANGED <<queue, routine>>

-----------------------------------------------------------------------------
(* SerialPutChar, at device level: no lock keeps it out. *)

PutCharInUserBuffer ==
    /\ armed["isr"]
    /\ readByIsr' = readByIsr + 1
    /\ \/ /\ userSlot < length[current] - 1
          /\ userSlot' = userSlot + 1
          /\ UNCHANGED <<armed, count, info, dpcQueued, dpcCount>>
       \/ /\ userSlot = length[current] - 1
          /\ armed' = [armed EXCEPT !["isr"] = FALSE]
          /\ userSlot' = 0
          /\ count' = 0
          /\ info' = [info EXCEPT ![current] = length[current]]
          /\ InsertQueueDpc("isr")
    /\ UNCHANGED <<cancel, routine, refs, length, status, completions,
                   queueVars, needed, lastCount, contextVars>>

PutCharInInterruptBuffer ==
    /\ ~armed["isr"]
    /\ count < BufferSize
    /\ count' = count + 1
    /\ UNCHANGED <<irpVars, queueVars, needed, userSlot, readByIsr, lastCount,
                   sourceVars, contextVars>>

\* A line error, or no room for a character, when errors abort.
ReportError ==
    /\ ErrorAbort
    /\ InsertQueueDpc("error")
    /\ UNCHANGED <<irpVars, queueVars, bufferVars, armed, contextVars>>

-----------------------------------------------------------------------------
(* The kernel: a timer expires and queues its DPC; a processor runs a DPC. *)

Expire(t) ==
    /\ armed[t]
    /\ armed' = [armed EXCEPT ![t] = FALSE]
    /\ dpcQueued' = [dpcQueued EXCEPT ![t] = TRUE]
    /\ UNCHANGED <<irpVars, queueVars, bufferVars, dpcCount, contextVars>>

\* SerialCommError goes straight to SerialKillAllReadsOrWrites.
Deliver(c, d) ==
    /\ AtPlace(c, "idle")
    /\ dpcQueued[d]
    /\ dpcQueued' = [dpcQueued EXCEPT ![d] = FALSE]
    /\ job' = [job EXCEPT ![c] = d]
    /\ Go(c, IF d = "error" THEN "kill" ELSE "dpc")
    /\ UNCHANGED <<irpVars, queueVars, bufferVars, armed, dpcCount, lock,
                   copied, timeouts>>

-----------------------------------------------------------------------------
(* The DPC routines. *)

Runs(c, d) == AtPlace(c, "dpc") /\ job[c] = d /\ lock = None

CompleteRead(c) ==
    /\ Runs(c, "isr")
    /\ lastCount' = ReadComplete
    /\ TryToCompleteCurrent(c, "isr", "success", FALSE)
    /\ UNCHANGED <<cancel, lock>>

\* Mutant: the ISR keeps the user buffer.
ReadTimeoutWithoutGrab(c) ==
    /\ Runs(c, "total")
    /\ lastCount' = ReadTotal
    /\ TryToCompleteCurrent(c, "total", "timeout", FALSE)
    /\ UNCHANGED <<cancel, lock>>

ReadTimeout(c) ==
    /\ Runs(c, "total")
    /\ lastCount' = ReadTotal
    /\ TryToCompleteCurrent(c, "total", "timeout", TRUE)
    /\ UNCHANGED <<cancel, lock>>

\* SerialIntervalReadTimeout when another party ended the read first: it only
\* drops its reference, and completes with that party's status if it is last.
IntervalAfterEnd(c) ==
    /\ Runs(c, "interval")
    /\ lastCount < 0
    /\ TryToCompleteCurrent(c, "interval",
            CASE lastCount = ReadTotal -> "timeout"
              [] lastCount = ReadComplete -> "success"
              [] lastCount = ReadCancelled -> "cancelled", TRUE)
    /\ UNCHANGED <<cancel, lock, lastCount>>

\* Characters came, or none ever did, or the interval has not quite elapsed.
IntervalRearm(c) ==
    /\ Runs(c, "interval")
    /\ lastCount >= 0
    /\ IF readByIsr > 0
       THEN lastCount' = readByIsr /\ readByIsr' = 0
       ELSE UNCHANGED <<lastCount, readByIsr>>
    /\ SetTimers({"interval"})
    /\ armed' = [armed EXCEPT !["interval"] = TRUE]
    /\ Go(c, "epilogue")
    /\ UNCHANGED <<irpVars, queueVars, needed, count, userSlot, dpcQueued,
                   lock, job, copied, timeouts>>

\* Nothing came during the interval.  The test and the grab are not one step
\* for the ISR, which may still store characters; the lock is held throughout.
IntervalExpired(c) ==
    /\ Runs(c, "interval")
    /\ lastCount > 0 /\ readByIsr = 0
    /\ lock' = c
    /\ Go(c, "expired")
    /\ UNCHANGED <<irpVars, queueVars, bufferVars, sourceVars, job, copied,
                   timeouts>>

IntervalKill(c) ==
    /\ AtPlace(c, "expired")
    /\ TryToCompleteCurrent(c, "interval", "timeout", TRUE)
    /\ lock' = None
    /\ UNCHANGED <<cancel, lastCount>>

DpcEpilogue(c) ==
    /\ AtPlace(c, "epilogue")
    /\ dpcCount' = dpcCount - 1
    /\ job' = [job EXCEPT ![c] = None]
    /\ Go(c, "idle")
    /\ UNCHANGED <<irpVars, queueVars, bufferVars, armed, dpcQueued, lock,
                   copied, timeouts>>

-----------------------------------------------------------------------------
(* Cancellation: IoCancelIrp, SerialKillAllReadsOrWrites, SerialStartPurge. *)

\* Mutant: the request stays in the queue.
CancelQueuedInPlace(n) ==
    /\ cancel' = [cancel EXCEPT ![queue[n]] = TRUE]
    /\ routine' = [routine EXCEPT ![queue[n]] = "none"]
    /\ Refuse(queue[n], "cancelled")
    /\ UNCHANGED <<queue, refs, length, current, bufferVars, sourceVars>>

\* SerialCancelQueued; queue position n is given up.
CancelQueued(n) ==
    /\ cancel' = [cancel EXCEPT ![queue[n]] = TRUE]
    /\ routine' = [routine EXCEPT ![queue[n]] = "none"]
    /\ Refuse(queue[n], "cancelled")
    /\ queue' = RemoveAt(queue, n)
    /\ UNCHANGED <<refs, length, current, bufferVars, sourceVars>>

\* SerialCancelCurrentRead
CancelCurrentRead(c) ==
    /\ cancel' = [cancel EXCEPT ![current] = TRUE]
    /\ lastCount' = ReadCancelled
    /\ TryToCompleteCurrent(c, "cancel", "cancelled", TRUE)
    /\ UNCHANGED lock

\* IoCancelIrp sets the flag under the lock and calls the routine if any.
CancelQueuedIrp(i) ==
    /\ lock = None
    /\ routine[i] = "queued"
    /\ \E n \in DOMAIN queue : queue[n] = i /\ CancelQueued(n)
    /\ UNCHANGED contextVars

CancelCurrentIrp(c, i) ==
    /\ AtPlace(c, "idle") /\ lock = None
    /\ routine[i] = "current"
    /\ CancelCurrentRead(c)

FlagCancel(i) ==
    /\ lock = None
    /\ ~cancel[i]
    /\ completions[i] = 0
    /\ routine[i] = "none"
    /\ cancel' = [cancel EXCEPT ![i] = TRUE]
    /\ UNCHANGED <<routine, refs, length, info, status, completions, queueVars,
                   bufferVars, sourceVars, contextVars>>

\* SerialStartPurge (SERIAL_PURGE_RXABORT) or SerialKillPendingIrps.
KillAll(c) ==
    /\ AtPlace(c, "idle")
    /\ Go(c, "kill")
    /\ UNCHANGED <<irpVars, queueVars, bufferVars, sourceVars, lock, job,
                   copied, timeouts>>

\* The queue is emptied from the back; each round retakes the lock.
KillQueued(c) ==
    /\ AtPlace(c, "kill") /\ lock = None
    /\ queue # <<>>
    /\ CancelQueued(Len(queue))
    /\ UNCHANGED contextVars

KillCurrent(c) ==
    /\ AtPlace(c, "kill") /\ lock = None
    /\ queue = <<>>
    /\ current # None
    /\ routine[current] # "none"
    /\ CancelCurrentRead(c)

\* There is no current request, or it is not cancellable at the moment and
\* will see the flag before it becomes so.
KillDone(c) ==
    /\ AtPlace(c, "kill") /\ lock = None
    /\ queue = <<>>
    /\ current # None => routine[current] = "none"
    /\ cancel' = [i \in Irps |-> cancel[i] \/ i = current]
    /\ Go(c, Back(c))
    /\ UNCHANGED <<routine, refs, length, info, status, completions,
                   queueVars, bufferVars, sourceVars, lock, job, copied,
                   timeouts>>

\* SerialStartPurge (SERIAL_PURGE_RXCLEAR) takes the control lock, which a
\* read holds from its first copy to its end or its switch.
PurgeInterruptBuffer ==
    /\ \A c \in Contexts : ~AtPlace(c, "copied")
    /\ ~armed["isr"]
    /\ count' = 0
    /\ UNCHANGED <<irpVars, queueVars, needed, userSlot, readByIsr, lastCount,
                   sourceVars, contextVars>>

-----------------------------------------------------------------------------
StartRead(c) == \/ ResizeBuffer(c) \/ StartCopy(c) \/ FinishAtOnce(c)
                \/ FinishCancelled(c) \/ FinishAtSwitch(c) \/ SwitchToUser(c)
                \/ GetNextIrp(c) \/ GetNoIrp(c)

IntervalReadTimeout(c) == \/ IntervalAfterEnd(c) \/ IntervalRearm(c)
                          \/ IntervalExpired(c) \/ IntervalKill(c)

\* What a context does once it has begun something.
Work(c) == \/ StartRead(c)
           \/ CompleteRead(c) \/ ReadTimeout(c) \/ IntervalReadTimeout(c)
           \/ DpcEpilogue(c) \/ KillQueued(c) \/ KillCurrent(c) \/ KillDone(c)

Dispatch(d) == \E c \in Cpus : Deliver(c, d)

Next ==
    \/ \E i \in Irps : \/ RefuseAtDispatch(i) \/ QueueAtDispatch(i)
                       \/ CancelledAtDispatch(i)
                       \/ CancelQueuedIrp(i) \/ FlagCancel(i)
    \/ \E c \in Threads, i \in Irps :
            StartAtDispatch(c, i) \/ CancelCurrentIrp(c, i)
    \/ \E c \in Threads : KillAll(c)
    \/ \E c \in Contexts : Work(c)
    \/ \E t \in Timers : Expire(t)
    \/ \E d \in Dpcs : Dispatch(d)
    \/ PutCharInUserBuffer \/ PutCharInInterruptBuffer \/ ReportError
    \/ PurgeInterruptBuffer

Spec == Init /\ [][Next]_vars

(***************************************************************************)
(* A context that has begun something goes on with it (the kernel runs     *)
(* every thread and spin locks are held briefly), a set timer expires, and *)
(* a queued DPC runs: DPC queues are FIFO, so even a processor that other  *)
(* DPCs keep busy gets to it, hence strong fairness.  Nobody has to send   *)
(* characters, submit requests or cancel them.                             *)
(***************************************************************************)
Fairness == /\ \A c \in Contexts : WF_vars(Work(c))
            /\ \A t \in Timers : WF_vars(Expire(t))
            /\ \A d \in Dpcs : SF_vars(Dispatch(d))

FairSpec == Spec /\ Fairness

-----------------------------------------------------------------------------
(* Safety. *)

\* c runs SerialStartRead or SerialGetNextIrp on the current read.
Starting(c) == pc[c] \in {"start", "copied", "next"}

\* c runs the DPC of s and has not yet dropped the reference of s.
Handling(c, s) == job[c] = s /\ pc[c] \in {"dpc", "expired"}

Holds(s) == \/ armed[s]
            \/ dpcQueued[s]
            \/ \E c \in Contexts : Handling(c, s)

\* Two contexts never run SerialStartRead or SerialGetNextIrp of this port at
\* the same time, although dispatch, cancel and three DPCs all call them and
\* no lock is held across them; a context that does has a current read.
OneStarter ==
    /\ \A c, d \in Contexts : Starting(c) /\ Starting(d) => c = d
    /\ \A c \in Contexts : Starting(c) => current # None

\* The reference mask is exact: a bit is set if and only if its holder can
\* still reach the read, so SERIAL_CLEAR_REFERENCE never asserts and no DPC
\* runs for a read that is gone; a current read that nobody is starting or
\* completing has at least one holder, so it cannot be forgotten.
RefsMatchHolders ==
    IF current = None \/ \E c \in Contexts : Starting(c)
    THEN \A s \in Sources : ~Holds(s)
    ELSE /\ \A s \in Sources : Holds(s) <=> s \in refs[current]
         /\ routine[current] = "current" <=> "cancel" \in refs[current]
         /\ refs[current] # {}

\* A completed request is completed once and is neither current nor queued,
\* has no cancel routine and no references: nothing touches it again.
NoUseAfterCompletion ==
    \A i \in Irps : completions[i] > 0 =>
        /\ completions[i] = 1
        /\ current # i
        /\ i \notin Range(queue)
        /\ refs[i] = {}
        /\ routine[i] = "none"

\* Cancellation is never missed: no request has both its Cancel flag and a
\* cancel routine nobody has called, whichever of IoCancelIrp, dispatch,
\* SerialGetNextIrp and SerialStartRead came first.
CancelNotMissed == \A i \in Irps : ~(cancel[i] /\ routine[i] # "none")

\* While a copy out of the interrupt buffer is not yet accounted for, the
\* buffer still counts the copied characters: the ASSERT of
\* SerialUpdateInterruptBuffer.
CopyStillCounted ==
    \A c \in Contexts : pc[c] = "copied" => copied[c] <= count

\* DpcCount, which close and remove wait on, is one plus the timers that are
\* set, the DPCs that are queued and the DPCs that are running.
DpcCountExact ==
    dpcCount = 1 + Cardinality({t \in Timers : armed[t]})
                 + Cardinality({d \in Dpcs : dpcQueued[d]})
                 + Cardinality({c \in Contexts : job[c] # None})

\* What CountOnLastRead tells the interval timer is about this read: while the
\* ISR owns the read no other party has ended it, and a count above zero
\* means a character really came, so the interval never ends a read before
\* its first character.
IntervalMarkCurrent ==
    armed["isr"] => /\ lastCount >= 0
                    /\ lastCount > 0 => userSlot > 0
                    /\ readByIsr <= userSlot

\* How a read ends is honest: success means it is full or its timeouts let
\* it return early, cancelled means somebody cancelled it and it reports
\* no characters, and it has some final status when it is completed.
HonestOutcome ==
    \A c \in Contexts : pc[c] = "next" /\ current \notin Resizes =>
        /\ status[current] # "pending"
        /\ status[current] = "success" =>
              \/ info[current] = length[current]
              \/ /\ timeouts[c] # None
                 /\ \/ ReturnWithWhatsPresent(timeouts[c])
                    \/ Os2ssReturn(timeouts[c]) /\ info[current] > 0
        /\ status[current] = "cancelled" =>
               cancel[current] /\ info[current] = 0

-----------------------------------------------------------------------------
(***************************************************************************)
(* The inductive invariant SerialReadProofs rests on.                      *)
(***************************************************************************)

\* A request is queued exactly when its cancel routine is SerialCancelQueued;
\* only the current read has references; the queue has no gaps in its life.
QueueInv ==
    /\ \A m, n \in 1..Len(queue) : queue[m] = queue[n] => m = n
    /\ \A n \in 1..Len(queue) : routine[queue[n]] = "queued"
    /\ \A i \in Irps : routine[i] = "queued" =>
           /\ i # current
           /\ completions[i] = 0
           /\ \E n \in 1..Len(queue) : queue[n] = i
    /\ \A i \in Irps : routine[i] = "current" => i = current
    /\ \A i \in Irps : i # current => refs[i] = {}
    /\ \A i \in Irps : completions[i] \in {0, 1}
    /\ current # None => completions[current] = 0
    /\ current = None => queue = <<>>

\* The spin lock is held across steps only between the two halves of an
\* interval timeout, and a context runs a DPC where it should.
ContextInv ==
    /\ \A c \in Contexts : pc[c] = "expired" <=> lock = c
    /\ \A c \in Contexts : pc[c] = "idle" => job[c] = None
    /\ \A c \in Contexts : pc[c] = "dpc" => job[c] \in Sources
    /\ \A c \in Contexts : pc[c] = "epilogue" => job[c] # None
    /\ \A c \in Contexts : pc[c] = "expired" => job[c] = "interval"

\* A source has one thing pending: it is armed, or queued, or handled once.
SourceInv ==
    \A s \in Sources :
        /\ ~(armed[s] /\ dpcQueued[s])
        /\ \A c \in Contexts : Handling(c, s) =>
               /\ ~armed[s]
               /\ ~dpcQueued[s]
               /\ \A d \in Contexts : Handling(d, s) => c = d

\* A read being started is out of everybody else's reach.
StarterInv ==
    \A c \in Contexts : Starting(c) =>
        /\ current # None
        /\ refs[current] = {}
        /\ routine[current] = "none"
        /\ \A d \in Contexts : Starting(d) => c = d

\* The character counts of a read, from dispatch to the user buffer.
LengthInv ==
    /\ \A i \in Irps : Fresh(i) \/ routine[i] = "queued" => info[i] = 0
    /\ \A c \in Contexts : pc[c] = "start" => info[current] = 0
    /\ \A c \in Contexts : pc[c] = "copied" =>
           /\ timeouts[c] \in TimeoutSettings
           /\ info[current] + needed = length[current]
           /\ copied[c] <= count
    /\ armed["isr"] => /\ current # None
                       /\ userSlot < length[current]
    /\ IntervalMarkCurrent

IInv == /\ TypeOK
        /\ QueueInv
        /\ ContextInv
        /\ SourceInv
        /\ StarterInv
        /\ RefsMatchHolders
        /\ LengthInv
        /\ CancelNotMissed

\* c runs the DPC that ends a read the ISR has filled, or will.
Filled == dpcQueued["isr"] \/ \E c \in Contexts : Handling(c, "isr")

\* What HonestOutcome rests on while a read is still held: a filled read is
\* full, and the mark an ending leaves for the interval timer tells the truth.
OutcomeInv ==
    /\ HonestOutcome
    /\ Filled => info[current] = length[current]
    /\ current # None /\ (\A c \in Contexts : ~Starting(c)) =>
           /\ lastCount = ReadComplete => info[current] = length[current]
           /\ lastCount = ReadCancelled => cancel[current]

-----------------------------------------------------------------------------
\* The read queue keeps the promises of IrpQueue.
ReadQueue == INSTANCE IrpQueue WITH active <- current, waiting <- queue
ImplementsIrpQueue == ReadQueue!Spec

-----------------------------------------------------------------------------
(* Liveness, under FairSpec. *)

Completed(i) == completions[i] > 0

\* A request that is cancelled once it was dispatched is completed, wherever
\* in the driver it is and whoever is working on it.
CancelCompletes == \A i \in Irps : (cancel[i] /\ ~Fresh(i)) ~> Completed(i)

\* A read whose total timer runs is completed, whatever else happens to it.
TotalTimeoutCompletes ==
    \A i \in Irps : (current = i /\ armed["total"]) ~> Completed(i)

\* A read that the ISR has filled is completed.
FullReadCompletes ==
    \A i \in Irps : (current = i /\ dpcQueued["isr"]) ~> Completed(i)

\* A read that has a reason to end is completed: whichever of the four parties
\* gives up the last reference has to notice that it is the last.
ReadsEnd == CancelCompletes /\ TotalTimeoutCompletes /\ FullReadCompletes
=============================================================================
