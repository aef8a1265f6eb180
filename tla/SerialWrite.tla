----------------------------- MODULE SerialWrite -----------------------------
(***************************************************************************)
(* The transmit side of one serial port: serial/serial/write.c, flush.c,   *)
(* immediat.c, the transmit part of isr.c and the parts of utils.c they    *)
(* share with the read path.                                               *)
(*                                                                         *)
(* Writes, flushes and XOFF counters wait in one queue.  Three requests    *)
(* can be in the driver's hands at once, one per slot: the current write,  *)
(* an XOFF counter whose character was sent and that now counts received   *)
(* characters, and an immediate character, which bypasses the queue.  Each *)
(* is known to the ISR, a timer and its cancel routine, and whoever drops  *)
(* the last reference completes it.                                        *)
(*                                                                         *)
(* One step is one cancel-spin-lock section, one interrupt, one timer      *)
(* expiry or one DPC up to the end of its lock section.  The characters    *)
(* are only counted.  SerialKillAllReadsOrWrites is a series of the cancel *)
(* steps below; DpcCount is in SerialRead.                                 *)
(***************************************************************************)
EXTENDS Integers, FiniteSets, SequencesExt

CONSTANTS
    Writes,         \* IRP_MJ_WRITE requests of at least one character
    XoffCounters,   \* IOCTL_SERIAL_XOFF_COUNTER requests
    Flushes,        \* IRP_MJ_FLUSH_BUFFERS requests
    Immediates,     \* IOCTL_SERIAL_IMMEDIATE_CHAR requests
    Threads,        \* threads that submit, cancel and purge
    Cpus,           \* processors that run DPCs
    None,           \* no request
    MaxLen,         \* bound on the length of a write
    MaxCounter,     \* bound on the counter of an XOFF counter
    FifoSize,       \* TxFifoAmount, or 1 without a FIFO
    HoldReasons,    \* bits of TXHolding: "xoff", and "line" for the others
    TimerChoices    \* whether the timeouts in effect ask for a timer

QueueIrps == Writes \cup XoffCounters \cup Flushes
Irps == QueueIrps \cup Immediates
Contexts == Threads \cup Cpus

\* CurrentWriteIrp, CurrentXoffIrp and CurrentImmediateIrp.
Slots == {"write", "xoff", "immediate"}

\* SERIAL_REF_ISR, SERIAL_REF_TOTAL_TIMER, SERIAL_REF_CANCEL; SERIAL_REF_XOFF_REF
\* comes and goes within one lock section.
RefTypes == {"isr", "timer", "cancel"}

ASSUME SerialWriteAssumption ==
    /\ Writes \cap XoffCounters = {}
    /\ Flushes \cap (Writes \cup XoffCounters) = {}
    /\ Immediates \cap QueueIrps = {}
    /\ None \notin Irps
    /\ Threads \cap Cpus = {}
    /\ MaxLen \in Nat \ {0}
    /\ MaxCounter \in Nat \ {0}
    /\ FifoSize \in Nat \ {0}
    /\ {"xoff"} \subseteq HoldReasons /\ HoldReasons \subseteq {"xoff", "line"}
    /\ TimerChoices \subseteq BOOLEAN

VARIABLES
    irp,            \* the requests, see Irp
    completions,    \* how often IoCompleteRequest was called on each
    queue,          \* WriteQueue
    slot,           \* the requests in the driver's hands, see Slot
    chars,          \* TotalCharsQueued
    held,           \* TXHolding
    holdingEmpty,   \* HoldingEmpty
    uart,           \* "busy" shifting, "irq" THR interrupt due, or "idle"
    flowChar,       \* "xon" SendXonChar, "xoff" SendXoffChar, "none" neither
    emptied,        \* EmptiedTransmit
    announced,      \* no request was transmitted since SERIAL_EV_TXEMPTY
    stranded,       \* SerialSetupNewHandFlow dropped the last hold, work was
                    \* waiting, and nothing has woken the UART since
    pc              \* where each context is

\* What the ISR and the routines synchronised with it share; the history
\* variables announced and stranded are read by no action.
uartVars == <<held, holdingEmpty, uart, flowChar, emptied, announced, stranded>>
vars == <<irp, completions, queue, slot, chars, uartVars, pc>>

Irp == [cancel: BOOLEAN,                        \* Irp->Cancel
        routine: {"none", "queued"} \cup Slots, \* Irp->CancelRoutine
        refs: SUBSET RefTypes,                  \* the reference mask
        length: 0..MaxLen,                      \* its characters
        info: 0..MaxLen,                        \* IoStatus.Information of a write
        wire: 0..MaxLen,                        \* characters put into the UART
        status: {"new", "pending", "success", "timeout", "cancelled", "done"}]

\* owed is WriteLength, CountSinceXoff or TransmitImmediate; sent and late say
\* that the slot's completion and timeout DPC are queued.
Slot == [irp: Irps \cup {None},
         owed: 0..(MaxLen + MaxCounter),
         timer: BOOLEAN,
         sent: BOOLEAN,
         late: BOOLEAN]

Places == {"idle", "start", "give", "next", "pop", "keep", "empty", "istart",
           "inext"}

TypeOK ==
    /\ irp \in [Irps -> Irp]
    /\ completions \in [Irps -> Nat]
    /\ queue \in Seq(QueueIrps)
    /\ slot \in [Slots -> Slot]
    /\ chars \in Nat
    /\ held \subseteq HoldReasons
    /\ holdingEmpty \in BOOLEAN
    /\ uart \in {"busy", "irq", "idle"}
    /\ flowChar \in {"none", "xon", "xoff"}
    /\ emptied \in BOOLEAN
    /\ announced \in BOOLEAN
    /\ stranded \in BOOLEAN
    /\ pc \in [Contexts -> Places]

New == [cancel |-> FALSE, routine |-> "none", refs |-> {}, length |-> 0,
        info |-> 0, wire |-> 0, status |-> "new"]

\* What is left of a completed request.
Ended == [New EXCEPT !.status = "done"]

Init ==
    /\ irp = [i \in Irps |-> New]
    /\ completions = [i \in Irps |-> 0]
    /\ queue = <<>>
    /\ slot = [s \in Slots |-> [irp |-> None, owed |-> 0, timer |-> FALSE,
                                sent |-> FALSE, late |-> FALSE]]
    /\ chars = 0
    /\ held = {}
    /\ holdingEmpty = TRUE
    /\ uart = "idle"
    /\ flowChar = "none"
    /\ emptied = FALSE
    /\ announced = TRUE
    /\ stranded = FALSE
    /\ pc = [c \in Contexts |-> "idle"]

-----------------------------------------------------------------------------
(* Helpers shared by the actions. *)

CurrentWrite == slot["write"].irp
CurrentImmediate == slot["immediate"].irp

AtPlace(c, p) == pc[c] = p
Go(c, p) == pc' = [pc EXCEPT ![c] = p]

Complete(i) == completions' = [completions EXCEPT ![i] = @ + 1]

\* The request is completed and the I/O manager has it back.
Finish(i) == /\ irp' = [irp EXCEPT ![i] = Ended]
             /\ Complete(i)

\* As Finish, but TotalCharsQueued still counts the request's characters.
FinishCounted(i, n) == /\ irp' = [irp EXCEPT ![i] = [Ended EXCEPT !.length = n]]
                       /\ Complete(i)

\* The characters by which a request raises TotalCharsQueued.
Lengths(i) == IF i \in Writes THEN 1..MaxLen ELSE IF i \in Flushes THEN {0} ELSE {1}

Lesser(a, b) == IF a < b THEN a ELSE b

\* DISABLE_ALL_INTERRUPTS, ENABLE_ALL_INTERRUPTS: an empty UART interrupts.
Wake(when) == uart' = IF when /\ holdingEmpty THEN "irq" ELSE uart

Tickle(when) == Wake(when) /\ stranded' = (stranded /\ ~when)

\* SerialProcessEmptyTransmit, for a wait mask with SERIAL_EV_TXEMPTY.
Announce(noImmediate, noWrite) ==
    announced' = \/ announced
                 \/ emptied /\ noImmediate /\ noWrite /\ queue = <<>>

(***************************************************************************)
(* SerialTryToCompleteCurrent on slot s, with the slot's Grab...FromIsr    *)
(* when sync and its timer when timed: the caller gives up its reference   *)
(* h, takes the request from the ISR, and cancels the cancel routine and   *)
(* the timer.  If no reference is left the request ends with status st:    *)
(* an XOFF counter is completed at once, a write or an immediate character *)
(* goes on to SerialGetNextWrite or SerialGetNextImmediate.  Otherwise the *)
(* caller is through, or goes on at "give" when it is SerialStartWrite.    *)
(***************************************************************************)

\* Mutant: a cancelled timer keeps its reference.
ReferencesLeftKeepingTimer(s, h, sync, timed) ==
    {r \in irp[slot[s].irp].refs \ {h} :
        /\ r = "isr" => ~(sync /\ slot[s].owed > 0)
        /\ r = "cancel" => irp[slot[s].irp].routine = "none"}

ReferencesLeft(s, h, sync, timed) ==
    {r \in irp[slot[s].irp].refs \ {h} :
        /\ r = "isr" => ~(sync /\ slot[s].owed > 0)
        /\ r = "timer" => ~(timed /\ slot[s].timer)
        /\ r = "cancel" => irp[slot[s].irp].routine = "none"}

\* Mutant: what is left to send is reported.
AmountUnsent(i) == slot["write"].owed

\* SerialGrabWriteFromIsr works out how much was sent.
AmountSent(i) == irp[i].length - slot["write"].owed

TryToCompleteCurrent(c, s, h, st, sync, timed) ==
    LET i == slot[s].irp
        left == ReferencesLeft(s, h, sync, timed)
        last == left = {}
        dropped ==
            [irp[i] EXCEPT
                !.cancel = @ \/ h = "cancel",
                !.refs = left,
                !.routine = "none",
                !.status = IF last THEN st ELSE @,
                !.info = IF i \notin Writes \/ (last /\ st = "cancelled") THEN 0
                         ELSE IF sync /\ slot[s].owed > 0 THEN AmountSent(i)
                         ELSE @]
    IN  /\ slot' = [slot EXCEPT ![s] =
                       [irp |-> IF last /\ s = "xoff" THEN None ELSE i,
                        owed |-> IF sync THEN 0 ELSE @.owed,
                        timer |-> @.timer /\ ~timed,
                        sent |-> @.sent /\ h # "isr",
                        late |-> @.late /\ h # "timer"]]
        /\ IF last /\ s = "xoff" THEN Finish(i)
           ELSE irp' = [irp EXCEPT ![i] = dropped] /\ UNCHANGED completions
        /\ Go(c, CASE last /\ s = "write" -> "next"
                   [] last /\ s = "immediate" -> "inext"
                   [] OTHER -> IF AtPlace(c, "start") THEN "give" ELSE "idle")
        /\ UNCHANGED <<queue, chars, uartVars>>

-----------------------------------------------------------------------------
(* Dispatch: SerialWrite, SerialFlush, SerialIoControl, SerialStartOrQueue. *)

Fresh(i) == irp[i].status = "new"

\* SerialCompleteIfError rejects the request, or the write is empty.
RefuseAtDispatch(i) ==
    /\ Fresh(i)
    /\ Finish(i)
    /\ UNCHANGED <<queue, slot, chars, uartVars, pc>>

\* The queue is idle.  SerialStartFlush ends the flush it is called for.
StartAtDispatch(c, i) ==
    /\ AtPlace(c, "idle")
    /\ i \in QueueIrps /\ Fresh(i)
    /\ queue = <<>> /\ CurrentWrite = None
    /\ \E n \in Lengths(i) :
           /\ irp' = [irp EXCEPT ![i].length = n, ![i].status = "pending"]
           /\ chars' = chars + n
    /\ slot' = [slot EXCEPT !["write"].irp = i]
    /\ Go(c, IF i \in Flushes THEN "pop" ELSE "start")
    /\ UNCHANGED <<completions, queue, uartVars>>

\* Mutant: the newcomer overtakes the queue.
QueueAtHead(i) ==
    /\ i \in QueueIrps /\ Fresh(i) /\ ~irp[i].cancel
    /\ queue # <<>> \/ CurrentWrite # None
    /\ \E n \in Lengths(i) :
           /\ irp' = [irp EXCEPT ![i].length = n, ![i].status = "pending",
                                 ![i].routine = "queued"]
           /\ chars' = chars + n
    /\ queue' = <<i>> \o queue
    /\ UNCHANGED <<completions, slot, uartVars, pc>>

QueueAtDispatch(i) ==
    /\ i \in QueueIrps /\ Fresh(i) /\ ~irp[i].cancel
    /\ queue # <<>> \/ CurrentWrite # None
    /\ \E n \in Lengths(i) :
           /\ irp' = [irp EXCEPT ![i].length = n, ![i].status = "pending",
                                 ![i].routine = "queued"]
           /\ chars' = chars + n
    /\ queue' = Append(queue, i)
    /\ UNCHANGED <<completions, slot, uartVars, pc>>

\* It would have to wait but is cancelled already; its characters stay counted.
CancelledAtDispatch(i) ==
    /\ i \in QueueIrps /\ Fresh(i) /\ irp[i].cancel
    /\ queue # <<>> \/ CurrentWrite # None
    /\ \E n \in Lengths(i) : FinishCounted(i, n) /\ chars' = chars + n
    /\ UNCHANGED <<queue, slot, uartVars, pc>>

\* One immediate character at a time; another one is STATUS_INVALID_PARAMETER.
ImmediateAtDispatch(c, i) ==
    /\ AtPlace(c, "idle")
    /\ i \in Immediates /\ Fresh(i) /\ ~irp[i].cancel
    /\ CurrentImmediate = None
    /\ irp' = [irp EXCEPT ![i].length = 1, ![i].status = "pending"]
    /\ chars' = chars + 1
    /\ slot' = [slot EXCEPT !["immediate"].irp = i]
    /\ Go(c, "istart")
    /\ UNCHANGED <<completions, queue, uartVars>>

-----------------------------------------------------------------------------
(* SerialStartWrite, one loop iteration in two lock sections. *)

\* Mutant: the ISR goes on counting.
PreemptWithoutGrab(c) ==
    /\ AtPlace(c, "start")
    /\ slot["xoff"].irp # None
    /\ TryToCompleteCurrent(c, "xoff", "xoffref", "success", FALSE, TRUE)

\* A new write ends the XOFF counter that is still counting.
PreemptXoff(c) ==
    /\ AtPlace(c, "start")
    /\ slot["xoff"].irp # None
    /\ TryToCompleteCurrent(c, "xoff", "xoffref", "success", TRUE, TRUE)

Giving(c) == \/ AtPlace(c, "give")
             \/ AtPlace(c, "start") /\ slot["xoff"].irp = None

\* The request was cancelled before it could be given to the ISR.
FinishCancelled(c) ==
    /\ Giving(c)
    /\ irp[CurrentWrite].cancel
    /\ irp' = [irp EXCEPT ![CurrentWrite].status = "cancelled"]
    /\ Go(c, "next")
    /\ UNCHANGED <<completions, queue, slot, chars, uartVars>>

\* The request gets its cancel routine, its timer, and n characters for the ISR.
HandToIsr(s, i, n) ==
    \E t \in TimerChoices :
        /\ irp' = [irp EXCEPT ![i].routine = s,
                              ![i].refs = {"cancel", "isr"} \cup
                                          (IF t THEN {"timer"} ELSE {})]
        /\ slot' = [slot EXCEPT ![s].irp = i, ![s].owed = n, ![s].timer = t]

\* Mutant: the cancel flag is not looked at.
GiveWriteUnchecked(c) ==
    /\ Giving(c)
    /\ HandToIsr("write", CurrentWrite, irp[CurrentWrite].length)
    /\ Tickle(slot["immediate"].owed = 0)
    /\ Go(c, "idle")
    /\ UNCHANGED <<completions, queue, chars, held, holdingEmpty, flowChar,
                   emptied, announced>>

\* Cancel routine, timer and SerialGiveWriteToIsr under one lock.
GiveWrite(c) ==
    /\ Giving(c)
    /\ ~irp[CurrentWrite].cancel
    /\ HandToIsr("write", CurrentWrite, irp[CurrentWrite].length)
    /\ Tickle(slot["immediate"].owed = 0)
    /\ Go(c, "idle")
    /\ UNCHANGED <<completions, queue, chars, held, holdingEmpty, flowChar,
                   emptied, announced>>

-----------------------------------------------------------------------------
(* SerialGetNextWrite: account, take the next request, look for emptiness.   *)
(* At "pop" the finished request is still to be completed, at "keep" it is   *)
(* an XOFF counter that goes on (CompleteCurrent is FALSE).                  *)

StartsCounting(i) == i \in XoffCounters /\ irp[i].status = "success"

\* Mutant: the characters of the finished request stay counted.
AccountNothing(c) ==
    /\ AtPlace(c, "next")
    /\ ~StartsCounting(CurrentWrite)
    /\ Go(c, "pop")
    /\ UNCHANGED <<irp, completions, queue, slot, chars, uartVars>>

Account(c) ==
    /\ AtPlace(c, "next")
    /\ ~StartsCounting(CurrentWrite)
    /\ chars' = chars - irp[CurrentWrite].length
    /\ Go(c, "pop")
    /\ UNCHANGED <<irp, completions, queue, slot, uartVars>>

\* Mutant: CompleteCurrent stays TRUE.
AccountXoffAndComplete(c) ==
    /\ AtPlace(c, "next")
    /\ StartsCounting(CurrentWrite)
    /\ chars' = chars - 1
    /\ IF irp[CurrentWrite].cancel
       THEN irp' = [irp EXCEPT ![CurrentWrite].status = "cancelled"] /\ UNCHANGED slot
       ELSE \E n \in 1..MaxCounter : HandToIsr("xoff", CurrentWrite, n)
    /\ Go(c, "pop")
    /\ UNCHANGED <<completions, queue, uartVars>>

\* The character of an XOFF counter is out: the request leaves the write
\* queue uncompleted, to the ISR that counts, its timer and a new cancel
\* routine -- unless somebody cancelled it meanwhile.
AccountXoff(c) ==
    /\ AtPlace(c, "next")
    /\ StartsCounting(CurrentWrite)
    /\ chars' = chars - 1
    /\ IF irp[CurrentWrite].cancel
       THEN /\ irp' = [irp EXCEPT ![CurrentWrite].status = "cancelled"]
            /\ UNCHANGED slot
            /\ Go(c, "pop")
       ELSE /\ \E n \in 1..MaxCounter : HandToIsr("xoff", CurrentWrite, n)
            /\ Go(c, "keep")
    /\ UNCHANGED <<completions, queue, uartVars>>

\* SerialGetNextIrp and the end of a round: a flush that reaches the front is
\* ended by the next round, with the same CompleteCurrent.
GetNextIrp(c) ==
    LET next == IF queue = <<>> THEN None ELSE Head(queue)
        ended == IF AtPlace(c, "pop") THEN {CurrentWrite} ELSE {}
    IN  /\ pc[c] \in {"pop", "keep"}
        /\ irp' = [i \in Irps |->
                      IF i \in ended THEN Ended
                      ELSE IF i = next THEN [irp[i] EXCEPT !.routine = "none"]
                      ELSE irp[i]]
        /\ completions' = [i \in Irps |->
                              completions[i] + IF i \in ended THEN 1 ELSE 0]
        /\ slot' = [slot EXCEPT !["write"].irp = next]
        /\ queue' = IF queue = <<>> THEN <<>> ELSE Tail(queue)
        /\ Go(c, IF queue = <<>> THEN "empty"
                 ELSE IF next \in Flushes THEN pc[c] ELSE "start")
        /\ UNCHANGED <<chars, uartVars>>

ProcessEmptyTransmit(c) ==
    /\ AtPlace(c, "empty")
    /\ Announce(slot["immediate"].owed = 0, CurrentWrite = None)
    /\ Go(c, "idle")
    /\ UNCHANGED <<irp, completions, queue, slot, chars, held, holdingEmpty,
                   uart, flowChar, emptied, stranded>>

-----------------------------------------------------------------------------
(* SerialStartImmediate and SerialGetNextImmediate. *)

\* It is cancelled already; its character stays in TotalCharsQueued.
FinishImmediateCancelled(c) ==
    /\ AtPlace(c, "istart")
    /\ irp[CurrentImmediate].cancel
    /\ FinishCounted(CurrentImmediate, 1)
    /\ slot' = [slot EXCEPT !["immediate"].irp = None]
    /\ Go(c, "idle")
    /\ UNCHANGED <<queue, chars, uartVars>>

GiveImmediate(c) ==
    /\ AtPlace(c, "istart")
    /\ ~irp[CurrentImmediate].cancel
    /\ HandToIsr("immediate", CurrentImmediate, 1)
    /\ Tickle(slot["write"].owed = 0)
    /\ Go(c, "idle")
    /\ UNCHANGED <<completions, queue, chars, held, holdingEmpty, flowChar,
                   emptied, announced>>

\* Mutant: the end of an immediate character does not look for emptiness.
GetNextImmediateQuietly(c) ==
    /\ AtPlace(c, "inext")
    /\ Finish(CurrentImmediate)
    /\ chars' = chars - 1
    /\ slot' = [slot EXCEPT !["immediate"].irp = None]
    /\ Go(c, "idle")
    /\ UNCHANGED <<queue, uartVars>>

GetNextImmediate(c) ==
    /\ AtPlace(c, "inext")
    /\ Finish(CurrentImmediate)
    /\ chars' = chars - 1
    /\ slot' = [slot EXCEPT !["immediate"].irp = None]
    /\ Announce(slot["immediate"].owed = 0, CurrentWrite = None)
    /\ Go(c, "idle")
    /\ UNCHANGED <<queue, held, holdingEmpty, uart, flowChar, emptied, stranded>>

-----------------------------------------------------------------------------
(* The ISR at device level: no lock keeps it out. *)

Work2Do == slot["write"].owed > 0 \/ slot["immediate"].owed > 0

\* What SERIAL_IIR_THR sends while TXHolding is h: an XON, which XOFF does not
\* hold, or an XOFF; then the immediate character, which XOFF does not hold
\* either; then the write.
SendsFlowChar(h) == \/ flowChar = "xon" /\ h \subseteq {"xoff"}
                    \/ flowChar = "xoff" /\ h = {}
SendsImmediate(h) == slot["immediate"].owed > 0 /\ h \subseteq {"xoff"}
SendsWrite(h) == ~SendsImmediate(h) /\ slot["write"].owed > 0 /\ h = {}

\* An XON ends the hold of an XOFF; an XOFF begins one, unless the handflow
\* has SERIAL_XOFF_CONTINUE.
SendFlowChar(h) ==
    /\ flowChar' = "none"
    /\ held' \in IF flowChar = "xon" THEN {h \ {"xoff"}}
                                    ELSE {h, h \cup {"xoff"}}

SendImmediate ==
    /\ slot' = [slot EXCEPT !["immediate"].owed = 0, !["immediate"].sent = TRUE]
    /\ irp' = [irp EXCEPT ![CurrentImmediate].wire = 1]

\* The last character queues CompleteWriteDpc.
SendWrite ==
    LET i == CurrentWrite
        n == Lesser(FifoSize, slot["write"].owed)
        last == n = slot["write"].owed
    IN  /\ slot' = [slot EXCEPT !["write"].owed = @ - n,
                                !["write"].sent = @ \/ last]
        /\ irp' = [irp EXCEPT ![i].wire = @ + n,
                              ![i].info = IF last /\ i \in Writes
                                          THEN irp[i].length ELSE @]

\* doTrasmitStuff, with something to send and TXHolding h.
Transmit(h) ==
    /\ emptied' = TRUE
    /\ stranded' = FALSE
    /\ IF SendsFlowChar(h) \/ SendsImmediate(h) \/ SendsWrite(h)
       THEN uart' = "busy" /\ holdingEmpty' = FALSE
       ELSE uart' = "idle" /\ holdingEmpty' = TRUE
    /\ IF SendsFlowChar(h)
       THEN SendFlowChar(h) /\ UNCHANGED <<slot, irp, announced>>
       ELSE /\ held' = h /\ UNCHANGED flowChar
            /\ IF SendsImmediate(h) \/ SendsWrite(h)
               THEN /\ IF SendsImmediate(h) THEN SendImmediate ELSE SendWrite
                    /\ announced' = FALSE
               ELSE UNCHANGED <<slot, irp, announced>>

ThrInterrupt ==
    /\ uart = "irq"
    /\ IF Work2Do \/ flowChar # "none"
       THEN Transmit(held)
       ELSE /\ uart' = "idle"
            /\ holdingEmpty' = TRUE
            /\ UNCHANGED <<slot, irp, held, flowChar, emptied, announced,
                           stranded>>
    /\ UNCHANGED <<completions, queue, chars, pc>>

\* Every interrupt ends with a look at the line status, which refreshes
\* HoldingEmpty, and restarts a transmission nothing holds; h is TXHolding.
LeaveIsr(h) ==
    /\ IF h = {} /\ uart # "busy" /\ Work2Do
       THEN Transmit({})
       ELSE /\ held' = h
            /\ holdingEmpty' = (uart # "busy")
            /\ UNCHANGED <<slot, irp, uart, flowChar, emptied, announced,
                           stranded>>
    /\ UNCHANGED <<completions, queue, chars, pc>>

\* XON is received.
XonReceived == "xoff" \in held /\ LeaveIsr(held \ {"xoff"})

\* Any other interrupt: a character, a line status or a modem status.
OtherInterrupt == LeaveIsr(held)

\* The UART has shifted everything out and interrupts.
Drain ==
    /\ uart = "busy"
    /\ uart' = "irq"
    /\ UNCHANGED <<irp, completions, queue, slot, chars, held, holdingEmpty,
                   flowChar, emptied, announced, stranded, pc>>

\* XOFF is received or SerialPretendXoff; a modem line drops or a break begins.
Hold(r) ==
    /\ r \notin held
    /\ held' = held \cup {r}
    /\ stranded' = FALSE
    /\ UNCHANGED <<irp, completions, queue, slot, chars, holdingEmpty, uart,
                   flowChar, emptied, announced, pc>>

\* Mutant: nobody wakes the UART.
ReleaseQuietly(r) ==
    /\ r \in held
    /\ held' = held \ {r}
    /\ UNCHANGED <<irp, completions, queue, slot, chars, holdingEmpty, uart,
                   flowChar, emptied, announced, stranded, pc>>

\* SerialPretendXon, SerialTurnOffBreak, SerialHandleModemUpdate: transmission
\* restarts when the last reason to hold it goes.
Release(r) ==
    /\ r \in held
    /\ held' = held \ {r}
    /\ Tickle(held = {r} /\ Work2Do)
    /\ UNCHANGED <<irp, completions, queue, slot, chars, holdingEmpty, flowChar,
                   emptied, announced, pc>>

\* SerialProdXonXoff for the receive side: the last prod counts, and only the
\* first one wakes the UART.
ProdXonXoff(ch) ==
    /\ flowChar' = ch
    /\ Tickle(flowChar = "none")
    /\ UNCHANGED <<irp, completions, queue, slot, chars, held, holdingEmpty,
                   emptied, announced, pc>>

\* Mutant: the hold is dropped without an XON.
DropAutoTransmitQuietly ==
    /\ "xoff" \in held
    /\ held' = held \ {"xoff"}
    /\ UNCHANGED <<irp, completions, queue, slot, chars, holdingEmpty, uart,
                   flowChar, emptied, announced, stranded, pc>>

\* SerialSetupNewHandFlow takes SERIAL_AUTO_TRANSMIT away: the hold goes and an
\* XON is prodded.  When an XON or an XOFF is to be sent already, that prod
\* wakes nobody.
DropAutoTransmit ==
    /\ "xoff" \in held
    /\ held' = held \ {"xoff"}
    /\ flowChar' = "xon"
    /\ Wake(flowChar = "none")
    /\ stranded' = /\ flowChar # "none"
                   /\ held = {"xoff"} /\ Work2Do /\ uart = "idle"
    /\ UNCHANGED <<irp, completions, queue, slot, chars, holdingEmpty, emptied,
                   announced, pc>>

\* SerialPutChar counts a received character for the XOFF counter.
CountSinceXoff ==
    /\ slot["xoff"].owed > 0
    /\ slot' = [slot EXCEPT !["xoff"].owed = @ - 1,
                            !["xoff"].sent = @ \/ slot["xoff"].owed = 1]
    /\ UNCHANGED <<irp, completions, queue, chars, uartVars, pc>>

-----------------------------------------------------------------------------
(* The kernel: a timer expires and queues its DPC; a processor runs a DPC. *)

Expire(s) ==
    /\ slot[s].timer
    /\ slot' = [slot EXCEPT ![s].timer = FALSE, ![s].late = TRUE]
    /\ UNCHANGED <<irp, completions, queue, chars, uartVars, pc>>

\* SerialCompleteWrite, SerialCompleteImmediate, SerialCompleteXoff
CompleteDpc(c, s) ==
    /\ AtPlace(c, "idle")
    /\ slot[s].sent
    /\ TryToCompleteCurrent(c, s, "isr", "success", FALSE, TRUE)

\* SerialWriteTimeout, SerialTimeoutImmediate, SerialTimeoutXoff
TimeoutDpc(c, s) ==
    /\ AtPlace(c, "idle")
    /\ slot[s].late
    /\ TryToCompleteCurrent(c, s, "timer", "timeout", TRUE, s # "xoff")

-----------------------------------------------------------------------------
(* Cancellation: IoCancelIrp and SerialKillAllReadsOrWrites. *)

\* SerialCancelQueued
CancelQueuedIrp(i) ==
    /\ \E n \in DOMAIN queue : queue[n] = i /\ queue' = RemoveAt(queue, n)
    /\ irp[i].routine = "queued"
    /\ chars' = chars - irp[i].length
    /\ Finish(i)
    /\ UNCHANGED <<slot, uartVars, pc>>

\* SerialCancelCurrentWrite, SerialCancelCurrentXoff, SerialCancelImmediate
CancelCurrentIrp(c, s) ==
    /\ AtPlace(c, "idle")
    /\ slot[s].irp # None
    /\ irp[slot[s].irp].routine = s
    /\ TryToCompleteCurrent(c, s, "cancel", "cancelled", TRUE, TRUE)

\* No cancel routine: the flag is left for whoever starts the request.  The
\* kill does it to CurrentWriteIrp even when an XOFF counter it still names
\* was completed meanwhile.
FlagCancel(i) ==
    /\ completions[i] = 0 \/ i = CurrentWrite
    /\ irp[i].routine = "none" /\ ~irp[i].cancel
    /\ irp' = [irp EXCEPT ![i].cancel = TRUE]
    /\ UNCHANGED <<completions, queue, slot, chars, uartVars, pc>>

-----------------------------------------------------------------------------
\* What a context does once it has begun something.
Work(c) == \/ PreemptXoff(c) \/ FinishCancelled(c) \/ GiveWrite(c)
           \/ Account(c) \/ AccountXoff(c) \/ GetNextIrp(c)
           \/ ProcessEmptyTransmit(c)
           \/ FinishImmediateCancelled(c) \/ GiveImmediate(c)
           \/ GetNextImmediate(c)

RunDpc(s) == \E c \in Cpus : CompleteDpc(c, s) \/ TimeoutDpc(c, s)

Next ==
    \/ \E i \in Irps : \/ RefuseAtDispatch(i) \/ QueueAtDispatch(i)
                       \/ CancelledAtDispatch(i)
                       \/ CancelQueuedIrp(i) \/ FlagCancel(i)
    \/ \E c \in Threads : \/ \E i \in Irps : \/ StartAtDispatch(c, i)
                                             \/ ImmediateAtDispatch(c, i)
                          \/ \E s \in Slots : CancelCurrentIrp(c, s)
    \/ \E c \in Contexts : Work(c)
    \/ \E s \in Slots : Expire(s) \/ RunDpc(s)
    \/ ThrInterrupt \/ Drain \/ XonReceived \/ OtherInterrupt \/ CountSinceXoff
    \/ \E r \in HoldReasons : Hold(r) \/ Release(r)
    \/ \E ch \in {"xon", "xoff"} : ProdXonXoff(ch)
    \/ DropAutoTransmit

Spec == Init /\ [][Next]_vars

(***************************************************************************)
(* A context that has begun something goes on with it, a set timer expires,*)
(* a queued DPC runs (DPC queues are FIFO, hence strong fairness), and the *)
(* UART shifts its characters out and has its interrupt served.  Nobody    *)
(* has to submit, cancel, receive characters or release the flow control.  *)
(***************************************************************************)
Fairness == /\ \A c \in Contexts : WF_vars(Work(c))
            /\ \A s \in Slots :
                   /\ WF_vars(Expire(s))
                   /\ SF_vars(\E c \in Cpus : CompleteDpc(c, s))
                   /\ SF_vars(\E c \in Cpus : TimeoutDpc(c, s))
            /\ WF_vars(ThrInterrupt)
            /\ WF_vars(Drain)

FairSpec == Spec /\ Fairness

-----------------------------------------------------------------------------
(* Safety. *)

\* c runs SerialStartWrite or SerialGetNextWrite up to SerialGetNextIrp.
Writing(c) == pc[c] \in {"start", "give", "next", "pop", "keep"}

\* c runs SerialStartImmediate or SerialGetNextImmediate.
Interposing(c) == pc[c] \in {"istart", "inext"}

InHand(s) == \/ s = "write" /\ \E c \in Contexts : Writing(c)
             \/ s = "immediate" /\ \E c \in Contexts : Interposing(c)

\* Two contexts never work on the write queue at the same time, nor on the
\* immediate character, although dispatch, cancel and the DPCs all get there
\* and no lock is held across SerialStartWrite and SerialGetNextWrite.
OneStarter ==
    /\ \A c, d \in Contexts : Writing(c) /\ Writing(d) => c = d
    /\ \A c, d \in Contexts : Interposing(c) /\ Interposing(d) => c = d
    /\ \A c \in Contexts : Writing(c) => CurrentWrite # None
    /\ \A c \in Contexts : Interposing(c) => CurrentImmediate # None

RefsExact(s) ==
    LET isr == slot[s].owed > 0
        refs == irp[slot[s].irp].refs
    IN  /\ ~(isr /\ slot[s].sent) /\ ~(slot[s].timer /\ slot[s].late)
        /\ IF slot[s].irp = None \/ InHand(s)
           THEN ~(isr \/ slot[s].sent \/ slot[s].timer \/ slot[s].late)
           ELSE /\ (isr \/ slot[s].sent) <=> "isr" \in refs
                /\ (slot[s].timer \/ slot[s].late) <=> "timer" \in refs
                /\ irp[slot[s].irp].routine = s <=> "cancel" \in refs
                /\ refs # {}

\* The references of each slot are exact: a bit is set if and only if its
\* holder can still reach the request, in one way only, and a request nobody
\* is starting or completing has a holder, so it cannot be forgotten.
RefsMatchHolders == \A s \in Slots : RefsExact(s)

\* A completed request is completed once and nothing knows it any more: no
\* slot, queue, reference or cancel routine.  The exception is the step
\* between SerialGetNextWrite and SerialGetNextIrp, when an XOFF counter is
\* no longer a write but CurrentWriteIrp still names it.
NoUseAfterCompletion ==
    \A i \in Irps : completions[i] > 0 =>
        /\ completions[i] = 1
        /\ \A s \in Slots : slot[s].irp = i =>
               s = "write" /\ \E c \in Contexts : AtPlace(c, "keep")
        /\ ~Contains(queue, i)
        /\ irp[i].refs = {}
        /\ irp[i].routine = "none"

\* Cancellation is never missed: no request has both its Cancel flag and a
\* cancel routine nobody has called.
CancelNotMissed == \A i \in Irps : ~(irp[i].cancel /\ irp[i].routine # "none")

\* The requests TotalCharsQueued has to count.
Counted(i) ==
    \/ Contains(queue, i)
    \/ i = CurrentImmediate
    \/ i = CurrentWrite /\ \A c \in Contexts : pc[c] \notin {"pop", "keep"}

\* The characters of the requests in S, each as a pair of its own.
Characters(S) == {p \in S \X (1..MaxLen) : p[2] <= irp[p[1]].length}

Charged == Characters({i \in Irps : Counted(i) \/ irp[i].status = "done"})

\* TotalCharsQueued is the number of characters of the requests the driver
\* has, as its ASSERTs demand, and of those that were already cancelled when
\* they came to the queue or to the ISR, which stay counted for good.
CharCountExact == chars = Cardinality(Charged)

\* No lost wake-up: with a character to send and nothing that holds it, the
\* UART is shifting or about to interrupt, whatever order the holds, the
\* gives, the prods and the interrupts came in -- unless the last hold went
\* with SERIAL_AUTO_TRANSMIT while an XON or XOFF was waiting behind it.
TransmitNeverStalls == Work2Do /\ held = {} /\ ~stranded => uart # "idle"

\* What lets a request leave CurrentXoffIrp is the end of its last reference.
\* SerialGetNextWrite asserts that this has happened before it puts the next
\* counter there.
CounterSlotFree ==
    \A c \in Contexts : AtPlace(c, "next") /\ StartsCounting(CurrentWrite) =>
        slot["xoff"].irp = None

\* What a write reports when it is through is what was put on the wire: all
\* of it on success, the part that was sent on a timeout, nothing when it is
\* cancelled.
HonestCount ==
    \A c \in Contexts : AtPlace(c, "next") /\ CurrentWrite \in Writes =>
        LET w == irp[CurrentWrite]
        IN  CASE w.status = "success" -> w.info = w.length /\ w.wire = w.length
              [] w.status = "timeout" -> w.info = w.wire
              [] OTHER -> w.info = 0

\* An XOFF counter ends before the next write goes out: it never counts
\* received characters while that write's are being sent.
CounterYields == slot["xoff"].owed > 0 => slot["write"].owed = 0

\* When the driver has nothing left to send and is through with everything,
\* the end of the last transmission has been announced to a waiter for TXEMPTY.
EmptyNotMissed ==
    /\ CurrentWrite = None /\ CurrentImmediate = None
    /\ \A c \in Contexts : pc[c] # "empty"
    => announced

-----------------------------------------------------------------------------
(***************************************************************************)
(* The inductive invariant SerialWriteProofs rests on.                     *)
(***************************************************************************)

\* The slots hold requests of their kinds.
KindInv ==
    /\ CurrentWrite \in QueueIrps \cup {None}
    /\ slot["xoff"].irp \in XoffCounters \cup {None}
    /\ CurrentImmediate \in Immediates \cup {None}

\* No request waits twice, and none waits for nobody.
QueueInv ==
    /\ IsInjective(queue)
    /\ CurrentWrite = None => queue = <<>>

Unknown(i) == \A s \in Slots : slot[s].irp # i

Untouched(i) == irp[i].refs = {} /\ irp[i].info = 0 /\ irp[i].wire = 0

\* Nobody has a reference to the request or can cancel it.
Loose(i) == irp[i].refs = {} /\ irp[i].routine = "none"

\* Who can know a request, by how far it has come.
RequestOK(i) ==
    /\ completions[i] = IF irp[i].status = "done" THEN 1 ELSE 0
    /\ irp[i].routine = "queued" <=> i \in Range(queue)
    /\ \A s \in Slots : irp[i].routine = s => slot[s].irp = i
    /\ irp[i].refs # {} => ~Unknown(i)
    /\ Fresh(i) => /\ Unknown(i) /\ Untouched(i)
                   /\ irp[i].routine = "none"
                   /\ irp[i].length = 0
    /\ irp[i].routine = "queued" =>
           Unknown(i) /\ Untouched(i) /\ irp[i].status = "pending"
    /\ irp[i].status = "done" =>
           /\ Loose(i)
           /\ \A s \in Slots : slot[s].irp = i =>
                  s = "write" /\ \E c \in Contexts : AtPlace(c, "keep")
    /\ irp[i].status \notin {"new", "done"} => irp[i].length \in Lengths(i)

RequestInv == \A i \in Irps : RequestOK(i)

\* The write that is being started or completed.
WriterOK(c) ==
    LET i == CurrentWrite
    IN  /\ i # None
        /\ irp[i].routine # "write"
        /\ pc[c] # "keep" => Loose(i) /\ i # slot["xoff"].irp
        /\ pc[c] \in {"start", "give"} =>
               i \notin Flushes /\ irp[i].status = "pending" /\ Untouched(i)
        /\ AtPlace(c, "give") => slot["xoff"].owed = 0
        /\ AtPlace(c, "next") =>
               /\ i \notin Flushes
               /\ irp[i].status \in {"success", "timeout", "cancelled"}
        /\ AtPlace(c, "pop") => irp[i].status \notin {"new", "done"}
        /\ AtPlace(c, "keep") =>
               \/ i = slot["xoff"].irp
               \/ i \in XoffCounters /\ irp[i].status = "done"
               \/ i \in Flushes /\ Loose(i) /\ irp[i].status = "pending"

WriterInv ==
    /\ \A c, d \in Contexts : Writing(c) /\ Writing(d) => c = d
    /\ \A c \in Contexts : Writing(c) => WriterOK(c)

\* The immediate character that is being started or completed.
InterposerOK(c) ==
    LET i == CurrentImmediate
    IN  /\ i # None
        /\ Loose(i)
        /\ irp[i].status \notin {"new", "done"}
        /\ AtPlace(c, "istart") => irp[i].status = "pending"

InterposerInv ==
    /\ \A c, d \in Contexts : Interposing(c) /\ Interposing(d) => c = d
    /\ \A c \in Contexts : Interposing(c) => InterposerOK(c)

\* A request in the hands of the ISR, a timer and its cancel routine is not
\* through; the character of an XOFF counter is.
HeldOK(s) ==
    slot[s].irp # None /\ ~InHand(s) =>
        irp[slot[s].irp].status = IF s = "xoff" THEN "success" ELSE "pending"

HeldInv == \A s \in Slots : HeldOK(s)

\* The characters of the current write are to be sent or were sent, and its
\* information is set as soon as the ISR gives it up.
SentInv ==
    CurrentWrite # None /\ ~InHand("write") =>
        LET w == irp[CurrentWrite]
            owed == slot["write"].owed
        IN  /\ CurrentWrite \notin Flushes
            /\ owed > 0 => w.wire + owed = w.length /\ w.info = 0
            /\ owed = 0 /\ CurrentWrite \in Writes =>
                   w.info = w.wire /\ ("isr" \in w.refs => w.wire = w.length)

\* An idle UART is known to be empty, and what was transmitted is remembered.
UartInv == /\ uart = "idle" => holdingEmpty
           /\ announced \/ emptied

\* Nothing is lost when an immediate character is cancelled before it starts.
EmptyInv ==
    /\ CurrentWrite = None
    /\ CurrentImmediate = None \/ \E c \in Contexts : AtPlace(c, "istart")
    /\ \A c \in Contexts : pc[c] # "empty"
    => announced

\* Only finitely many characters can be counted.
CountInv == IsFiniteSet(Charged) /\ CharCountExact

IInv == /\ TypeOK
        /\ KindInv
        /\ QueueInv
        /\ RequestInv
        /\ WriterInv
        /\ InterposerInv
        /\ HeldInv
        /\ RefsMatchHolders
        /\ SentInv
        /\ HonestCount
        /\ CounterYields
        /\ CancelNotMissed
        /\ UartInv
        /\ TransmitNeverStalls
        /\ EmptyInv
        /\ CountInv

-----------------------------------------------------------------------------
\* Seen from the write queue a request is done with when it leaves it: an XOFF
\* counter then goes on counting elsewhere.
Left(i) == /\ i # CurrentWrite
           /\ ~Contains(queue, i)
           /\ ~Fresh(i)

WriteQueue == INSTANCE IrpQueue WITH
    Irps <- QueueIrps,
    active <- CurrentWrite,
    waiting <- queue,
    completions <- [i \in QueueIrps |-> IF Left(i) THEN 1 ELSE 0]

\* Writes, flushes and XOFF counters leave the write queue once, in the order
\* in which they came: SerialWrite keeps the promises of IrpQueue.
ImplementsIrpQueue == WriteQueue!Spec

-----------------------------------------------------------------------------
(* Liveness, under FairSpec. *)

Completed(i) == completions[i] > 0

\* If flow control is quiet for good -- nothing holds the transmitter and no XON
\* or XOFF is to be sent -- every write and immediate character the driver
\* accepted completes.
WriteCompletes ==
    <>[](held = {} /\ flowChar = "none") =>
        \A i \in Writes \cup Immediates : ~Fresh(i) ~> Completed(i)

\* A request that is cancelled once it was dispatched completes, wherever it
\* is, flow control or not.
CancelCompletes ==
    \A i \in Irps \ Flushes : (irp[i].cancel /\ ~Fresh(i)) ~> Completed(i)

\* The slots in which a request can have a timer.
TimedSlots(i) == CASE i \in Writes -> {"write"}
                   [] i \in XoffCounters -> {"write", "xoff"}
                   [] i \in Immediates -> {"immediate"}
                   [] i \in Flushes -> {}

\* A slot gives up a request whose timer was set there, flow control or not:
\* a late write or immediate character completes, and so does a late counter.
TimeoutCompletes ==
    \A i \in Irps : \A s \in TimedSlots(i) :
        (slot[s].irp = i /\ slot[s].timer) ~> slot[s].irp # i

\* Neither a cancel nor a timeout is lost, in whichever slot it finds the
\* request.
AbortCompletes == CancelCompletes /\ TimeoutCompletes

-----------------------------------------------------------------------------
(* Promises the code does not keep; see the README. *)

\* "We assume that if the prodding is called more than once that the last prod
\* has set things up appropriately" (modmflow.c): a hold that is dropped with
\* an XON never leaves the UART asleep with a character to send.
LastProdWakes == Work2Do /\ held = {} => uart # "idle"

\* "When this request reaches the front of the write queue we simply complete
\* it" (flush.c): a flush is never taken from the queue without being completed.
FlushNotLost == \A i \in Flushes : Left(i) => completions[i] = 1
=============================================================================
