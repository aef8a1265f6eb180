----------------------------- MODULE SerialFlow -----------------------------
(***************************************************************************)
(* The flow control of one serial port, from its opening to its closing:   *)
(* serial/serial/modmflow.c, and what isr.c, write.c, read.c and           *)
(* openclos.c do to the lines and to the reasons to hold.                  *)
(*                                                                         *)
(* Reception is held (RXHolding) by lowering RTS or by sending XOFF when   *)
(* the typeahead buffer fills, and let go when it empties.  Transmission   *)
(* is held (TXHolding) by XOFF, by CTS or by a break.  In transmit toggle  *)
(* mode RTS is up only while something is sent: a character may still be   *)
(* in the shift register, so the driver polls, with StartTimerLowerRTSDpc, *)
(* LowerRTSTimer and PerhapsLowerRTSDpc one after the other, and counts in *)
(* CountOfTryingToLowerRTS how many such attempts are under way.           *)
(*                                                                         *)
(* One step is one routine at device level, one DPC, or one step of        *)
(* SerialClose.  DTR handshaking is RTS handshaking with another line, DSR *)
(* and DCD hold transmission as CTS does, an immediate character is sent   *)
(* as the character of a write: one of each is modelled.                   *)
(***************************************************************************)
EXTENDS Naturals

CONSTANTS
    HandFlows,      \* the settings the application uses
    BufferSize,     \* size of the typeahead buffer
    XoffLimit,      \* hold reception when no more than this is free
    XonLimit        \* let it go when no more than this is taken

\* SERIAL_HANDFLOW without the limits: the RTS mode, and whether
\* SERIAL_AUTO_RECEIVE, SERIAL_AUTO_TRANSMIT, SERIAL_XOFF_CONTINUE and
\* SERIAL_CTS_HANDSHAKE are set.
HandFlowType == [rts: {"disable", "control", "handshake", "toggle"},
                 autoReceive: BOOLEAN, autoTransmit: BOOLEAN,
                 xoffContinue: BOOLEAN, cts: BOOLEAN]

\* The limits are those of an open, an eighth and a half of the size.  The
\* application may set others, which SerialIoControl only checks for being
\* within the size.
ASSUME SerialFlowAssumption ==
    /\ HandFlows \subseteq HandFlowType
    /\ BufferSize \in Nat /\ XoffLimit \in Nat /\ XonLimit \in Nat
    /\ XonLimit + XoffLimit < BufferSize

VARIABLES
    handFlow,       \* HandFlow
    chars,          \* CharsInInterruptBuffer
    rxHolding,      \* RXHolding
    toSend,         \* SendXonChar, SendXoffChar
    peer,           \* what the other side was last sent, XON or XOFF
    txHolding,      \* TXHolding
    write,          \* CurrentWriteIrp: "current" before the ISR has it,
                    \* "sending" while WriteLength is not zero, then "sent"
    thr,            \* transmit holding register: "full", empty and about to
                    \* interrupt ("irq"), or "idle"
    shift,          \* the shift register holds a character
    rts,            \* the RTS line
    tries,          \* CountOfTryingToLowerRTS
    startDpc,       \* StartTimerLowerRTSDpc is queued
    timer,          \* LowerRTSTimer is set
    perhapsDpc,     \* PerhapsLowerRTSDpc is queued
    phase           \* where the port is between open and closed

receiveVars == <<chars, rxHolding, peer>>
transmitVars == <<txHolding, write, shift>>
pollVars == <<tries, startDpc, timer, perhapsDpc>>
vars == <<handFlow, receiveVars, toSend, transmitVars, thr, rts, pollVars, phase>>

TypeOK ==
    /\ handFlow \in HandFlows
    /\ chars \in 0..BufferSize
    /\ rxHolding \subseteq {"rts", "xoff"}
    /\ toSend \in {"none", "xon", "xoff"}
    /\ peer \in {"xon", "xoff"}
    /\ txHolding \subseteq {"xoff", "cts", "break"}
    /\ write \in {"none", "current", "sending", "sent"}
    /\ thr \in {"full", "irq", "idle"}
    /\ shift \in BOOLEAN
    /\ rts \in BOOLEAN
    /\ tries \in Nat
    /\ startDpc \in BOOLEAN
    /\ timer \in BOOLEAN
    /\ perhapsDpc \in BOOLEAN
    /\ phase \in {"open", "draining", "waiting", "closed"}

IsOpen == phase = "open"
Toggling == handFlow.rts = "toggle"

\* SERIAL_LSR_THRE and SERIAL_LSR_TEMT are not both set.
HardwareBusy == thr = "full" \/ shift

\* r, if it is used.
Reason(r, used) == IF used THEN {r} ELSE {}

\* The fill level n is one at which reception is held.
TooFull(n) == BufferSize - XoffLimit <= n

\* SerialMarkOpen: SerialSetupNewHandFlow with everything changed, and
\* SerialHandleModemUpdate, which reads CTS.
Init ==
    /\ handFlow \in HandFlows
    /\ chars = 0
    /\ rxHolding = {}
    /\ toSend = "none"
    /\ peer = "xon"
    /\ txHolding \in {{}, Reason("cts", handFlow.cts)}
    /\ write = "none"
    /\ thr = "idle"
    /\ shift = FALSE
    /\ rts \in BOOLEAN
    /\ rts <=> handFlow.rts \in {"control", "handshake"}
    /\ tries = 0
    /\ startDpc = FALSE
    /\ timer = FALSE
    /\ perhapsDpc = FALSE
    /\ phase = "open"

-----------------------------------------------------------------------------
(* Helpers shared by the actions. *)

\* What thr becomes when interrupts are disabled and enabled if tickled: the
\* UART interrupts whenever its holding register is empty.
Tickled(tickled) == IF tickled /\ thr # "full" THEN "irq" ELSE thr

\* SerialProdXonXoff: a character that waits already is replaced, and nobody is
\* woken for it.
Prod(c) ==
    /\ toSend' = c
    /\ thr' = Tickled(toSend = "none")

\* SerialInsertQueueDpc of StartTimerLowerRTSDpc, counted if it is inserted,
\* after the count was changed to n.
InsertStartDpc(n) ==
    /\ startDpc' = TRUE
    /\ tries' = IF startDpc THEN n ELSE n + 1

\* The same where it is done in toggle mode only.
InsertIfToggling ==
    IF Toggling THEN InsertStartDpc(tries) ELSE UNCHANGED <<startDpc, tries>>

\* Mutant: the shift register is forgotten.
PerhapsLowerRTSEarly(w, h, n) ==
    IF Toggling /\ "break" \notin h /\ w = "none" /\ thr # "full"
    THEN rts' = FALSE /\ tries' = n /\ UNCHANGED startDpc
    ELSE tries' = n /\ UNCHANGED <<rts, startDpc>>

\* SerialPerhapsLowerRTS with write w and reasons h to hold; n is the count once
\* the attempt that calls it is over.  A break or a write keeps RTS up.
PerhapsLowerRTS(w, h, n) ==
    IF Toggling /\ "break" \notin h /\ w = "none"
    THEN IF HardwareBusy
         THEN InsertStartDpc(n) /\ UNCHANGED rts
         ELSE rts' = FALSE /\ tries' = n /\ UNCHANGED startDpc
    ELSE tries' = n /\ UNCHANGED <<rts, startDpc>>

-----------------------------------------------------------------------------
(* Reception. *)

\* SerialPutChar into the typeahead buffer.  A character more than it can hold
\* is lost; nobody relies on the other side to stop.
PutChar ==
    LET line == TooFull(chars + 1) /\ handFlow.rts = "handshake"
        xoff == /\ TooFull(chars + 1) /\ handFlow.autoReceive
                /\ "xoff" \notin rxHolding
    IN  /\ IsOpen
        /\ rxHolding' = rxHolding \cup Reason("rts", line) \cup Reason("xoff", xoff)
        /\ rts' = (rts /\ ~line)
        /\ IF xoff THEN Prod("xoff") ELSE UNCHANGED <<toSend, thr>>
        /\ chars' = IF chars < BufferSize THEN chars + 1 ELSE chars
        /\ UNCHANGED <<handFlow, peer, transmitVars, pollVars, phase>>

\* SerialHandleReducedIntBuffer, with n characters left.
Reduced(n) ==
    /\ chars' = n
    /\ rxHolding' = IF n <= XonLimit THEN rxHolding \ {"rts"} ELSE rxHolding
    /\ rts' = (rts \/ (n <= XonLimit /\ "rts" \in rxHolding))
    /\ IF n <= XonLimit /\ "xoff" \in rxHolding
       THEN Prod("xon")
       ELSE UNCHANGED <<toSend, thr>>
    /\ UNCHANGED <<handFlow, peer, transmitVars, pollVars, phase>>

\* Mutant: only a read that empties the buffer looks at the flow control.
ReduceQuietly(n) ==
    /\ IsOpen /\ n < chars
    /\ IF n = 0
       THEN Reduced(n)
       ELSE /\ chars' = n
            /\ UNCHANGED <<handFlow, rxHolding, peer, toSend, transmitVars, thr,
                           rts, pollVars, phase>>

\* A read takes characters out of the buffer, or a purge takes all.
Reduce(n) == IsOpen /\ n < chars /\ Reduced(n)

-----------------------------------------------------------------------------
(* Transmission: the THR interrupt. *)

\* A character is put into the holding register.
Send ==
    /\ thr' = "full"
    /\ rts' = (rts \/ Toggling)

\* An XON overrides an XOFF that holds transmission, and ends the holding of
\* reception.
SendXon ==
    /\ toSend = "xon" /\ txHolding \subseteq {"xoff"}
    /\ Send /\ InsertIfToggling
    /\ toSend' = "none"
    /\ peer' = "xon"
    /\ txHolding' = {}
    /\ rxHolding' = rxHolding \ {"xoff"}
    /\ UNCHANGED <<chars, write>>

\* An XOFF holds the own transmission too, unless it may go on.
SendXoff ==
    /\ toSend = "xoff" /\ txHolding = {}
    /\ Send /\ InsertIfToggling
    /\ toSend' = "none"
    /\ peer' = "xoff"
    /\ txHolding' = Reason("xoff", ~handFlow.xoffContinue)
    /\ UNCHANGED <<chars, rxHolding, write>>

\* The next character of the write, maybe its last.
SendWrite ==
    /\ toSend = "none" /\ write = "sending" /\ txHolding = {}
    /\ Send /\ InsertIfToggling
    /\ write' \in {"sending", "sent"}
    /\ UNCHANGED <<receiveVars, toSend, txHolding>>

\* There is nothing to send, or nothing may be sent.
SendNothing ==
    /\ ~(toSend = "xon" /\ txHolding \subseteq {"xoff"})
    /\ ~((toSend = "xoff" \/ write = "sending") /\ txHolding = {})
    /\ thr' = "idle"
    /\ UNCHANGED <<receiveVars, toSend, txHolding, write, rts, startDpc, tries>>

ThrInterrupt ==
    /\ IsOpen /\ thr = "irq"
    /\ SendXon \/ SendXoff \/ SendWrite \/ SendNothing
    /\ UNCHANGED <<handFlow, shift, timer, perhapsDpc, phase>>

\* The UART moves the character on, and has sent it.
Shift ==
    /\ thr = "full" /\ ~shift
    /\ thr' = "irq"
    /\ shift' = TRUE
    /\ UNCHANGED <<handFlow, receiveVars, toSend, txHolding, write, rts, pollVars,
                   phase>>

ShiftOut ==
    /\ shift
    /\ shift' = FALSE
    /\ UNCHANGED <<handFlow, receiveVars, toSend, txHolding, write, thr, rts,
                   pollVars, phase>>

-----------------------------------------------------------------------------
(* Reasons to hold transmission. *)

\* An XOFF is received, or SerialPretendXoff.
Xoff ==
    /\ IsOpen
    /\ txHolding' = txHolding \cup {"xoff"}
    /\ InsertIfToggling
    /\ UNCHANGED <<handFlow, receiveVars, toSend, write, shift, thr, rts, timer,
                   perhapsDpc, phase>>

\* A reason goes, and a write that may go on is woken.
LetGo(reason) ==
    /\ txHolding' = txHolding \ {reason}
    /\ thr' = Tickled(txHolding = {reason} /\ write = "sending")

\* An XON is received, or SerialPretendXon.
Xon ==
    /\ IsOpen /\ "xoff" \in txHolding
    /\ LetGo("xoff")
    /\ UNCHANGED <<handFlow, receiveVars, toSend, write, shift, rts, pollVars, phase>>

\* SerialHandleModemUpdate when CTS has changed.
CtsDrops ==
    /\ IsOpen /\ handFlow.cts /\ "cts" \notin txHolding
    /\ txHolding' = txHolding \cup {"cts"}
    /\ IF txHolding = {} THEN InsertIfToggling ELSE UNCHANGED <<startDpc, tries>>
    /\ UNCHANGED <<handFlow, receiveVars, toSend, write, shift, thr, rts, timer,
                   perhapsDpc, phase>>

CtsRises ==
    /\ IsOpen /\ handFlow.cts /\ "cts" \in txHolding
    /\ LetGo("cts")
    /\ UNCHANGED <<handFlow, receiveVars, toSend, write, shift, rts, pollVars, phase>>

\* SerialTurnOnBreak
TurnOnBreak ==
    /\ IsOpen
    /\ txHolding' = txHolding \cup {"break"}
    /\ rts' = (rts \/ Toggling)
    /\ UNCHANGED <<handFlow, receiveVars, toSend, write, shift, thr, pollVars, phase>>

\* SerialTurnOffBreak when there is one.  If no write is woken, the attempt it
\* makes to lower RTS is counted up and down.
BreakOff ==
    /\ LetGo("break")
    /\ IF txHolding = {"break"} /\ write = "sending" /\ thr # "full"
       THEN UNCHANGED <<rts, startDpc, tries>>
       ELSE PerhapsLowerRTS(write, txHolding', tries)

TurnOffBreak ==
    /\ IsOpen /\ "break" \in txHolding
    /\ BreakOff
    /\ UNCHANGED <<handFlow, receiveVars, toSend, write, shift, timer, perhapsDpc,
                   phase>>

-----------------------------------------------------------------------------
(* The write, as far as RTS sees it. *)

\* SerialStartOrQueue makes it the current write.
StartWrite ==
    /\ IsOpen /\ write = "none"
    /\ write' = "current"
    /\ UNCHANGED <<handFlow, receiveVars, toSend, txHolding, shift, thr, rts,
                   pollVars, phase>>

\* SerialGiveWriteToIsr
GiveWrite ==
    /\ IsOpen /\ write = "current"
    /\ write' = "sending"
    /\ thr' = Tickled(TRUE)
    /\ rts' = (rts \/ Toggling)
    /\ UNCHANGED <<handFlow, receiveVars, toSend, txHolding, shift, pollVars, phase>>

\* It ends, sent or not, and another takes its place.
NextWrite ==
    /\ IsOpen /\ write # "none"
    /\ write' = "current"
    /\ UNCHANGED <<handFlow, receiveVars, toSend, txHolding, shift, thr, rts,
                   pollVars, phase>>

\* It ends and there is no other.  SerialProcessEmptyTransmit tries to lower RTS
\* only when somebody waits for SERIAL_EV_TXEMPTY and something was sent.
LastWrite(awaited) ==
    /\ IsOpen /\ write # "none"
    /\ write' = "none"
    /\ IF awaited
       THEN PerhapsLowerRTS("none", txHolding, tries)
       ELSE UNCHANGED <<rts, startDpc, tries>>
    /\ UNCHANGED <<handFlow, receiveVars, toSend, txHolding, shift, thr, timer,
                   perhapsDpc, phase>>

-----------------------------------------------------------------------------
(* The attempts to lower RTS. *)

\* Mutant: the attempt whose timer is set anew stays counted.
StartTimerKeepingCount ==
    /\ startDpc
    /\ startDpc' = FALSE
    /\ timer' = TRUE
    /\ UNCHANGED <<handFlow, receiveVars, toSend, transmitVars, thr, rts, tries,
                   perhapsDpc, phase>>

\* SerialStartTimerLowerRTS: an attempt that finds the timer set takes over from
\* the one that set it.
StartTimerLowerRTS ==
    /\ startDpc
    /\ startDpc' = FALSE
    /\ timer' = TRUE
    /\ tries' = IF timer THEN tries - 1 ELSE tries
    /\ UNCHANGED <<handFlow, receiveVars, toSend, transmitVars, thr, rts,
                   perhapsDpc, phase>>

\* The kernel expires a timer after it has run the DPCs of earlier expirations.
Expire ==
    /\ timer /\ ~perhapsDpc
    /\ timer' = FALSE
    /\ perhapsDpc' = TRUE
    /\ UNCHANGED <<handFlow, receiveVars, toSend, transmitVars, thr, rts, tries,
                   startDpc, phase>>

\* SerialInvokePerhapsLowerRTS
InvokePerhapsLowerRTS ==
    /\ perhapsDpc
    /\ perhapsDpc' = FALSE
    /\ PerhapsLowerRTS(write, txHolding, tries - 1)
    /\ UNCHANGED <<handFlow, receiveVars, toSend, transmitVars, thr, timer, phase>>

-----------------------------------------------------------------------------
(* The application changes the settings or the line. *)

\* SerialSetupNewHandFlow as far as RTS goes; h is the new setting.  For toggle
\* mode RTS stays up with a break, a write or something in the hardware.
SetupRts(h) ==
    IF h.rts = handFlow.rts
    THEN UNCHANGED rts
    ELSE rts' = CASE h.rts = "handshake" -> ~TooFull(chars)
                  [] h.rts = "control"   -> TRUE
                  [] h.rts = "disable"   -> FALSE
                  [] h.rts = "toggle"    -> \/ "break" \in txHolding
                                            \/ HardwareBusy
                                            \/ write # "none"

\* What automatic reception and automatic transmission want sent: XOFF if the
\* buffer is too full when the former is turned on, XON if an XOFF still holds
\* something when either is turned off.
XonXoffFor(h) ==
    CASE \/ /\ handFlow.autoReceive /\ ~h.autoReceive
            /\ "xoff" \in rxHolding
         \/ /\ handFlow.autoTransmit /\ ~h.autoTransmit
            /\ "xoff" \in txHolding                                -> "xon"
      [] OTHER -> IF h.autoReceive /\ ~handFlow.autoReceive /\ TooFull(chars)
                  THEN "xoff" ELSE toSend

\* Why reception is held with the new setting h: what has held it, if it is still
\* used for that, and what is used for it from now on, if the buffer is too full.
RxHoldingFor(h) ==
    LET used(s) == Reason("rts", s.rts = "handshake") \cup Reason("xoff", s.autoReceive)
        begun == IF TooFull(chars) THEN used(h) \ used(handFlow) ELSE {}
    IN  (rxHolding \cap used(h)) \cup begun

\* SerialSetHandFlow.  SerialSetupNewHandFlow leaves the reasons in old to hold
\* transmission, and SerialHandleModemUpdate then reads CTS: it wakes a write
\* that nothing holds any more, and sees to RTS when one begins to be held.
SetHandFlow(h) ==
    LET old == IF handFlow.autoTransmit /\ ~h.autoTransmit
               THEN txHolding \ {"xoff"} ELSE txHolding
    IN  /\ IsOpen /\ h # handFlow
        /\ handFlow' = h
        /\ SetupRts(h)
        /\ rxHolding' = RxHoldingFor(h)
        /\ toSend' = XonXoffFor(h)
        /\ txHolding' \in IF h.cts THEN {old \ {"cts"}, old \cup {"cts"}}
                         ELSE {old \ {"cts"}}
        /\ thr' = Tickled(\/ toSend = "none" /\ toSend' # "none"
                          \/ old # {} /\ txHolding' = {} /\ write = "sending")
        /\ IF h.rts = "toggle" /\ old = {} /\ txHolding' # {}
           THEN InsertStartDpc(tries)
           ELSE UNCHANGED <<startDpc, tries>>
        /\ UNCHANGED <<chars, peer, write, shift, timer, perhapsDpc, phase>>

\* IOCTL_SERIAL_SET_RTS and IOCTL_SERIAL_CLR_RTS
SetRts(up) ==
    /\ IsOpen /\ handFlow.rts \in {"disable", "control"}
    /\ rts' = up
    /\ UNCHANGED <<handFlow, receiveVars, toSend, transmitVars, thr, pollVars, phase>>

-----------------------------------------------------------------------------
(* SerialClose.  The ISR sends and stores nothing any more; no request is left. *)

BeginClose ==
    /\ IsOpen /\ write = "none"
    /\ phase' = "draining"
    /\ IF "break" \in txHolding THEN BreakOff
       ELSE UNCHANGED <<txHolding, thr, rts, startDpc, tries>>
    /\ UNCHANGED <<handFlow, receiveVars, toSend, write, shift, timer, perhapsDpc>>

\* The hardware is empty, and interrupts are of no importance.  If reception is
\* held by XOFF an XON is written, and the hardware has to become empty again.
DrainClose ==
    /\ phase = "draining" /\ ~HardwareBusy
    /\ IF "xoff" \in rxHolding
       THEN /\ thr' = "full"
            /\ peer' = "xon"
            /\ rxHolding' = rxHolding \ {"xoff"}
            /\ UNCHANGED phase
       ELSE /\ phase' = "waiting"
            /\ UNCHANGED <<thr, peer, rxHolding>>
    /\ UNCHANGED <<handFlow, chars, toSend, transmitVars, rts, pollVars>>

\* Nobody tries to lower RTS any more, so it is lowered.
EndClose ==
    /\ phase = "waiting" /\ tries = 0
    /\ phase' = "closed"
    /\ rts' = FALSE
    /\ rxHolding' = {}
    /\ txHolding' = {}
    /\ UNCHANGED <<handFlow, chars, toSend, peer, write, thr, shift, pollVars>>

-----------------------------------------------------------------------------
Next ==
    \/ PutChar \/ \E n \in 0..BufferSize : Reduce(n)
    \/ ThrInterrupt \/ Shift \/ ShiftOut
    \/ Xoff \/ Xon \/ CtsDrops \/ CtsRises \/ TurnOnBreak \/ TurnOffBreak
    \/ StartWrite \/ GiveWrite \/ NextWrite
    \/ \E awaited \in BOOLEAN : LastWrite(awaited)
    \/ StartTimerLowerRTS \/ Expire \/ InvokePerhapsLowerRTS
    \/ \E h \in HandFlows : SetHandFlow(h)
    \/ \E up \in BOOLEAN : SetRts(up)
    \/ BeginClose \/ DrainClose \/ EndClose

Spec == Init /\ [][Next]_vars

\* The UART sends what it holds, DPCs run, the timer expires, and the thread that
\* closes the port goes on.
Fairness == /\ WF_vars(Shift) /\ WF_vars(ShiftOut)
            /\ WF_vars(StartTimerLowerRTS)
            /\ WF_vars(Expire)
            /\ WF_vars(InvokePerhapsLowerRTS)
            /\ WF_vars(DrainClose)
            /\ WF_vars(EndClose)

FairSpec == Spec /\ Fairness

-----------------------------------------------------------------------------
(* Properties. *)

\* Part of the inductive invariant of SerialFlowProofs: only a setting that asks
\* for it holds reception, and an XOFF is to be sent only while it does.
HoldsBelong ==
    IsOpen => /\ "rts" \in rxHolding => handFlow.rts = "handshake"
              /\ "xoff" \in rxHolding => handFlow.autoReceive
              /\ toSend = "xoff" => "xoff" \in rxHolding

\* The count of attempts to lower RTS is the number of those under way, so that
\* a close that finds it zero knows that no DPC or timer will use the port any
\* more, and is not left waiting by an attempt that ended uncounted.
AttemptsExact ==
    LET one(underWay) == IF underWay THEN 1 ELSE 0
    IN  tries = one(startDpc) + one(timer) + one(perhapsDpc)

\* In transmit toggle mode RTS is up while a character is anywhere in the UART or
\* a break is sent, whichever attempts to lower it are under way, and although
\* the modes may have been changed with characters on their way out.
RtsUpWhileSending ==
    IsOpen /\ Toggling /\ (HardwareBusy \/ "break" \in txHolding) => rts

\* Reception is held by RTS when the buffer is too full and only while it has
\* not emptied to the XonLimit, and RTS shows it.  Whatever has made the other
\* side stop sending is remembered until it is undone: reception is held by XOFF
\* only with a buffer above the limit or an XON to be sent, and the other side
\* has seen an XOFF only if reception is still held by it or an XON is to be sent.
HoldsMatchBuffer ==
    IsOpen =>
        /\ handFlow.rts = "handshake" => /\ rts <=> "rts" \notin rxHolding
                                         /\ TooFull(chars) => "rts" \in rxHolding
        /\ "rts" \in rxHolding => chars > XonLimit
        /\ "xoff" \in rxHolding => chars > XonLimit \/ toSend = "xon"
        /\ peer = "xoff" => "xoff" \in rxHolding \/ toSend = "xon"

\* A close comes to its end: the attempts to lower RTS that it waits for all end,
\* none begins another for ever, and the count they leave behind is zero.
CloseCompletes == phase = "draining" ~> phase = "closed"
=============================================================================
