----------------------------- MODULE SerialRing -----------------------------
(***************************************************************************)
(* The typeahead ("interrupt") buffer of a serial port: the part of        *)
(* serial/serial/isr.c, read.c and purge.c that moves characters.          *)
(*                                                                         *)
(* The interrupt service routine stores characters in a ring while a read  *)
(* copies them out, a resize moves them to a larger ring and a purge drops *)
(* them.  A read takes what is there in two copies, the second with the    *)
(* ISR kept out, and if it still needs more the ISR stores into the user   *)
(* buffer instead.  SerialRead shows that one read at a time does this, so *)
(* here one reader meets the ISR.                                          *)
(***************************************************************************)
EXTENDS Integers, Sequences

CONSTANTS
    Chars,          \* what the line can carry
    ErrorChar,      \* SpecialChars.ErrorChar
    Blank,          \* memory nobody has written
    FirstSize,      \* BufferSize when the port is opened
    MaxSize,        \* bound on the size a resize asks for
    MaxLen          \* bound on the length of a read

ASSUME SerialRingAssumption ==
    /\ FirstSize \in Nat \ {0} /\ MaxSize \in Nat /\ FirstSize <= MaxSize
    /\ MaxLen \in Nat \ {0}

VARIABLES
    ring,       \* InterruptReadBuffer, BufferSize slots
    size,       \* BufferSize
    first,      \* FirstReadableChar, an offset in the ring
    base,       \* ReadBufferBase: "ring" or "user"
    slot,       \* CurrentCharSlot, an offset in the buffer base names
    last,       \* LastCharSlot, likewise
    count,      \* CharsInInterruptBuffer
    user,       \* SystemBuffer of the current read
    length,     \* Parameters.Read.Length
    info,       \* IoStatus.Information
    needed,     \* NumberNeededForRead
    mode,       \* what the read's timeouts let it return with
    place,      \* "idle", "copied" (a read) or "moved" (a resize)
    copied,     \* updateChar.CharsCopied or rp.NumberMoved
    newRing,    \* the buffer of a resize
    skewed      \* history: since the ring was last empty a read was cancelled
                \* with characters copied and not accounted for

ringVars == <<ring, size, first, base, slot, last, count>>
readVars == <<user, length, info, needed, mode>>
stepVars == <<place, copied, newRing>>
vars == <<ringVars, readVars, stepVars, skewed>>

Values == Chars \cup {ErrorChar, Blank}
Buffer(n) == [0..n - 1 -> Values]
NewBuffer(n) == [k \in 0..n - 1 |-> Blank]

\* wait for all, returnWithWhatsPresent, os2ssreturn, crunchDownToOne
ReadModes == {"wait", "present", "any", "one"}

TypeOK ==
    /\ size \in FirstSize..MaxSize
    /\ ring \in Buffer(size)
    /\ base \in {"ring", "user"}
    /\ first \in 0..size - 1 /\ slot \in Nat /\ last \in Nat
    /\ count \in 0..size
    /\ user \in Buffer(MaxLen)
    /\ length \in 0..MaxLen /\ info \in 0..MaxLen /\ needed \in 0..MaxLen
    /\ mode \in ReadModes
    /\ place \in {"idle", "copied", "moved"}
    /\ copied \in 0..count
    /\ newRing = <<>> \/ \E n \in size + 1..MaxSize : newRing \in Buffer(n)
    /\ skewed \in BOOLEAN

Init ==
    /\ size = FirstSize
    /\ ring = NewBuffer(FirstSize)
    /\ base = "ring"
    /\ first = 0 /\ slot = 0 /\ last = FirstSize - 1
    /\ count = 0
    /\ user = NewBuffer(MaxLen)
    /\ length = 0 /\ info = 0 /\ needed = 0
    /\ mode = "wait"
    /\ place = "idle" /\ copied = 0 /\ newRing = <<>> /\ skewed = FALSE

-----------------------------------------------------------------------------
(* Helpers. *)

Lesser(a, b) == IF a < b THEN a ELSE b

\* The k-th readable character; the two RtlMoveMemory calls of a copy are one
\* copy around the end of the ring.
Readable(k) == ring[(first + k) % size]

Advance(n) == first' = (first + n) % size

\* buffer with n readable characters put at an offset.
Filled(buffer, offset, n) ==
    [k \in DOMAIN buffer |-> IF k \in offset..offset + n - 1
                             THEN Readable(k - offset)
                             ELSE buffer[k]]

\* SerialPutChar, SerialGrabReadFromIsr and SerialPurgeInterruptBuff all go
\* back to an empty ring the same way.
EmptyRing ==
    /\ base' = "ring"
    /\ first' = 0 /\ slot' = 0 /\ last' = size - 1
    /\ count' = 0 /\ skewed' = FALSE

-----------------------------------------------------------------------------
(* SerialPutChar, at any time. *)

\* Mutant: one character too many is stored.
PutCharPastUserBuffer(ch) ==
    /\ base = "user"
    /\ user' = [user EXCEPT ![slot] = ch]
    /\ \/ /\ slot = last + 1
          /\ EmptyRing
          /\ info' = length
       \/ /\ slot # last + 1
          /\ slot' = slot + 1
          /\ UNCHANGED <<first, base, last, count, info, skewed>>
    /\ UNCHANGED <<ring, size, length, needed, mode, stepVars>>

PutCharInUserBuffer(ch) ==
    /\ base = "user"
    /\ user' = [user EXCEPT ![slot] = ch]
    /\ \/ /\ slot = last
          /\ EmptyRing
          /\ info' = length
       \/ /\ slot # last
          /\ slot' = slot + 1
          /\ UNCHANGED <<first, base, last, count, info, skewed>>
    /\ UNCHANGED <<ring, size, length, needed, mode, stepVars>>

PutCharInRing(ch) ==
    /\ base = "ring"
    /\ count < size
    /\ ring' = [ring EXCEPT ![slot] = ch]
    /\ count' = count + 1
    /\ slot' = IF slot = last THEN 0 ELSE slot + 1
    /\ UNCHANGED <<size, first, base, last, readVars, stepVars, skewed>>

\* No room: with SERIAL_ERROR_CHAR the last character is overwritten.
MarkOverrun ==
    /\ base = "ring"
    /\ count = size
    /\ LET latest == IF slot = 0 THEN size - 1 ELSE slot - 1
       IN  ring' = [ring EXCEPT ![latest] = ErrorChar]
    /\ UNCHANGED <<size, first, base, slot, last, count, readVars, stepVars,
                   skewed>>

-----------------------------------------------------------------------------
(* SerialStartRead. *)

\* SerialGetCharsFromIntBuffer for a new read, under the control lock.
FirstCopy(n, m) ==
    /\ place = "idle" /\ base = "ring"
    /\ length' = n
    /\ mode' = m
    /\ LET got == Lesser(count, n)
       IN  /\ user' = Filled(NewBuffer(MaxLen), 0, got)
           /\ Advance(got)
           /\ needed' = n - got
           /\ info' = got
           /\ copied' = got
    /\ place' = "copied"
    /\ UNCHANGED <<ring, size, base, slot, last, count, newRing, skewed>>

Satisfied == \/ mode = "present"
             \/ needed = 0
             \/ mode \in {"any", "one"} /\ info # 0

\* SerialUpdateInterruptBuffer accounts for the copy.
FinishAtOnce ==
    /\ place = "copied"
    /\ Satisfied
    /\ count' = count - copied
    /\ place' = "idle" /\ copied' = 0
    /\ UNCHANGED <<ring, size, first, base, slot, last, readVars, newRing,
                   skewed>>

\* The read turns out to be cancelled: it is completed with no characters, and
\* the copy is not accounted for.
FinishCancelled ==
    /\ place = "copied"
    /\ ~Satisfied
    /\ info' = 0
    /\ skewed' = (skewed \/ copied # 0)
    /\ place' = "idle" /\ copied' = 0
    /\ UNCHANGED <<ringVars, user, length, needed, mode, newRing>>

\* SerialUpdateAndSwitchToUser, with the ISR kept out: account for the first
\* copy, copy again and account for that, and give the user buffer to the ISR
\* if characters are still needed.
SwitchToUser ==
    /\ place = "copied"
    /\ ~Satisfied
    /\ LET wanted == IF mode = "one" THEN 1 ELSE needed
           n == IF mode = "one" THEN 1 ELSE length
           left == count - copied
           got == Lesser(left, wanted)
       IN  /\ user' = Filled(user, n - wanted, got)
           /\ length' = n
           /\ needed' = wanted - got
           /\ info' = info + got
           /\ count' = left - got
           /\ Advance(got)
           /\ IF got < wanted
              THEN base' = "user" /\ slot' = info + got /\ last' = n - 1
              ELSE UNCHANGED <<base, slot, last>>
    /\ place' = "idle" /\ copied' = 0
    /\ UNCHANGED <<ring, size, mode, newRing, skewed>>

\* A timer or a cancel ends the read: SerialGrabReadFromIsr.
GrabReadFromIsr ==
    /\ base = "user"
    /\ info' = length - (last - slot + 1)
    /\ EmptyRing
    /\ UNCHANGED <<ring, size, user, length, needed, mode, stepVars>>

-----------------------------------------------------------------------------
(* Purge and resize, which take the control lock. *)

\* Mutant: the control lock is not taken.
PurgeInterruptBuffUnlocked ==
    /\ base = "ring"
    /\ EmptyRing
    /\ UNCHANGED <<ring, size, readVars, stepVars>>

PurgeInterruptBuff ==
    /\ place = "idle" /\ base = "ring"
    /\ EmptyRing
    /\ UNCHANGED <<ring, size, readVars, stepVars>>

\* SerialMoveToNewIntBuffer moves what is there while the ISR adds more.
MoveToNewIntBuffer(n) ==
    /\ place = "idle" /\ base = "ring"
    /\ n > size
    /\ newRing' = Filled(NewBuffer(n), 0, count)
    /\ Advance(count)
    /\ copied' = count
    /\ place' = "moved"
    /\ UNCHANGED <<ring, size, base, slot, last, count, readVars, skewed>>

\* Mutant: what came during the move is left.
SwitchToNewAtOnce ==
    /\ place = "moved"
    /\ ring' = newRing
    /\ \E n \in size + 1..MaxSize :
          /\ DOMAIN newRing = 0..n - 1
          /\ size' = n
          /\ last' = n - 1
    /\ first' = 0 /\ slot' = count
    /\ place' = "idle" /\ copied' = 0 /\ newRing' = <<>>
    /\ UNCHANGED <<base, count, readVars, skewed>>

\* SerialUpdateAndSwitchToNew moves the rest with the ISR kept out.
SwitchToNew ==
    /\ place = "moved"
    /\ ring' = Filled(newRing, copied, count - copied)
    /\ \E n \in size + 1..MaxSize :
          /\ DOMAIN newRing = 0..n - 1
          /\ size' = n
          /\ last' = n - 1
    /\ first' = 0 /\ slot' = count
    /\ place' = "idle" /\ copied' = 0 /\ newRing' = <<>>
    /\ UNCHANGED <<base, count, readVars, skewed>>

-----------------------------------------------------------------------------
Next ==
    \/ \E ch \in Chars : PutCharInUserBuffer(ch) \/ PutCharInRing(ch)
    \/ MarkOverrun
    \/ \E n \in 1..MaxLen, m \in ReadModes : FirstCopy(n, m)
    \/ FinishAtOnce \/ FinishCancelled \/ SwitchToUser \/ GrabReadFromIsr
    \/ PurgeInterruptBuff
    \/ \E n \in 1..MaxSize : MoveToNewIntBuffer(n)
    \/ SwitchToNew

Spec == Init /\ [][Next]_vars

-----------------------------------------------------------------------------
\* The characters that are buffered: those a resize has moved, then those
\* still in the ring; a read's first copy is out of it.
Contents ==
    LET moved == IF place = "moved" THEN copied ELSE 0
    IN  [k \in 1..moved |-> newRing[k - 1]]
        \o [k \in 1..count - copied |-> Readable(k - 1)]

\* The characters the user buffer holds so far.
ReadSoFar == LET n == IF base = "user" THEN slot ELSE info
             IN  [k \in 1..n |-> user[k - 1]]

CharacterOrder == INSTANCE CharQueue WITH buffered <- Contents,
                                          read <- ReadSoFar

\* Characters reach reads in the order the line brought them, whichever
\* copy, resize, switch or grab carried them, except while the ring is skewed.
ImplementsCharQueue ==
    /\ CharacterOrder!Init
    /\ [][CharacterOrder!Next \/ skewed']_(CharacterOrder!vars)

\* CharsInInterruptBuffer is "a count of the number of characters in the
\* interrupt buffer" (serial.h:922): the slots from the first readable
\* character to the first free slot, less a copy not yet accounted for.
CountExact ==
    base = "ring" => slot = (first + count - copied) % size

\* The count is exact unless a read was cancelled between its two copies, and
\* from the moment the ring is emptied again.
RingInSync == ~skewed => CountExact

\* Every pointer the ISR stores through is inside the buffer it names, and
\* while it is the user buffer the ring is empty and there is room for one
\* more: the facts SerialPutChar relies on without a check.
StoresInBounds ==
    /\ base = "ring" => slot < size /\ last = size - 1
    /\ base = "user" => /\ slot <= last /\ last = length - 1
                        /\ count = 0 /\ place = "idle"

-----------------------------------------------------------------------------
\* The inductive invariant of SerialRingProofs: besides the types and bounds,
\* what a read has and what it needs make up its length between its copies,
\* and a resize has a larger buffer to go to.
RingInv ==
    /\ TypeOK
    /\ StoresInBounds
    /\ place = "copied" => info + needed = length
    /\ place = "moved" => \E n \in size + 1..MaxSize : newRing \in Buffer(n)
    /\ place # "moved" => newRing = <<>>
    /\ place = "idle" => copied = 0
=============================================================================
