----------------------------- MODULE CharQueue -----------------------------
(***************************************************************************)
(* What a typeahead buffer promises its readers: characters are handed out *)
(* in the order they arrived, none twice and none lost, except those that  *)
(* find the buffer full, that an error character overwrites, or that are   *)
(* purged.  A read that waits gets its characters directly, and only when  *)
(* no older one is buffered.  SerialRing is shown to implement it.         *)
(***************************************************************************)
EXTENDS Naturals, Sequences

CONSTANTS
    Chars,      \* what the line can carry
    ErrorChar   \* what stands for a character that was lost

VARIABLES
    buffered,   \* received and not read, oldest first
    read        \* the characters of the read in progress

vars == <<buffered, read>>

Init == buffered = <<>> /\ read = <<>>

Receive(ch) == /\ buffered' = Append(buffered, ch)
               /\ UNCHANGED read

ReceiveForRead(ch) == /\ buffered = <<>>
                      /\ read' = Append(read, ch)
                      /\ UNCHANGED buffered

Mark == /\ buffered # <<>>
        /\ buffered' = [buffered EXCEPT ![Len(buffered)] = ErrorChar]
        /\ UNCHANGED read

\* The oldest n characters leave the buffer behind those in front.
TakeAfter(front, n) ==
    /\ read' = front \o SubSeq(buffered, 1, n)
    /\ buffered' = SubSeq(buffered, n + 1, Len(buffered))

BeginRead == \E n \in 0..Len(buffered) : TakeAfter(<<>>, n)
ContinueRead == \E n \in 0..Len(buffered) : TakeAfter(read, n)

Purge == buffered' = <<>> /\ UNCHANGED read

Next == \/ \E ch \in Chars : Receive(ch) \/ ReceiveForRead(ch)
        \/ Mark \/ BeginRead \/ ContinueRead \/ Purge

Spec == Init /\ [][Next]_vars
=============================================================================
