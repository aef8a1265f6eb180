------------------------------ MODULE IrpQueue ------------------------------
(***************************************************************************)
(* What a queue of I/O request packets promises its callers: requests are  *)
(* started one at a time and in the order they were accepted, a waiting    *)
(* one can be withdrawn from anywhere in the queue, and every request is   *)
(* completed once.  It is the contract behind SerialStartOrQueue and       *)
(* SerialGetNextIrp, which the serial driver uses for its read, write,     *)
(* mask and purge queues.  SerialRead is shown to implement it.            *)
(***************************************************************************)
EXTENDS Naturals, SequencesExt

CONSTANTS
    Irps,   \* the requests a run may submit
    None    \* no request is active

VARIABLES
    active,         \* the request being worked on, or None
    waiting,        \* the requests accepted behind it, oldest first
    completions     \* how often each request has been completed

vars == <<active, waiting, completions>>

Init == /\ active = None
        /\ waiting = <<>>
        /\ completions = [i \in Irps |-> 0]

\* A request nobody has accepted or completed yet.
Fresh(i) == /\ completions[i] = 0
            /\ active # i
            /\ i \notin Range(waiting)

Complete(i) == completions' = [completions EXCEPT ![i] = @ + 1]

\* An idle queue starts the request at once.
Start(i) == /\ Fresh(i)
            /\ active = None
            /\ waiting = <<>>
            /\ active' = i
            /\ UNCHANGED <<waiting, completions>>

Wait(i) == /\ Fresh(i)
           /\ active # None
           /\ waiting' = Append(waiting, i)
           /\ UNCHANGED <<active, completions>>

\* The request is answered at the door and never enters the queue.
Refuse(i) == /\ Fresh(i)
             /\ Complete(i)
             /\ UNCHANGED <<active, waiting>>

\* Completing the active request starts the oldest waiting one.
Finish == /\ active # None
          /\ Complete(active)
          /\ \/ /\ waiting = <<>>
                /\ active' = None
                /\ UNCHANGED waiting
             \/ /\ waiting # <<>>
                /\ active' = Head(waiting)
                /\ waiting' = Tail(waiting)

Withdraw(n) == /\ n \in DOMAIN waiting
               /\ Complete(waiting[n])
               /\ waiting' = RemoveAt(waiting, n)
               /\ UNCHANGED active

Next == \/ \E i \in Irps : Start(i) \/ Wait(i) \/ Refuse(i)
        \/ Finish
        \/ \E n \in DOMAIN waiting : Withdraw(n)

Spec == Init /\ [][Next]_vars
=============================================================================
