---------------------------- MODULE MCSerialRead ----------------------------
(* Instances of SerialRead for TLC. *)
EXTENDS SerialRead
CONSTANTS r1, r2, r3, t1, t2, p1, p2, none

T(i, c, m) == [interval |-> i, constant |-> c, multiplier |-> m]

\* One setting per distinct behaviour of SerialStartRead.
AllSettings == { T("zero", "zero", "zero"),   \* wait for ever
                 T("zero", "some", "some"),   \* total timer
                 T("some", "zero", "zero"),   \* interval timer
                 T("some", "some", "zero"),   \* both timers
                 T("max", "zero", "zero"),    \* return what is present
                 T("max", "some", "some"),    \* return if anything is present
                 T("max", "some", "max"),     \* the same, one character
                 T("max", "max", "zero") }    \* no timer is used

\* Those that leave a read waiting, with and without each timer.
TimerSettings == { T("zero", "zero", "zero"), T("zero", "some", "some"),
                   T("some", "zero", "zero"), T("some", "some", "zero") }

Symmetry == Permutations(Irps \ Resizes) \cup Permutations(Threads)
            \cup Permutations(Cpus)
=============================================================================
