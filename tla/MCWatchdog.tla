----------------------------- MODULE MCWatchdog -----------------------------
(* Instances of Watchdog for TLC. *)
EXTENDS Watchdog
CONSTANTS t1, t2, e1, e2, e3, null
=============================================================================
