---------------------------- MODULE MCSerialWait ----------------------------
(* Instances of SerialWait for TLC. *)
EXTENDS SerialWait
CONSTANTS s1, s2, w1, w2, t1, t2, rx, tx, none
=============================================================================
