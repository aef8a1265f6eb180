---------------------------- MODULE MCSerialRing ----------------------------
(* Instances of SerialRing for TLC. *)
EXTENDS SerialRing
CONSTANTS a, b, e, blank
=============================================================================
