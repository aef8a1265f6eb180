---------------------------- MODULE MCSerialPnp ----------------------------
(* Instances of SerialPnp for TLC. *)
EXTENDS SerialPnp
CONSTANTS c1, c2, k1, r1, q1, none

EveryOp == AllPnpOps
RemoveOps == {"query_remove", "cancel_remove", "remove"}
StopOps == {"query_stop", "cancel_stop", "stop", "start"}
StopRemoveOps == StopOps \cup RemoveOps
SurpriseOps == {"surprise", "remove"}

Symmetry == Permutations(Creates)
=============================================================================
