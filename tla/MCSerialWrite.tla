---------------------------- MODULE MCSerialWrite ----------------------------
(* Instances of SerialWrite for TLC. *)
EXTENDS SerialWrite
CONSTANTS w1, x1, f1, m1, t1, p1, none

\* The requests that have come, or were cancelled before they came.
Known == {i \in Irps : irp[i] # New}

\* What the environment does in the liveness run: an immediate character comes
\* with a write only, an XON or XOFF is to be sent while one request is there,
\* and with three of them nothing holds the transmitter.  Only actions without
\* fairness (dispatch, FlagCancel, Hold, the prods) can break this, so no fair
\* behaviour is cut short.
FewAtOnce ==
    /\ m1 \in Known => Known \subseteq {w1, m1}
    /\ Cardinality(Known) > 1 => flowChar = "none"
    /\ Cardinality(Known) > 2 => held = {}

\* In the safety run: an XON or XOFF is to be sent while two requests of the
\* three have come at most.
FewProds == Known = Irps => flowChar = "none"
=============================================================================
