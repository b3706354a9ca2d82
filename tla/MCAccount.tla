----------------------------- MODULE MCAccount -----------------------------
(* Two Lanes and the preparation pass. *)
EXTENDS AccountControl

CONSTANTS l1, l2, pass

TwoLanes == {l1, l2}
SomeDelays == {Missing, Invalid, 2}
=============================================================================
