------------------------------- MODULE MCStop -------------------------------
(* Three clients, two of which deliver the same request.                    *)
EXTENDS Stop

CONSTANTS c1, c2, c3, l1

ThreeClients == {c1, c2, c3}
OneLane == {l1}
TwoIds == {1, 2}
Delivered == [c \in ThreeClients |-> IF c = c3 THEN 1 ELSE 2]
=============================================================================
