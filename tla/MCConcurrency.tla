--------------------------- MODULE MCConcurrency ---------------------------
(* Signals one at a time, all of them unknown, and none of them.           *)
EXTENDS Concurrency

Signals(rate, credit, host) == [rate |-> rate, credit |-> credit, host |-> host]
Rest == Signals(0, Unknown, 50)
Sampled ==
    {Rest, Signals(1, Unknown, 50), Signals(0, 150, 50), Signals(0, 50, 110),
     Signals(Unknown, Unknown, Unknown)}
=============================================================================
