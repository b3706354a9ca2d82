------------------------- MODULE PublicationPromise -------------------------
(***************************************************************************)
(* What publication promises, without journal, pushes or crashes: an       *)
(* issue's work is private, then landed on base, then durable upstream,    *)
(* then its issue is closed; and one landing at a time is still torn.      *)
(***************************************************************************)
CONSTANT Issues

VARIABLE published

Torn == {i \in Issues : published[i] = "landed"}

Init == published = [i \in Issues |-> "private"]

\* A Lane's work lands while no other landing waits for its durability.
Land(i) ==
    /\ Torn = {} /\ published[i] \in {"private", "durable"}
    /\ published' = [published EXCEPT ![i] = "landed"]

\* What has landed becomes durable, with serial work on the same base.
Persist(S) ==
    /\ \A i \in S : published[i] \in {"private", "landed"}
    /\ Torn \subseteq S
    /\ published' = [i \in Issues |-> IF i \in S THEN "durable" ELSE published[i]]

Close(i) ==
    /\ published[i] = "durable"
    /\ published' = [published EXCEPT ![i] = "closed"]

Next ==
    \/ \E i \in Issues : Land(i) \/ Close(i)
    \/ \E S \in SUBSET Issues : Persist(S)

Spec == Init /\ [][Next]_published
=============================================================================
