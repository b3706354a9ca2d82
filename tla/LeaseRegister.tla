---------------------------- MODULE LeaseRegister ----------------------------
(***************************************************************************)
(* What a Lease promises, with no network in it: one register per issue,   *)
(* naming at most one Run, that changes hands only by a grant, a steal     *)
(* after expiry, or the owner's own release.  Lease implements it.         *)
(***************************************************************************)
EXTENDS Integers

CONSTANTS
    Runs,       \* run identities (a restarted process is a new identity)
    TTL,        \* DEFAULT_TTL_SECONDS, in clock units
    Skew,       \* each Run's wall clock runs this far ahead of true time
    MaxHand,    \* bound: how often an operator touches the ref by hand
    Absent,     \* no ref on the remote
    Malformed   \* a ref whose commit message is not a Lease record

VARIABLES ref, clock, hand
regVars == <<ref, clock, hand>>

ASSUME RegisterAssumption ==
    /\ TTL \in Nat \ {0}
    /\ Skew \in [Runs -> Nat]
    /\ MaxHand \in Nat
    /\ Absent # Malformed

Record == [owner : Runs, claimed : Nat, hb : Nat]
Message == Record \cup {Absent, Malformed}

ASSUME MarkersAreNotRecords == Absent \notin Record /\ Malformed \notin Record

Now(r) == clock + Skew[r]
IsRecord(m) == m \notin {Absent, Malformed}
Owns(r, m) == IsRecord(m) /\ m.owner = r

\* Mutant: age measured from the taking, as if nothing renewed.
ExpiredSinceClaim(m, r) ==
    m = Malformed \/ (IsRecord(m) /\ Now(r) - m.claimed > TTL)

\* inspect_lease: a malformed message is expired and owned by nobody.
Expired(m, r) == m = Malformed \/ (IsRecord(m) /\ Now(r) - m.hb > TTL)

RegisterInit == ref = Absent /\ clock = 0 /\ hand = 0

\* An unheld issue goes to whoever asks.
Grant(r) ==
    /\ ref = Absent
    /\ ref' \in Record /\ ref'.owner = r
    /\ UNCHANGED <<clock, hand>>

\* The owner moves the liveness of its Lease forward, never its taking.
Renew(r) ==
    /\ Owns(r, ref)
    /\ ref' \in Record
    /\ ref'.hb >= ref.hb /\ ref' = [ref EXCEPT !.hb = ref'.hb]
    /\ UNCHANGED <<clock, hand>>

\* Only an expired Lease, by the taker's own clock, changes hands.
Steal(r) ==
    /\ Expired(ref, r)
    /\ ref' \in Record /\ ref'.owner = r
    /\ UNCHANGED <<clock, hand>>

\* Only the owner frees it.
Free(r) == Owns(r, ref) /\ ref' = Absent /\ UNCHANGED <<clock, hand>>

\* A human deletes or overwrites the branch in an ordinary branch listing.
Operator ==
    /\ hand < MaxHand
    /\ hand' = hand + 1
    /\ ref' \in {Absent, Malformed}
    /\ UNCHANGED clock

Pass == clock' = clock + 1 /\ UNCHANGED <<ref, hand>>

RegisterNext ==
    \/ \E r \in Runs : Grant(r) \/ Renew(r) \/ Steal(r) \/ Free(r)
    \/ Operator
    \/ Pass

RegisterSpec == RegisterInit /\ [][RegisterNext]_regVars
=============================================================================
