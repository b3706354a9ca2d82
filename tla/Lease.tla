------------------------------- MODULE Lease -------------------------------
(***************************************************************************)
(* The Lease on one issue: one ref on the shared remote, the Runs that     *)
(* contend for it, and the network between them.  Each Run has a           *)
(* foreground that takes, fences and releases (LeaseLifecycle over         *)
(* LeaseTransport) and a heartbeat thread that renews (LeaseHeartbeat).    *)
(*                                                                         *)
(* A commit SHA is modelled by the content it hashes: swaps compare        *)
(* records.  Time is true time plus a fixed offset per Run.                *)
(***************************************************************************)
EXTENDS Integers, FiniteSets, LeaseRegister

CONSTANTS
    Interval,   \* least time between renewals of one Lease
    MaxTries,   \* _WRITE_ATTEMPTS: identical swaps sent before giving up
    Budget,     \* _WRITE_BUDGET_SECONDS: no swap is sent again after this long
    SkewBound,  \* no wall clock runs further ahead of another than this
    Refusable,  \* Runs whose clone the remote may refuse for good
    MaxTime,    \* bound on the clock
    MaxLate     \* bound on writes the client gave up on, still under way

ASSUME LeaseAssumption ==
    /\ Interval \in Nat \ {0}
    /\ MaxTries \in Nat \ {0}
    /\ Budget \in Nat
    /\ SkewBound \in Nat
    /\ \A r, s \in Runs : Skew[r] - Skew[s] <= SkewBound
    /\ Refusable \subseteq Runs
    /\ MaxTime \in Nat
    /\ MaxLate \in Nat

VARIABLES
    late,       \* swaps whose client saw an error while the server had them
    alive,      \* Runs not killed
    op,         \* foreground: what the Run is in the middle of
    want,       \* foreground: the swap it is pushing
    tries,      \* foreground: its attempts answered by an error, and since when
    hold,       \* LeaseLifecycle._holds: the record take wrote, or Absent
    lost,       \* LeaseLifecycle._lost
    everHeld,   \* LeaseLifecycle._ever_held
    disabled,   \* LeaseLifecycle._disabled
    lastClaim,  \* the newest moment this Run minted a claim at
    beat,       \* heartbeat thread: none, running, renewing or lost
    known,      \* HeartbeatSnapshot.hold, or Absent
    renewal,    \* the swap the heartbeat is pushing
    beatTries   \* its attempts answered by an error, and since when

foreground == <<op, want, tries>>
lifecycle == <<hold, lost, everHeld, disabled, lastClaim>>
heartbeat == <<beat, known, renewal, beatTries>>
vars == <<regVars, late, alive, foreground, lifecycle, heartbeat>>

Write == [by : Runs, exp : Message, new : Message]
Swap(r, e, n) == [by |-> r, exp |-> e, new |-> n]
NoSwap(r) == Swap(r, Absent, Absent)

Tries == [n : 0..(MaxTries - 1), since : Nat]
NoTries == [n |-> 0, since |-> 0]

OpKinds == {"idle", "claim", "act", "losing", "delete", "confirm"}
BeatKinds == {"none", "running", "renewing", "lost"}

TypeOK ==
    /\ ref \in Message
    /\ clock \in Nat
    /\ hand \in Nat
    /\ late \subseteq Write
    /\ alive \in [Runs -> BOOLEAN]
    /\ op \in [Runs -> OpKinds]
    /\ want \in [Runs -> Write]
    /\ tries \in [Runs -> Tries]
    /\ hold \in [Runs -> Record \cup {Absent}]
    /\ lost \in [Runs -> BOOLEAN]
    /\ everHeld \in [Runs -> BOOLEAN]
    /\ disabled \in [Runs -> BOOLEAN]
    /\ lastClaim \in [Runs -> Int]
    /\ beat \in [Runs -> BeatKinds]
    /\ known \in [Runs -> Record \cup {Absent}]
    /\ renewal \in [Runs -> Write]
    /\ beatTries \in [Runs -> Tries]

Init ==
    /\ RegisterInit
    /\ late = {}
    /\ alive = [r \in Runs |-> TRUE]
    /\ op = [r \in Runs |-> "idle"]
    /\ want = [r \in Runs |-> NoSwap(r)]
    /\ tries = [r \in Runs |-> NoTries]
    /\ hold = [r \in Runs |-> Absent]
    /\ lost = [r \in Runs |-> FALSE]
    /\ everHeld = [r \in Runs |-> FALSE]
    /\ disabled = [r \in Runs |-> FALSE]
    /\ lastClaim = [r \in Runs |-> -1]
    /\ beat = [r \in Runs |-> "none"]
    /\ known = [r \in Runs |-> Absent]
    /\ renewal = [r \in Runs |-> NoSwap(r)]
    /\ beatTries = [r \in Runs |-> NoTries]

-----------------------------------------------------------------------------
(* One push: git push --force-with-lease, and what the client hears of it. *)

\* Mutant: a plain force push.
AppliesBlind(w) == w \in Write

Applies(w) == ref = w.exp

\* The server compared and swapped.
Lands(w) == Applies(w) /\ ref' = w.new /\ UNCHANGED late

\* Nothing reached the ref.
Unsent == UNCHANGED <<ref, late>>

\* The client gave up first; the server may still compare and swap later.
Delayed(w) ==
    /\ Cardinality(late \cup {w}) <= MaxLate
    /\ late' = late \cup {w}
    /\ UNCHANGED ref

\* Git finds the ref already at the pushed commit: success, nothing written.
UpToDate(w) == ref = w.new /\ w.new # Absent /\ Unsent

Accepted(w) == Lands(w) \/ UpToDate(w)

\* "stale info": the one failure push_ref answers False for.
Stale(w) == ~Applies(w) /\ (ref # w.new \/ w.new = Absent) /\ Unsent

\* A raised GitError: the write landed unheard, never left, or is under way.
Unheard(w) == Lands(w) \/ Unsent \/ Delayed(w)

\* _push_counted: the identical swap is sent again only inside its budget.
Again(t) == [n |-> t.n + 1, since |-> IF t.n = 0 THEN clock ELSE t.since]
MaySend(t) == t.n = 0 \/ clock <= t.since + Budget

\* The last error propagates, with or without one more attempt.
GivesUp(t, w) == Unsent \/ (MaySend(t) /\ Unheard(w))

-----------------------------------------------------------------------------
(* take: observe, decide, swap.                                            *)

Foreground(r) == alive[r] /\ op[r] = "idle"
Rest(r) ==
    /\ op' = [op EXCEPT ![r] = "idle"]
    /\ want' = [want EXCEPT ![r] = NoSwap(r)]
    /\ tries' = [tries EXCEPT ![r] = NoTries]

\* Mutant: take forgets to ask _lost first.
PickupForgetful(r) == Foreground(r) /\ hold[r] = Absent /\ lastClaim[r] < Now(r)

\* A Pickup draws an issue this Run is not working.  Two claims of one Run
\* in one clock unit would hash to one SHA, which the model leaves out.
Pickup(r) ==
    /\ Foreground(r)
    /\ hold[r] = Absent
    /\ ~lost[r]
    /\ lastClaim[r] < Now(r)

\* The observation admits a claim (absent) or a steal (expired).
TakeObserve(r) ==
    /\ Pickup(r)
    /\ ref = Absent \/ Expired(ref, r)
    /\ op' = [op EXCEPT ![r] = "claim"]
    /\ want' = [want EXCEPT ![r] =
         Swap(r, ref, [owner |-> r, claimed |-> Now(r), hb |-> Now(r)])]
    /\ lastClaim' = [lastClaim EXCEPT ![r] = Now(r)]
    /\ UNCHANGED <<regVars, late, alive, tries, hold, lost, everHeld,
                   disabled, heartbeat>>

\* A permanent refusal before any success turns Leases off for this Run.
Disable(r) ==
    /\ r \in Refusable
    /\ disabled' = [disabled EXCEPT ![r] = @ \/ ~everHeld[r]]

\* The observation itself was refused for good.
TakeReadRefused(r) ==
    /\ Pickup(r)
    /\ Disable(r)
    /\ UNCHANGED <<regVars, late, alive, foreground, hold, lost, everHeld,
                   lastClaim, heartbeat>>

Claiming(r) == alive[r] /\ op[r] = "claim"
SendingClaim(r) == Claiming(r) /\ MaySend(tries[r])

\* Held: the hold is recorded and its heartbeat starts.
ClaimAccepted(r) ==
    /\ SendingClaim(r)
    /\ Accepted(want[r])
    /\ hold' = [hold EXCEPT ![r] = want[r].new]
    /\ everHeld' = [everHeld EXCEPT ![r] = TRUE]
    /\ beat' = [beat EXCEPT ![r] = "running"]
    /\ known' = [known EXCEPT ![r] = want[r].new]
    /\ Rest(r)
    /\ UNCHANGED <<clock, hand, alive, lost, disabled, lastClaim, renewal,
                   beatTries>>

\* Another Run's answer: refused, never retried.
ClaimRejected(r) ==
    /\ SendingClaim(r)
    /\ Stale(want[r])
    /\ Rest(r)
    /\ UNCHANGED <<clock, hand, alive, lifecycle, heartbeat>>

\* Mutant: one attempt too many.
ClaimRetryOnceMore(r) ==
    /\ SendingClaim(r)
    /\ tries[r].n + 1 <= MaxTries
    /\ Unheard(want[r])
    /\ tries' = [tries EXCEPT ![r] = Again(@)]
    /\ UNCHANGED <<clock, hand, alive, op, want, lifecycle, heartbeat>>

\* A transient fault: the identical swap again, within attempts and budget.
ClaimRetry(r) ==
    /\ SendingClaim(r)
    /\ tries[r].n + 1 < MaxTries
    /\ Unheard(want[r])
    /\ tries' = [tries EXCEPT ![r] = Again(@)]
    /\ UNCHANGED <<clock, hand, alive, op, want, lifecycle, heartbeat>>

\* Attempts or budget exhausted, or a fault nobody classified: unavailable.
ClaimUnavailable(r) ==
    /\ Claiming(r)
    /\ GivesUp(tries[r], want[r])
    /\ Rest(r)
    /\ UNCHANGED <<clock, hand, alive, lifecycle, heartbeat>>

\* The remote says this clone may never write here.
ClaimRefused(r) ==
    /\ SendingClaim(r)
    /\ Unsent
    /\ Disable(r)
    /\ Rest(r)
    /\ UNCHANGED <<clock, hand, alive, hold, lost, everHeld, lastClaim,
                   heartbeat>>

-----------------------------------------------------------------------------
(* fence: the read before each single side effect, and the side effect.    *)

StopBeat(r) ==
    /\ beat' = [beat EXCEPT ![r] = "none"]
    /\ known' = [known EXCEPT ![r] = Absent]
    /\ renewal' = [renewal EXCEPT ![r] = NoSwap(r)]
    /\ beatTries' = [beatTries EXCEPT ![r] = NoTries]

\* A heartbeat that gave up is dropped, the hold kept: a reason to look.
DropLostBeat(r) == IF beat[r] = "lost" THEN StopBeat(r) ELSE UNCHANGED heartbeat

Fencing(r) == Foreground(r) /\ ~disabled[r] /\ ~lost[r] /\ hold[r] # Absent

\* The remote names this Run, expired or not: the write may go ahead.
FenceHolds(r) ==
    /\ Fencing(r)
    /\ Owns(r, ref)
    /\ op' = [op EXCEPT ![r] = "act"]
    /\ DropLostBeat(r)
    /\ UNCHANGED <<regVars, late, alive, want, tries, lifecycle>>

\* The read failed: denied, and nothing concluded about ownership.
FenceUnread(r) ==
    /\ Fencing(r)
    /\ beat[r] = "lost"
    /\ StopBeat(r)
    /\ UNCHANGED <<regVars, late, alive, foreground, lifecycle>>

\* The remote names another Run, nobody, or nothing readable.
FenceLost(r) ==
    /\ Fencing(r)
    /\ ~Owns(r, ref)
    /\ op' = [op EXCEPT ![r] = "losing"]
    /\ DropLostBeat(r)
    /\ UNCHANGED <<regVars, late, alive, want, tries, lifecycle>>

\* _lose: the heartbeat is stopped and joined, the hold dropped for good.
Lose(r) ==
    /\ alive[r]
    /\ op[r] = "losing"
    /\ beat[r] # "renewing"
    /\ StopBeat(r)
    /\ hold' = [hold EXCEPT ![r] = Absent]
    /\ lost' = [lost EXCEPT ![r] = TRUE]
    /\ Rest(r)
    /\ UNCHANGED <<regVars, late, alive, everHeld, disabled, lastClaim>>

\* _leased with Leases off: no fence at all.
Unguarded(r) ==
    /\ Foreground(r)
    /\ disabled[r]
    /\ op' = [op EXCEPT ![r] = "act"]
    /\ UNCHANGED <<regVars, late, alive, want, tries, lifecycle,
                   heartbeat>>

\* The push, comment, label write or close that the fence admitted.
Act(r) ==
    /\ alive[r]
    /\ op[r] = "act"
    /\ Rest(r)
    /\ UNCHANGED <<regVars, late, alive, lifecycle, heartbeat>>

-----------------------------------------------------------------------------
(* release: stop the heartbeat, drop the hold, observe, delete.            *)

\* Mutant: release leaves the heartbeat to its thread.
ReleasingUnstopped(r) ==
    /\ Foreground(r)
    /\ hold[r] # Absent
    /\ hold' = [hold EXCEPT ![r] = Absent]
    /\ UNCHANGED <<regVars, late, alive, everHeld, disabled, lastClaim, tries,
                   heartbeat>>

\* stop() joins an in-flight renewal first.
Releasing(r) ==
    /\ Foreground(r)
    /\ hold[r] # Absent
    /\ beat[r] # "renewing"
    /\ StopBeat(r)
    /\ hold' = [hold EXCEPT ![r] = Absent]
    /\ UNCHANGED <<regVars, late, alive, everHeld, disabled, lastClaim, tries>>

ReleaseObserve(r) ==
    /\ Releasing(r)
    /\ Owns(r, ref)
    /\ op' = [op EXCEPT ![r] = "delete"]
    /\ want' = [want EXCEPT ![r] = Swap(r, ref, Absent)]
    /\ UNCHANGED lost

\* Already gone, or another Run's: the hold ended without its owner knowing.
ReleaseFindsLoss(r) ==
    /\ Releasing(r)
    /\ ~Owns(r, ref)
    /\ lost' = [lost EXCEPT ![r] = TRUE]
    /\ UNCHANGED <<op, want>>

\* The read failed: not_owned, unlatched.
ReleaseUnread(r) == Releasing(r) /\ UNCHANGED <<lost, op, want>>

Deleting(r) == alive[r] /\ op[r] = "delete"
SendingDelete(r) == Deleting(r) /\ MaySend(tries[r])

DeleteAccepted(r) ==
    /\ SendingDelete(r)
    /\ Lands(want[r])
    /\ Rest(r)
    /\ UNCHANGED <<clock, hand, alive, lifecycle, heartbeat>>

\* A swap refused at the first attempt sent nothing before it: loss.
DeleteRejected(r) ==
    /\ SendingDelete(r)
    /\ tries[r].n = 0
    /\ Stale(want[r])
    /\ lost' = [lost EXCEPT ![r] = TRUE]
    /\ Rest(r)
    /\ UNCHANGED <<clock, hand, alive, hold, everHeld, disabled, lastClaim,
                   heartbeat>>

\* A replay refused may follow a delete that landed unheard: look again.
ReplayRejected(r) ==
    /\ SendingDelete(r)
    /\ tries[r].n > 0
    /\ Stale(want[r])
    /\ op' = [op EXCEPT ![r] = "confirm"]
    /\ UNCHANGED <<clock, hand, alive, want, tries, lifecycle,
                   heartbeat>>

DeleteRetry(r) ==
    /\ SendingDelete(r)
    /\ tries[r].n + 1 < MaxTries
    /\ Unheard(want[r])
    /\ tries' = [tries EXCEPT ![r] = Again(@)]
    /\ UNCHANGED <<clock, hand, alive, op, want, lifecycle, heartbeat>>

\* The last error propagates: not_owned, unlatched.
DeleteUnavailable(r) ==
    /\ Deleting(r)
    /\ GivesUp(tries[r], want[r])
    /\ Rest(r)
    /\ UNCHANGED <<clock, hand, alive, lifecycle, heartbeat>>

\* Absent after a replay is answered "released".
ConfirmReleased(r) ==
    /\ alive[r]
    /\ op[r] = "confirm"
    /\ ref = Absent
    /\ Rest(r)
    /\ UNCHANGED <<regVars, late, alive, lifecycle, heartbeat>>

\* Someone's record is there: not_owned, and latched as loss.
ConfirmLost(r) ==
    /\ alive[r]
    /\ op[r] = "confirm"
    /\ ref # Absent
    /\ lost' = [lost EXCEPT ![r] = TRUE]
    /\ Rest(r)
    /\ UNCHANGED <<regVars, late, alive, hold, everHeld, disabled, lastClaim,
                   heartbeat>>

\* The confirming read failed: not_owned, unlatched.
ConfirmUnread(r) ==
    /\ alive[r]
    /\ op[r] = "confirm"
    /\ Rest(r)
    /\ UNCHANGED <<regVars, late, alive, lifecycle, heartbeat>>

-----------------------------------------------------------------------------
(* The heartbeat thread.                                                   *)

\* A renewal is due and the last acknowledged TTL has not run out.
RenewStart(r) ==
    /\ beat[r] = "running"
    /\ Now(r) - known[r].hb >= Interval
    /\ Now(r) < known[r].hb + TTL
    /\ beat' = [beat EXCEPT ![r] = "renewing"]
    /\ renewal' = [renewal EXCEPT ![r] =
         Swap(r, known[r], [known[r] EXCEPT !.hb = Now(r)])]
    /\ UNCHANGED <<regVars, late, alive, foreground, lifecycle, known,
                   beatTries>>

Renewing(r) == beat[r] = "renewing"
SendingRenewal(r) == Renewing(r) /\ MaySend(beatTries[r])

EndRenewal(r, state) ==
    /\ beat' = [beat EXCEPT ![r] = state]
    /\ renewal' = [renewal EXCEPT ![r] = NoSwap(r)]
    /\ beatTries' = [beatTries EXCEPT ![r] = NoTries]
    /\ UNCHANGED <<clock, hand, alive, foreground, lifecycle>>

RenewAccepted(r) ==
    /\ SendingRenewal(r)
    /\ Accepted(renewal[r])
    /\ known' = [known EXCEPT ![r] = renewal[r].new]
    /\ EndRenewal(r, "running")

RenewRetry(r) ==
    /\ SendingRenewal(r)
    /\ beatTries[r].n + 1 < MaxTries
    /\ Unheard(renewal[r])
    /\ beatTries' = [beatTries EXCEPT ![r] = Again(@)]
    /\ UNCHANGED <<clock, hand, alive, foreground, lifecycle, beat, known,
                   renewal>>

\* Transient to the end: keep looking, from the last acknowledged hold.
RenewDeferred(r) ==
    /\ Renewing(r)
    /\ GivesUp(beatTries[r], renewal[r])
    /\ EndRenewal(r, "running")
    /\ UNCHANGED known

\* Rejected, or a fault that will not pass: renewal ends for good.
RenewEnds(r) ==
    /\ Renewing(r)
    /\ \/ GivesUp(beatTries[r], renewal[r])
       \/ SendingRenewal(r) /\ Stale(renewal[r])
    /\ EndRenewal(r, "lost")
    /\ UNCHANGED known

\* The TTL elapsed, the wall clock went back, or the worker failed.
BeatGivesUp(r) ==
    /\ beat[r] = "running"
    /\ beat' = [beat EXCEPT ![r] = "lost"]
    /\ UNCHANGED <<regVars, late, alive, foreground, lifecycle, known, renewal,
                   beatTries>>

-----------------------------------------------------------------------------
(* The world.                                                              *)

\* Mutant: a heartbeat that outlives its process.
CrashLeavingBeat(r) ==
    /\ alive[r]
    /\ alive' = [alive EXCEPT ![r] = FALSE]
    /\ hold' = [hold EXCEPT ![r] = Absent]
    /\ lost' = [lost EXCEPT ![r] = FALSE]
    /\ everHeld' = [everHeld EXCEPT ![r] = FALSE]
    /\ disabled' = [disabled EXCEPT ![r] = FALSE]
    /\ Rest(r)
    /\ UNCHANGED <<regVars, late, lastClaim, heartbeat>>

\* SIGKILL: the process's memory and its daemon heartbeat go, the ref stays.
Crash(r) ==
    /\ alive[r]
    /\ alive' = [alive EXCEPT ![r] = FALSE]
    /\ hold' = [hold EXCEPT ![r] = Absent]
    /\ lost' = [lost EXCEPT ![r] = FALSE]
    /\ everHeld' = [everHeld EXCEPT ![r] = FALSE]
    /\ disabled' = [disabled EXCEPT ![r] = FALSE]
    /\ StopBeat(r)
    /\ Rest(r)
    /\ UNCHANGED <<regVars, late, lastClaim>>

\* A write its client gave up on is compared and swapped, or refused, now.
LateArrives(w) ==
    /\ late' = late \ {w}
    /\ ref' = IF Applies(w) THEN w.new ELSE ref
    /\ UNCHANGED <<clock, hand, alive, op, want, tries, lifecycle, heartbeat>>

ByHand ==
    /\ Operator
    /\ UNCHANGED <<late, alive, foreground, lifecycle, heartbeat>>

Tick ==
    /\ clock < MaxTime
    /\ Pass
    /\ UNCHANGED <<late, alive, foreground, lifecycle, heartbeat>>

Take(r) ==
    \/ TakeObserve(r) \/ TakeReadRefused(r) \/ ClaimAccepted(r)
    \/ ClaimRejected(r) \/ ClaimRetry(r) \/ ClaimUnavailable(r)
    \/ ClaimRefused(r)
Fence(r) ==
    \/ FenceHolds(r) \/ FenceUnread(r) \/ FenceLost(r) \/ Lose(r)
    \/ Unguarded(r) \/ Act(r)
Release(r) ==
    \/ ReleaseObserve(r) \/ ReleaseFindsLoss(r) \/ ReleaseUnread(r)
    \/ DeleteAccepted(r) \/ DeleteRejected(r) \/ ReplayRejected(r)
    \/ DeleteRetry(r) \/ DeleteUnavailable(r)
    \/ ConfirmReleased(r) \/ ConfirmLost(r) \/ ConfirmUnread(r)
Heartbeat(r) ==
    \/ RenewStart(r) \/ RenewAccepted(r) \/ RenewRetry(r)
    \/ RenewDeferred(r) \/ RenewEnds(r) \/ BeatGivesUp(r)

Next ==
    \/ \E r \in Runs : Take(r) \/ Fence(r) \/ Release(r) \/ Heartbeat(r)
                       \/ Crash(r)
    \/ \E w \in late : LateArrives(w)
    \/ ByHand
    \/ Tick

Spec == Init /\ [][Next]_vars

\* Time passes: the one thing nobody can stop.
FairSpec == Spec /\ WF_vars(Tick)

-----------------------------------------------------------------------------
(* Properties.                                                             *)

\* The last record this Run knows it wrote: the heartbeat's acknowledged hold
\* while there is one, the hold take stored otherwise.
KnownHold(r) == IF known[r] # Absent THEN known[r] ELSE hold[r]

\* While the Lease a Run holds has not run out on its own clock, less the
\* clocks' disagreement, the remote names that Run: no steal, late write or
\* lost answer can have taken the issue from a Run still inside its TTL.
\* (An operator's hand edit can, so it is excluded.)
UnexpiredHoldIsOwner ==
    hand = 0 =>
        \A r \in Runs :
            hold[r] # Absent /\ Now(r) - KnownHold(r).hb + SkewBound <= TTL
                => Owns(r, ref)

\* Renewal never outlives the hold it renews, so a Run's own heartbeat is
\* stopped before its delete is pushed (LeaseLifecycle.release, _lose).
NoBeatWithoutHold ==
    \A r \in Runs :
        /\ beat[r] # "none" => hold[r] # Absent
        /\ op[r] \in {"delete", "confirm"} => beat[r] = "none"

\* A Run shown to have lost the Lease never holds it or asks for it again,
\* whatever the thief does with it, and performs no further fenced write.
LossIsPermanent ==
    [][\A r \in Runs :
         lost[r] => /\ lost'[r] \/ ~alive'[r]
                    /\ hold'[r] = Absent
                    /\ op'[r] # "claim"
                    /\ (op'[r] = "act" => disabled[r])]_vars

\* Every change of the ref is one the abstract register allows.
ImplementsRegister == RegisterSpec

\* Would decide_lease_action let every Run claim or steal?
Claimable == \A s \in Runs : ref = Absent \/ Expired(ref, s)
Orphaned(r) == ~alive[r] /\ Owns(r, ref)

\* A killed Run cannot keep its issue: its Lease becomes claimable by all
\* within a TTL and the clocks' disagreement, whatever writes it left behind.
OrphanBecomesClaimable ==
    \A r \in Runs :
        (Orphaned(r) /\ clock + TTL + SkewBound < MaxTime)
            ~> (~Owns(r, ref) \/ Claimable)
=============================================================================
