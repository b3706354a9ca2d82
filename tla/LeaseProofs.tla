---------------------------- MODULE LeaseProofs ----------------------------
(***************************************************************************)
(* Theorems about Lease, for every set of Runs, TTL, clock skew, retry     *)
(* bound and number of late writes.                                        *)
(***************************************************************************)
EXTENDS Lease, TLAPS

USE DEF regVars, foreground, lifecycle, heartbeat

-----------------------------------------------------------------------------
(* The inductive invariant.                                                *)

\* The three swaps a Run ever pushes, and what makes each of them right.
ClaimSwap(w) ==
    /\ w.new \in Record
    /\ w.new.owner = w.by
    /\ w.exp = Absent \/ Expired(w.exp, w.by)
RenewSwap(w) ==
    /\ w.exp \in Record
    /\ w.new \in Record
    /\ w.exp.owner = w.by
    /\ w.new.owner = w.by
    /\ w.new.claimed = w.exp.claimed
    /\ w.new.hb >= w.exp.hb
DeleteSwap(w) ==
    /\ w.exp \in Record
    /\ w.exp.owner = w.by
    /\ w.new = Absent
Justified(w) == ClaimSwap(w) \/ RenewSwap(w) \/ DeleteSwap(w)

\* What each foreground state says of the hold and of the swap being pushed.
ForegroundPhase(r) ==
    /\ op[r] = "claim" =>
         hold[r] = Absent /\ want[r].by = r /\ ClaimSwap(want[r])
    /\ op[r] \in {"delete", "confirm"} =>
         hold[r] = Absent /\ want[r].by = r /\ DeleteSwap(want[r])
    /\ hold[r] # Absent => hold[r] \in Record /\ hold[r].owner = r
    /\ lost[r] => /\ hold[r] = Absent
                  /\ op[r] = "idle" \/ (op[r] = "act" /\ disabled[r])

\* What each heartbeat state says of the hold and of the renewal being pushed.
HeartbeatPhase(r) ==
    /\ hold[r] = Absent => beat[r] = "none"
    /\ beat[r] = "none" => known[r] = Absent
    /\ beat[r] # "none" => /\ known[r] \in Record
                           /\ known[r].owner = r
                           /\ known[r].claimed = hold[r].claimed
                           /\ known[r].hb >= hold[r].hb
    /\ beat[r] = "renewing" => /\ renewal[r].by = r
                               /\ renewal[r].exp = known[r]
                               /\ RenewSwap(renewal[r])

LateJustified == \A w \in late : Justified(w)

PhaseInv ==
    /\ TypeOK
    /\ \A r \in Runs : ForegroundPhase(r) /\ HeartbeatPhase(r)
    /\ LateJustified

-----------------------------------------------------------------------------
(* Type correctness.                                                       *)

LEMMA NowIsNatural == ASSUME clock \in Nat, NEW r \in Runs PROVE Now(r) \in Nat
  BY RegisterAssumption DEF Now

LEMMA FreshRecord ==
  ASSUME clock \in Nat, NEW r \in Runs
  PROVE  [owner |-> r, claimed |-> Now(r), hb |-> Now(r)] \in Record
  BY NowIsNatural DEF Record

LEMMA NewerRecord ==
  ASSUME clock \in Nat, NEW r \in Runs, NEW m \in Record
  PROVE  [m EXCEPT !.hb = Now(r)] \in Record
  BY NowIsNatural DEF Record

LEMMA SwapTyped ==
  ASSUME NEW r \in Runs, NEW e \in Message, NEW n \in Message
  PROVE  /\ Swap(r, e, n) \in Write
         /\ Swap(r, e, n).by = r
         /\ Swap(r, e, n).exp = e
         /\ Swap(r, e, n).new = n
  BY DEF Swap, Write

LEMMA NoSwapTyped == ASSUME NEW r \in Runs PROVE NoSwap(r) \in Write
  BY SwapTyped DEF NoSwap, Message

LEMMA NoTriesTyped == NoTries \in Tries
  BY LeaseAssumption DEF NoTries, Tries

LEMMA AgainTyped ==
  ASSUME clock \in Nat, NEW t \in Tries, t.n + 1 < MaxTries
  PROVE  Again(t) \in Tries
  BY LeaseAssumption DEF Again, Tries

LEMMA RecordsAreMessages ==
  /\ Record \subseteq Message
  /\ Absent \in Message
  /\ \A m \in Record : IsRecord(m)
  /\ \A m \in Message : IsRecord(m) => m \in Record
  BY MarkersAreNotRecords DEF Message, IsRecord

\* A push leaves the ref readable; only itself may be left under way.
LEMMA PushTyped ==
  ASSUME TypeOK, NEW w \in Write,
         Accepted(w) \/ Stale(w) \/ Unheard(w) \/ Lands(w) \/ Unsent
           \/ (\E t \in Tries : GivesUp(t, w))
  PROVE  /\ ref' \in Message
         /\ late' \subseteq Write
         /\ late' \subseteq late \cup {w}
  BY DEF TypeOK, Accepted, Stale, Unheard, GivesUp, Lands, Unsent, Delayed,
         UpToDate, Write

\* Dropping a heartbeat that gave up leaves it in order.
LEMMA DropLostBeatTyped ==
  ASSUME TypeOK, NEW r \in Runs, DropLostBeat(r)
  PROVE  /\ beat' \in [Runs -> BeatKinds]
         /\ known' \in [Runs -> Record \cup {Absent}]
         /\ renewal' \in [Runs -> Write]
         /\ beatTries' \in [Runs -> Tries]
<1>1. CASE beat[r] = "lost"
  BY <1>1, NoSwapTyped, NoTriesTyped DEF DropLostBeat, StopBeat, TypeOK, BeatKinds
<1>2. CASE beat[r] # "lost"
  BY <1>2 DEF DropLostBeat, TypeOK
<1> QED BY <1>1, <1>2

LEMMA InitPhase == Init => PhaseInv
  BY RegisterAssumption, LeaseAssumption
  DEF Init, RegisterInit, TypeOK, Message, Write, NoSwap, Swap, Tries, NoTries,
      OpKinds, BeatKinds, PhaseInv, ForegroundPhase, HeartbeatPhase, LateJustified

LEMMA TakeTyped ==
  ASSUME PhaseInv, NEW r \in Runs, Take(r)
  PROVE  TypeOK'
<1> USE LeaseAssumption, RegisterAssumption, NowIsNatural, FreshRecord,
        SwapTyped, NoSwapTyped, NoTriesTyped, AgainTyped, RecordsAreMessages,
        PushTyped, DropLostBeatTyped
    DEF PhaseInv, TypeOK, OpKinds, BeatKinds, Rest, StopBeat, EndRenewal,
        Disable, Releasing
<1>1. CASE TakeObserve(r)
  BY <1>1 DEF TakeObserve
<1>2. CASE TakeReadRefused(r)
  BY <1>2 DEF TakeReadRefused
<1>3. CASE ClaimAccepted(r)
  BY <1>3 DEF ClaimAccepted, Claiming, SendingClaim, ForegroundPhase, ClaimSwap
<1>4. CASE ClaimRejected(r)
  BY <1>4 DEF ClaimRejected
<1>5. CASE ClaimRetry(r)
  BY <1>5 DEF ClaimRetry
<1>6. CASE ClaimUnavailable(r)
  BY <1>6 DEF ClaimUnavailable
<1>7. CASE ClaimRefused(r)
  BY <1>7 DEF ClaimRefused
<1> QED BY <1>1, <1>2, <1>3, <1>4, <1>5, <1>6, <1>7 DEF Take

LEMMA FenceTyped ==
  ASSUME PhaseInv, NEW r \in Runs, Fence(r)
  PROVE  TypeOK'
<1> USE LeaseAssumption, RegisterAssumption, NowIsNatural, FreshRecord,
        SwapTyped, NoSwapTyped, NoTriesTyped, AgainTyped, RecordsAreMessages,
        PushTyped, DropLostBeatTyped
    DEF PhaseInv, TypeOK, OpKinds, BeatKinds, Rest, StopBeat, EndRenewal,
        Disable, Releasing
<1>1. CASE FenceHolds(r)
  BY <1>1 DEF FenceHolds
<1>2. CASE FenceUnread(r)
  BY <1>2 DEF FenceUnread
<1>3. CASE FenceLost(r)
  BY <1>3 DEF FenceLost
<1>4. CASE Lose(r)
  BY <1>4 DEF Lose
<1>5. CASE Unguarded(r)
  BY <1>5 DEF Unguarded
<1>6. CASE Act(r)
  BY <1>6 DEF Act
<1> QED BY <1>1, <1>2, <1>3, <1>4, <1>5, <1>6 DEF Fence

LEMMA ReleaseTyped ==
  ASSUME PhaseInv, NEW r \in Runs, Release(r)
  PROVE  TypeOK'
<1> USE LeaseAssumption, RegisterAssumption, NowIsNatural, FreshRecord,
        SwapTyped, NoSwapTyped, NoTriesTyped, AgainTyped, RecordsAreMessages,
        PushTyped, DropLostBeatTyped
    DEF PhaseInv, TypeOK, OpKinds, BeatKinds, Rest, StopBeat, EndRenewal,
        Disable, Releasing
<1>1. CASE ReleaseObserve(r)
  BY <1>1 DEF ReleaseObserve
<1>2. CASE ReleaseFindsLoss(r)
  BY <1>2 DEF ReleaseFindsLoss
<1>3. CASE ReleaseUnread(r)
  BY <1>3 DEF ReleaseUnread
<1>4. CASE DeleteAccepted(r)
  BY <1>4 DEF DeleteAccepted
<1>5. CASE DeleteRejected(r)
  BY <1>5 DEF DeleteRejected
<1>6. CASE ReplayRejected(r)
  BY <1>6 DEF ReplayRejected
<1>7. CASE DeleteRetry(r)
  BY <1>7 DEF DeleteRetry
<1>8. CASE DeleteUnavailable(r)
  BY <1>8 DEF DeleteUnavailable
<1>9. CASE ConfirmReleased(r)
  BY <1>9 DEF ConfirmReleased
<1>10. CASE ConfirmLost(r)
  BY <1>10 DEF ConfirmLost
<1>11. CASE ConfirmUnread(r)
  BY <1>11 DEF ConfirmUnread
<1> QED BY <1>1, <1>2, <1>3, <1>4, <1>5, <1>6, <1>7, <1>8, <1>9, <1>10, <1>11 DEF Release

LEMMA HeartbeatTyped ==
  ASSUME PhaseInv, NEW r \in Runs, Heartbeat(r)
  PROVE  TypeOK'
<1> USE LeaseAssumption, RegisterAssumption, NowIsNatural, FreshRecord,
        SwapTyped, NoSwapTyped, NoTriesTyped, AgainTyped, RecordsAreMessages,
        PushTyped, DropLostBeatTyped
    DEF PhaseInv, TypeOK, OpKinds, BeatKinds, Rest, StopBeat, EndRenewal,
        Disable, Releasing
<1>1. CASE RenewStart(r)
  <2>1. known[r] \in Record
    BY <1>1 DEF RenewStart, HeartbeatPhase
  <2>2. renewal'[r] \in Write
    BY <1>1, <2>1, NewerRecord DEF RenewStart
  <2> QED BY <1>1, <2>2 DEF RenewStart
<1>2. CASE RenewAccepted(r)
  BY <1>2 DEF RenewAccepted, Renewing, SendingRenewal, HeartbeatPhase, RenewSwap
<1>3. CASE RenewRetry(r)
  BY <1>3 DEF RenewRetry
<1>4. CASE RenewDeferred(r)
  BY <1>4 DEF RenewDeferred
<1>5. CASE RenewEnds(r)
  BY <1>5 DEF RenewEnds
<1>6. CASE BeatGivesUp(r)
  BY <1>6 DEF BeatGivesUp
<1> QED BY <1>1, <1>2, <1>3, <1>4, <1>5, <1>6 DEF Heartbeat

-----------------------------------------------------------------------------
(* The phases are preserved.                                               *)

LEMMA JustifiedStable ==
  ASSUME clock \in Nat, clock' \in Nat, clock' >= clock, NEW w \in Write
  PROVE  /\ ClaimSwap(w) => ClaimSwap(w)'
         /\ Justified(w) => Justified(w)'
<1>1. \A m \in Message : Expired(m, w.by) => Expired(m, w.by)'
  BY RegisterAssumption, RecordsAreMessages
  DEF Expired, Now, IsRecord, Record, Write
<1> QED
  BY <1>1 DEF ClaimSwap, Justified, RenewSwap, DeleteSwap, Write

\* A Run's phases depend on nothing of any other Run.
LEMMA ForegroundFrame ==
  ASSUME TypeOK, clock' \in Nat, clock' >= clock, NEW q \in Runs,
         ForegroundPhase(q), op'[q] = op[q], want'[q] = want[q],
         hold'[q] = hold[q], lost'[q] = lost[q], disabled'[q] = disabled[q]
  PROVE  ForegroundPhase(q)'
<1>1. want[q] \in Write
  BY DEF TypeOK
<1> QED
  BY <1>1, JustifiedStable DEF ForegroundPhase, TypeOK, DeleteSwap

LEMMA HeartbeatFrame ==
  ASSUME NEW q \in Runs, HeartbeatPhase(q), hold'[q] = hold[q],
         beat'[q] = beat[q], known'[q] = known[q], renewal'[q] = renewal[q]
  PROVE  HeartbeatPhase(q)'
  BY DEF HeartbeatPhase, RenewSwap

\* What one Run does in a step, no other Run notices but through the remote.
LEMMA OthersUntouched ==
  ASSUME TypeOK, NEW r \in Runs, NEW q \in Runs, q # r,
         Take(r) \/ Fence(r) \/ Release(r) \/ Heartbeat(r) \/ Crash(r)
  PROVE  /\ clock' = clock
         /\ op'[q] = op[q] /\ want'[q] = want[q]
         /\ hold'[q] = hold[q] /\ lost'[q] = lost[q]
         /\ disabled'[q] = disabled[q] /\ lastClaim'[q] = lastClaim[q]
         /\ beat'[q] = beat[q] /\ known'[q] = known[q]
         /\ renewal'[q] = renewal[q]
<1> USE DEF TypeOK, Rest, StopBeat, DropLostBeat, EndRenewal, Disable, Releasing
<1>1. CASE Take(r)
  BY <1>1 DEF Take, TakeObserve, TakeReadRefused, ClaimAccepted, ClaimRejected, ClaimRetry, ClaimUnavailable, ClaimRefused
<1>2. CASE Fence(r)
  BY <1>2 DEF Fence, FenceHolds, FenceUnread, FenceLost, Lose, Unguarded, Act
<1>3. CASE Release(r)
  BY <1>3 DEF Release, ReleaseObserve, ReleaseFindsLoss, ReleaseUnread, DeleteAccepted, DeleteRejected, ReplayRejected, DeleteRetry, DeleteUnavailable, ConfirmReleased, ConfirmLost, ConfirmUnread
<1>4. CASE Heartbeat(r)
  BY <1>4 DEF Heartbeat, RenewStart, RenewAccepted, RenewRetry, RenewDeferred, RenewEnds, BeatGivesUp
<1>5. CASE Crash(r)
  BY <1>5 DEF Crash
<1> QED BY <1>1, <1>2, <1>3, <1>4, <1>5

LEMMA TakeKeepsPhase ==
  ASSUME PhaseInv, NEW r \in Runs, Take(r)
  PROVE  PhaseInv'
<1>1. TypeOK'
  BY TakeTyped
<1>2. ASSUME NEW q \in Runs, q # r
      PROVE  ForegroundPhase(q)' /\ HeartbeatPhase(q)'
  BY <1>2, OthersUntouched, ForegroundFrame, HeartbeatFrame DEF PhaseInv, TypeOK
<1>3. clock' = clock
  BY DEF Take, TakeObserve, TakeReadRefused, ClaimAccepted, ClaimRejected,
         ClaimRetry, ClaimUnavailable, ClaimRefused
<1>4. \A w \in Write : Justified(w) => Justified(w)'
  BY <1>3, JustifiedStable DEF PhaseInv, TypeOK
<1>5. /\ want[r] \in Write /\ renewal[r] \in Write
      /\ tries[r] \in Tries /\ beatTries[r] \in Tries
  BY DEF PhaseInv, TypeOK
<1>6. ForegroundPhase(r) /\ HeartbeatPhase(r)
  BY DEF PhaseInv
<1>7. LateJustified'
  <2> USE <1>4, <1>5, <1>6 DEF PhaseInv, TypeOK, LateJustified
  <2>1. CASE TakeObserve(r)
    BY <2>1 DEF TakeObserve
  <2>2. CASE TakeReadRefused(r)
    BY <2>2 DEF TakeReadRefused
  <2>3. CASE ClaimAccepted(r)
    BY <2>3, PushTyped
    DEF ClaimAccepted, SendingClaim, Claiming, Justified, ForegroundPhase
  <2>4. CASE ClaimRejected(r)
    BY <2>4, PushTyped
    DEF ClaimRejected, SendingClaim, Claiming, Justified, ForegroundPhase
  <2>5. CASE ClaimRetry(r)
    BY <2>5, PushTyped
    DEF ClaimRetry, SendingClaim, Claiming, Justified, ForegroundPhase
  <2>6. CASE ClaimUnavailable(r)
    BY <2>6, PushTyped
    DEF ClaimUnavailable, Claiming, Justified, ForegroundPhase
  <2>7. CASE ClaimRefused(r)
    BY <2>7, PushTyped
    DEF ClaimRefused, SendingClaim, Claiming, Justified, ForegroundPhase
  <2> QED BY <2>1, <2>2, <2>3, <2>4, <2>5, <2>6, <2>7 DEF Take
<1>8. ForegroundPhase(r)'
  <2> USE <1>3, <1>5, <1>6 DEF PhaseInv, TypeOK, ForegroundPhase
  <2>1. CASE TakeObserve(r)
    BY <2>1, JustifiedStable, FreshRecord, SwapTyped, RecordsAreMessages
    DEF TakeObserve, Pickup, Foreground, ClaimSwap, Expired, Now
  <2>2. CASE TakeReadRefused(r)
    BY <2>2, JustifiedStable
    DEF TakeReadRefused, Disable, Pickup, Foreground, DeleteSwap
  <2>3. CASE ClaimAccepted(r)
    BY <2>3, JustifiedStable, MarkersAreNotRecords
    DEF ClaimAccepted, Rest, SendingClaim, Claiming, ClaimSwap
  <2>4. CASE ClaimRejected(r)
    BY <2>4, JustifiedStable
    DEF ClaimRejected, Rest, SendingClaim, Claiming, DeleteSwap
  <2>5. CASE ClaimRetry(r)
    BY <2>5, JustifiedStable
    DEF ClaimRetry, SendingClaim, Claiming, DeleteSwap
  <2>6. CASE ClaimUnavailable(r)
    BY <2>6, JustifiedStable DEF ClaimUnavailable, Rest, Claiming, DeleteSwap
  <2>7. CASE ClaimRefused(r)
    BY <2>7, JustifiedStable
    DEF ClaimRefused, Rest, Disable, SendingClaim, Claiming, DeleteSwap
  <2> QED BY <2>1, <2>2, <2>3, <2>4, <2>5, <2>6, <2>7 DEF Take
<1>9. HeartbeatPhase(r)'
  <2> USE <1>3, <1>5, <1>6 DEF PhaseInv, TypeOK, HeartbeatPhase
  <2>1. CASE TakeObserve(r)
    BY <2>1 DEF TakeObserve, Pickup, Foreground
  <2>2. CASE TakeReadRefused(r)
    BY <2>2 DEF TakeReadRefused, Disable, Pickup, Foreground
  <2>3. CASE ClaimAccepted(r)
    BY <2>3, MarkersAreNotRecords
    DEF ClaimAccepted, Rest, SendingClaim, Claiming, ForegroundPhase,
        ClaimSwap, Record
  <2>4. CASE ClaimRejected(r)
    BY <2>4 DEF ClaimRejected, Rest, SendingClaim, Claiming
  <2>5. CASE ClaimRetry(r)
    BY <2>5 DEF ClaimRetry, SendingClaim, Claiming
  <2>6. CASE ClaimUnavailable(r)
    BY <2>6 DEF ClaimUnavailable, Rest, Claiming
  <2>7. CASE ClaimRefused(r)
    BY <2>7 DEF ClaimRefused, Rest, Disable, SendingClaim, Claiming
  <2> QED BY <2>1, <2>2, <2>3, <2>4, <2>5, <2>6, <2>7 DEF Take
<1> QED BY <1>1, <1>2, <1>7, <1>8, <1>9 DEF PhaseInv

LEMMA FenceKeepsPhase ==
  ASSUME PhaseInv, NEW r \in Runs, Fence(r)
  PROVE  PhaseInv'
<1>1. TypeOK'
  BY FenceTyped
<1>2. ASSUME NEW q \in Runs, q # r
      PROVE  ForegroundPhase(q)' /\ HeartbeatPhase(q)'
  BY <1>2, OthersUntouched, ForegroundFrame, HeartbeatFrame DEF PhaseInv, TypeOK
<1>3. clock' = clock
  BY  DEF Fence, FenceHolds, FenceUnread, FenceLost, Lose, Unguarded, Act
<1>4. \A w \in Write : Justified(w) => Justified(w)'
  BY <1>3, JustifiedStable DEF PhaseInv, TypeOK
<1>5. /\ want[r] \in Write /\ renewal[r] \in Write
      /\ tries[r] \in Tries /\ beatTries[r] \in Tries
  BY DEF PhaseInv, TypeOK
<1>6. ForegroundPhase(r) /\ HeartbeatPhase(r)
  BY DEF PhaseInv
<1>7. LateJustified'
  <2> USE <1>4, <1>5, <1>6 DEF PhaseInv, TypeOK, LateJustified
  <2>1. CASE FenceHolds(r)
    BY <2>1 DEF FenceHolds
  <2>2. CASE FenceUnread(r)
    BY <2>2 DEF FenceUnread
  <2>3. CASE FenceLost(r)
    BY <2>3 DEF FenceLost
  <2>4. CASE Lose(r)
    BY <2>4 DEF Lose
  <2>5. CASE Unguarded(r)
    BY <2>5 DEF Unguarded
  <2>6. CASE Act(r)
    BY <2>6 DEF Act
  <2> QED BY <2>1, <2>2, <2>3, <2>4, <2>5, <2>6 DEF Fence
<1>8. ForegroundPhase(r)'
  <2> USE <1>3, <1>5, <1>6 DEF PhaseInv, TypeOK, ForegroundPhase
  <2>1. CASE FenceHolds(r)
    BY <2>1, JustifiedStable
    DEF FenceHolds, DropLostBeat, Fencing, Foreground, StopBeat, DeleteSwap
  <2>2. CASE FenceUnread(r)
    BY <2>2, JustifiedStable
    DEF FenceUnread, StopBeat, Fencing, Foreground, DeleteSwap
  <2>3. CASE FenceLost(r)
    BY <2>3, JustifiedStable
    DEF FenceLost, DropLostBeat, Fencing, Foreground, StopBeat, DeleteSwap
  <2>4. CASE Lose(r)
    BY <2>4, JustifiedStable DEF Lose, Rest, StopBeat, DeleteSwap
  <2>5. CASE Unguarded(r)
    BY <2>5, JustifiedStable DEF Unguarded, Foreground, DeleteSwap
  <2>6. CASE Act(r)
    BY <2>6, JustifiedStable DEF Act, Rest, DeleteSwap
  <2> QED BY <2>1, <2>2, <2>3, <2>4, <2>5, <2>6 DEF Fence
<1>9. HeartbeatPhase(r)'
  <2> USE <1>3, <1>5, <1>6 DEF PhaseInv, TypeOK, HeartbeatPhase
  <2>1. CASE FenceHolds(r)
    BY <2>1 DEF FenceHolds, DropLostBeat, Fencing, Foreground, StopBeat
  <2>2. CASE FenceUnread(r)
    BY <2>2 DEF FenceUnread, StopBeat, Fencing, Foreground
  <2>3. CASE FenceLost(r)
    BY <2>3 DEF FenceLost, DropLostBeat, Fencing, Foreground, StopBeat
  <2>4. CASE Lose(r)
    BY <2>4 DEF Lose, Rest, StopBeat
  <2>5. CASE Unguarded(r)
    BY <2>5 DEF Unguarded, Foreground
  <2>6. CASE Act(r)
    BY <2>6 DEF Act, Rest
  <2> QED BY <2>1, <2>2, <2>3, <2>4, <2>5, <2>6 DEF Fence
<1> QED BY <1>1, <1>2, <1>7, <1>8, <1>9 DEF PhaseInv

LEMMA ReleaseKeepsPhase ==
  ASSUME PhaseInv, NEW r \in Runs, Release(r)
  PROVE  PhaseInv'
<1>1. TypeOK'
  BY ReleaseTyped
<1>2. ASSUME NEW q \in Runs, q # r
      PROVE  ForegroundPhase(q)' /\ HeartbeatPhase(q)'
  BY <1>2, OthersUntouched, ForegroundFrame, HeartbeatFrame DEF PhaseInv, TypeOK
<1>3. clock' = clock
  BY DEF Release, ReleaseObserve, ReleaseFindsLoss, ReleaseUnread, DeleteAccepted,
         DeleteRejected, ReplayRejected, DeleteRetry, DeleteUnavailable,
         ConfirmReleased, ConfirmLost, ConfirmUnread, Releasing
<1>4. \A w \in Write : Justified(w) => Justified(w)'
  BY <1>3, JustifiedStable DEF PhaseInv, TypeOK
<1>5. /\ want[r] \in Write /\ renewal[r] \in Write
      /\ tries[r] \in Tries /\ beatTries[r] \in Tries
  BY DEF PhaseInv, TypeOK
<1>6. ForegroundPhase(r) /\ HeartbeatPhase(r)
  BY DEF PhaseInv
<1>7. LateJustified'
  <2> USE <1>4, <1>5, <1>6 DEF PhaseInv, TypeOK, LateJustified
  <2>1. CASE ReleaseObserve(r)
    BY <2>1 DEF ReleaseObserve, Releasing
  <2>2. CASE ReleaseFindsLoss(r)
    BY <2>2 DEF ReleaseFindsLoss, Releasing
  <2>3. CASE ReleaseUnread(r)
    BY <2>3 DEF ReleaseUnread, Releasing
  <2>4. CASE DeleteAccepted(r)
    BY <2>4, PushTyped
    DEF DeleteAccepted, SendingDelete, Deleting, Justified, ForegroundPhase
  <2>5. CASE DeleteRejected(r)
    BY <2>5, PushTyped
    DEF DeleteRejected, SendingDelete, Deleting, Justified, ForegroundPhase
  <2>6. CASE ReplayRejected(r)
    BY <2>6, PushTyped
    DEF ReplayRejected, SendingDelete, Deleting, Justified, ForegroundPhase
  <2>7. CASE DeleteRetry(r)
    BY <2>7, PushTyped
    DEF DeleteRetry, SendingDelete, Deleting, Justified, ForegroundPhase
  <2>8. CASE DeleteUnavailable(r)
    BY <2>8, PushTyped
    DEF DeleteUnavailable, Deleting, Justified, ForegroundPhase
  <2>9. CASE ConfirmReleased(r)
    BY <2>9 DEF ConfirmReleased
  <2>10. CASE ConfirmLost(r)
    BY <2>10 DEF ConfirmLost
  <2>11. CASE ConfirmUnread(r)
    BY <2>11 DEF ConfirmUnread
  <2> QED BY <2>1, <2>2, <2>3, <2>4, <2>5, <2>6, <2>7, <2>8, <2>9, <2>10, <2>11 DEF Release
<1>8. ForegroundPhase(r)'
  <2> USE <1>3, <1>5, <1>6 DEF PhaseInv, TypeOK, ForegroundPhase
  <2>1. CASE ReleaseObserve(r)
    BY <2>1, JustifiedStable, SwapTyped, RecordsAreMessages
    DEF ReleaseObserve, Releasing, StopBeat, Foreground, DeleteSwap, Owns
  <2>2. CASE ReleaseFindsLoss(r)
    BY <2>2, JustifiedStable
    DEF ReleaseFindsLoss, Releasing, StopBeat, Foreground, DeleteSwap
  <2>3. CASE ReleaseUnread(r)
    BY <2>3, JustifiedStable
    DEF ReleaseUnread, Releasing, StopBeat, Foreground, DeleteSwap
  <2>4. CASE DeleteAccepted(r)
    BY <2>4, JustifiedStable
    DEF DeleteAccepted, Rest, SendingDelete, Deleting, DeleteSwap
  <2>5. CASE DeleteRejected(r)
    BY <2>5, JustifiedStable
    DEF DeleteRejected, Rest, SendingDelete, Deleting, DeleteSwap
  <2>6. CASE ReplayRejected(r)
    BY <2>6, JustifiedStable
    DEF ReplayRejected, SendingDelete, Deleting, DeleteSwap
  <2>7. CASE DeleteRetry(r)
    BY <2>7, JustifiedStable
    DEF DeleteRetry, SendingDelete, Deleting, DeleteSwap
  <2>8. CASE DeleteUnavailable(r)
    BY <2>8, JustifiedStable DEF DeleteUnavailable, Rest, Deleting, DeleteSwap
  <2>9. CASE ConfirmReleased(r)
    BY <2>9, JustifiedStable DEF ConfirmReleased, Rest, DeleteSwap
  <2>10. CASE ConfirmLost(r)
    BY <2>10, JustifiedStable DEF ConfirmLost, Rest, DeleteSwap
  <2>11. CASE ConfirmUnread(r)
    BY <2>11, JustifiedStable DEF ConfirmUnread, Rest, DeleteSwap
  <2> QED BY <2>1, <2>2, <2>3, <2>4, <2>5, <2>6, <2>7, <2>8, <2>9, <2>10, <2>11 DEF Release
<1>9. HeartbeatPhase(r)'
  <2> USE <1>3, <1>5, <1>6 DEF PhaseInv, TypeOK, HeartbeatPhase
  <2>1. CASE ReleaseObserve(r)
    BY <2>1 DEF ReleaseObserve, Releasing, StopBeat, Foreground
  <2>2. CASE ReleaseFindsLoss(r)
    BY <2>2 DEF ReleaseFindsLoss, Releasing, StopBeat, Foreground
  <2>3. CASE ReleaseUnread(r)
    BY <2>3 DEF ReleaseUnread, Releasing, StopBeat, Foreground
  <2>4. CASE DeleteAccepted(r)
    BY <2>4 DEF DeleteAccepted, Rest, SendingDelete, Deleting
  <2>5. CASE DeleteRejected(r)
    BY <2>5 DEF DeleteRejected, Rest, SendingDelete, Deleting
  <2>6. CASE ReplayRejected(r)
    BY <2>6 DEF ReplayRejected, SendingDelete, Deleting
  <2>7. CASE DeleteRetry(r)
    BY <2>7 DEF DeleteRetry, SendingDelete, Deleting
  <2>8. CASE DeleteUnavailable(r)
    BY <2>8 DEF DeleteUnavailable, Rest, Deleting
  <2>9. CASE ConfirmReleased(r)
    BY <2>9 DEF ConfirmReleased, Rest
  <2>10. CASE ConfirmLost(r)
    BY <2>10 DEF ConfirmLost, Rest
  <2>11. CASE ConfirmUnread(r)
    BY <2>11 DEF ConfirmUnread, Rest
  <2> QED BY <2>1, <2>2, <2>3, <2>4, <2>5, <2>6, <2>7, <2>8, <2>9, <2>10, <2>11 DEF Release
<1> QED BY <1>1, <1>2, <1>7, <1>8, <1>9 DEF PhaseInv

LEMMA HeartbeatKeepsPhase ==
  ASSUME PhaseInv, NEW r \in Runs, Heartbeat(r)
  PROVE  PhaseInv'
<1>1. TypeOK'
  BY HeartbeatTyped
<1>2. ASSUME NEW q \in Runs, q # r
      PROVE  ForegroundPhase(q)' /\ HeartbeatPhase(q)'
  BY <1>2, OthersUntouched, ForegroundFrame, HeartbeatFrame DEF PhaseInv, TypeOK
<1>3. clock' = clock
  BY DEF Heartbeat, RenewStart, RenewAccepted, RenewRetry, RenewDeferred,
         RenewEnds, BeatGivesUp, EndRenewal
<1>4. \A w \in Write : Justified(w) => Justified(w)'
  BY <1>3, JustifiedStable DEF PhaseInv, TypeOK
<1>5. /\ want[r] \in Write /\ renewal[r] \in Write
      /\ tries[r] \in Tries /\ beatTries[r] \in Tries
  BY DEF PhaseInv, TypeOK
<1>6. ForegroundPhase(r) /\ HeartbeatPhase(r)
  BY DEF PhaseInv
<1>7. LateJustified'
  <2> USE <1>4, <1>5, <1>6 DEF PhaseInv, TypeOK, LateJustified
  <2>1. CASE RenewStart(r)
    BY <2>1 DEF RenewStart
  <2>2. CASE RenewAccepted(r)
    BY <2>2, PushTyped
    DEF RenewAccepted, EndRenewal, SendingRenewal, Renewing, Justified,
        HeartbeatPhase
  <2>3. CASE RenewRetry(r)
    BY <2>3, PushTyped
    DEF RenewRetry, SendingRenewal, Renewing, Justified, HeartbeatPhase
  <2>4. CASE RenewDeferred(r)
    BY <2>4, PushTyped
    DEF RenewDeferred, EndRenewal, Renewing, Justified, HeartbeatPhase
  <2>5. CASE RenewEnds(r)
    BY <2>5, PushTyped
    DEF RenewEnds, EndRenewal, Renewing, SendingRenewal, Justified,
        HeartbeatPhase
  <2>6. CASE BeatGivesUp(r)
    BY <2>6 DEF BeatGivesUp
  <2> QED BY <2>1, <2>2, <2>3, <2>4, <2>5, <2>6 DEF Heartbeat
<1>8. ForegroundPhase(r)'
  <2> USE <1>3, <1>5, <1>6 DEF PhaseInv, TypeOK, ForegroundPhase
  <2>1. CASE RenewStart(r)
    BY <2>1, JustifiedStable DEF RenewStart, DeleteSwap
  <2>2. CASE RenewAccepted(r)
    BY <2>2, JustifiedStable
    DEF RenewAccepted, EndRenewal, SendingRenewal, Renewing, DeleteSwap
  <2>3. CASE RenewRetry(r)
    BY <2>3, JustifiedStable
    DEF RenewRetry, SendingRenewal, Renewing, DeleteSwap
  <2>4. CASE RenewDeferred(r)
    BY <2>4, JustifiedStable
    DEF RenewDeferred, EndRenewal, Renewing, DeleteSwap
  <2>5. CASE RenewEnds(r)
    BY <2>5, JustifiedStable
    DEF RenewEnds, EndRenewal, Renewing, SendingRenewal, DeleteSwap
  <2>6. CASE BeatGivesUp(r)
    BY <2>6, JustifiedStable DEF BeatGivesUp, DeleteSwap
  <2> QED BY <2>1, <2>2, <2>3, <2>4, <2>5, <2>6 DEF Heartbeat
<1>9. HeartbeatPhase(r)'
  <2> USE <1>3, <1>5, <1>6 DEF PhaseInv, TypeOK, HeartbeatPhase
  <2>1. CASE RenewStart(r)
    <3>1. known[r] \in Record /\ known[r].owner = r /\ Now(r) \in Nat
      BY <2>1, NowIsNatural DEF RenewStart
    <3>2. known[r].hb <= Now(r)
      BY <2>1, <3>1, LeaseAssumption DEF RenewStart, Record
    <3>3. /\ renewal'[r].by = r
          /\ renewal'[r].exp = known[r]
          /\ renewal'[r].new = [known[r] EXCEPT !.hb = Now(r)]
      BY <2>1, <3>1, NewerRecord, SwapTyped, RecordsAreMessages DEF RenewStart
    <3>4. /\ [known[r] EXCEPT !.hb = Now(r)].owner = r
          /\ [known[r] EXCEPT !.hb = Now(r)].claimed = known[r].claimed
          /\ [known[r] EXCEPT !.hb = Now(r)].hb = Now(r)
      BY <2>1, <3>1 DEF RenewStart, Record
    <3>5. [known[r] EXCEPT !.hb = Now(r)] \in Record
      BY <3>1, NewerRecord
    <3>6. RenewSwap(renewal'[r])
      BY ONLY <3>1, <3>2, <3>3, <3>4, <3>5 DEF RenewSwap
    <3> QED
      BY <2>1, <3>1, <3>3, <3>6 DEF RenewStart, RenewSwap
  <2>2. CASE RenewAccepted(r)
    <3>1. /\ renewal[r].new \in Record
          /\ renewal[r].new.owner = r
          /\ renewal[r].new.claimed = known[r].claimed
          /\ renewal[r].new.hb >= known[r].hb
          /\ known[r].hb >= hold[r].hb
          /\ hold[r] \in Record
      BY <2>2 DEF RenewAccepted, SendingRenewal, Renewing, RenewSwap
    <3>2. renewal[r].new.hb >= hold[r].hb
      BY <3>1, <2>2 DEF Record, RenewAccepted, SendingRenewal, Renewing
    <3> QED
      BY <2>2, <3>1, <3>2
      DEF RenewAccepted, EndRenewal, SendingRenewal, Renewing
  <2>3. CASE RenewRetry(r)
    BY <2>3 DEF RenewRetry, SendingRenewal, Renewing
  <2>4. CASE RenewDeferred(r)
    BY <2>4 DEF RenewDeferred, EndRenewal, Renewing
  <2>5. CASE RenewEnds(r)
    BY <2>5 DEF RenewEnds, EndRenewal, Renewing, SendingRenewal
  <2>6. CASE BeatGivesUp(r)
    BY <2>6 DEF BeatGivesUp
  <2> QED BY <2>1, <2>2, <2>3, <2>4, <2>5, <2>6 DEF Heartbeat
<1> QED BY <1>1, <1>2, <1>7, <1>8, <1>9 DEF PhaseInv


LEMMA CrashKeepsPhase ==
  ASSUME PhaseInv, NEW r \in Runs, Crash(r)
  PROVE  PhaseInv'
<1>1. TypeOK'
  BY NoSwapTyped, NoTriesTyped
  DEF PhaseInv, TypeOK, Crash, StopBeat, Rest, OpKinds, BeatKinds
<1>2. ASSUME NEW q \in Runs, q # r
      PROVE  ForegroundPhase(q)' /\ HeartbeatPhase(q)'
  BY <1>2, OthersUntouched, ForegroundFrame, HeartbeatFrame DEF PhaseInv, TypeOK
<1>3. ForegroundPhase(r)' /\ HeartbeatPhase(r)'
  BY DEF PhaseInv, TypeOK, Crash, StopBeat, Rest, ForegroundPhase, HeartbeatPhase
<1>4. LateJustified'
  BY JustifiedStable DEF PhaseInv, TypeOK, LateJustified, Crash
<1> QED BY <1>1, <1>2, <1>3, <1>4 DEF PhaseInv

\* Time and the remote move; the Runs stay as they are.
LEMMA WorldKeepsPhase ==
  ASSUME PhaseInv,
         (\E w \in late : LateArrives(w)) \/ ByHand \/ Tick
  PROVE  PhaseInv'
<1>1. /\ clock' \in Nat /\ clock' >= clock
      /\ UNCHANGED <<op, want, hold, lost, disabled, heartbeat>>
      /\ late' \subseteq late
  BY DEF PhaseInv, TypeOK, LateArrives, ByHand, Operator, Tick, Pass
<1>2. TypeOK'
  <2>1. CASE \E w \in late : LateArrives(w)
    BY <2>1 DEF PhaseInv, TypeOK, LateArrives, Write
  <2>2. CASE ByHand
    BY <2>2 DEF PhaseInv, TypeOK, ByHand, Operator, Message
  <2>3. CASE Tick
    BY <2>3 DEF PhaseInv, TypeOK, Tick, Pass
  <2> QED BY <2>1, <2>2, <2>3
<1>3. ASSUME NEW q \in Runs
      PROVE  ForegroundPhase(q)' /\ HeartbeatPhase(q)'
  BY <1>1, <1>3, ForegroundFrame, HeartbeatFrame DEF PhaseInv
<1>4. LateJustified'
  BY <1>1, JustifiedStable DEF PhaseInv, TypeOK, LateJustified
<1> QED BY <1>2, <1>3, <1>4 DEF PhaseInv

LEMMA StutterKeepsPhase == ASSUME PhaseInv, UNCHANGED vars PROVE PhaseInv'
  BY DEF PhaseInv, TypeOK, vars, ForegroundPhase, HeartbeatPhase, LateJustified,
         Justified, ClaimSwap, RenewSwap, DeleteSwap, Expired, Now

LEMMA NextKeepsPhase == ASSUME PhaseInv, [Next]_vars PROVE PhaseInv'
<1>1. CASE \E r \in Runs : Take(r) \/ Fence(r) \/ Release(r) \/ Heartbeat(r)
                             \/ Crash(r)
  BY <1>1, TakeKeepsPhase, FenceKeepsPhase, ReleaseKeepsPhase,
     HeartbeatKeepsPhase, CrashKeepsPhase
<1>2. CASE (\E w \in late : LateArrives(w)) \/ ByHand \/ Tick
  BY <1>2, WorldKeepsPhase
<1>3. CASE UNCHANGED vars
  BY <1>3, StutterKeepsPhase
<1> QED BY <1>1, <1>2, <1>3 DEF Next

THEOREM PhasesHold == Spec => []PhaseInv
<1>1. Init => PhaseInv
  BY InitPhase
<1>2. PhaseInv /\ [Next]_vars => PhaseInv'
  BY NextKeepsPhase
<1> QED BY <1>1, <1>2, PTL DEF Spec

\* Every variable keeps its type: attempts stay within their bound.
THEOREM TypeCorrect == Spec => []TypeOK
<1>1. PhaseInv => TypeOK
  BY DEF PhaseInv
<1> QED BY <1>1, PhasesHold, PTL

\* Renewal never outlives its hold, nor runs beside a delete.
THEOREM NoBeatWithoutHoldHolds == Spec => []NoBeatWithoutHold
<1>1. PhaseInv => NoBeatWithoutHold
  BY DEF PhaseInv, HeartbeatPhase, ForegroundPhase, NoBeatWithoutHold
<1> QED BY <1>1, PhasesHold, PTL

-----------------------------------------------------------------------------
(* What a step does to the remote, and to the Run that takes it.           *)

\* The swap a Run has under way.
Pushing(r, w) ==
    \/ op[r] \in {"claim", "delete"} /\ w = want[r]
    \/ beat[r] = "renewing" /\ w = renewal[r]

\* The remote changes only by that swap, and only it can be left under way.
RemoteStep(r) ==
    \/ UNCHANGED <<ref, late>>
    \/ \E w \in Write :
          /\ Pushing(r, w)
          /\ ref' = ref \/ (ref = w.exp /\ ref' = w.new)
          /\ late' \subseteq late \cup {w}

\* The Run learns of no new record and starts no new swap but a renewal.
Quiet(r) ==
    /\ lastClaim' = lastClaim
    /\ hold'[r] \in {hold[r], Absent}
    /\ known'[r] \in {known[r], Absent}
    /\ op'[r] = "claim" => op[r] = "claim" /\ want'[r] = want[r]
    /\ op'[r] \in {"delete", "confirm"} =>
         op[r] \in {"delete", "confirm"} /\ want'[r] = want[r]

LEMMA PushIsRemoteStep ==
  ASSUME NEW r \in Runs, NEW w \in Write, Pushing(r, w),
         Accepted(w) \/ Stale(w) \/ Unheard(w) \/ Lands(w) \/ Unsent
           \/ (\E t \in Tries : GivesUp(t, w))
  PROVE  RemoteStep(r)
<1>1. /\ ref' = ref \/ (ref = w.exp /\ ref' = w.new)
      /\ late' \subseteq late \cup {w}
  BY DEF Accepted, Stale, Unheard, GivesUp, Lands, Unsent, Delayed, UpToDate,
         Applies
<1> QED
  BY <1>1 DEF RemoteStep

LEMMA TakeStep ==
  ASSUME PhaseInv, NEW r \in Runs, Take(r)
  PROVE  /\ RemoteStep(r)
         /\ UNCHANGED <<clock, hand>>
         /\ TakeObserve(r) \/ ClaimAccepted(r) \/ Quiet(r)
<1> USE DEF PhaseInv, TypeOK
<1>1. /\ want[r] \in Write /\ renewal[r] \in Write
      /\ tries[r] \in Tries /\ beatTries[r] \in Tries
  OBVIOUS
<1>2. RemoteStep(r) /\ UNCHANGED <<clock, hand>>
  <2>1. CASE TakeObserve(r)
    BY <2>1 DEF TakeObserve, RemoteStep
  <2>2. CASE TakeReadRefused(r)
    BY <2>2 DEF TakeReadRefused, RemoteStep
  <2>3. CASE ClaimAccepted(r)
    BY <2>3, <1>1, PushIsRemoteStep
    DEF ClaimAccepted, SendingClaim, Claiming, Pushing
  <2>4. CASE ClaimRejected(r)
    BY <2>4, <1>1, PushIsRemoteStep
    DEF ClaimRejected, SendingClaim, Claiming, Pushing
  <2>5. CASE ClaimRetry(r)
    BY <2>5, <1>1, PushIsRemoteStep
    DEF ClaimRetry, SendingClaim, Claiming, Pushing
  <2>6. CASE ClaimUnavailable(r)
    BY <2>6, <1>1, PushIsRemoteStep DEF ClaimUnavailable, Claiming, Pushing
  <2>7. CASE ClaimRefused(r)
    BY <2>7, <1>1, PushIsRemoteStep
    DEF ClaimRefused, SendingClaim, Claiming, Pushing
  <2> QED BY <2>1, <2>2, <2>3, <2>4, <2>5, <2>6, <2>7 DEF Take
<1>3. TakeObserve(r) \/ ClaimAccepted(r) \/ Quiet(r)
  <2>1. CASE TakeReadRefused(r)
    BY <2>1 DEF TakeReadRefused, Disable, Quiet
  <2>2. CASE ClaimRejected(r)
    BY <2>2 DEF ClaimRejected, Rest, SendingClaim, Claiming, Quiet
  <2>3. CASE ClaimRetry(r)
    BY <2>3 DEF ClaimRetry, SendingClaim, Claiming, Quiet
  <2>4. CASE ClaimUnavailable(r)
    BY <2>4 DEF ClaimUnavailable, Rest, Claiming, Quiet
  <2>5. CASE ClaimRefused(r)
    BY <2>5 DEF ClaimRefused, Rest, Disable, SendingClaim, Claiming, Quiet
  <2> QED BY <2>1, <2>2, <2>3, <2>4, <2>5 DEF Take
<1> QED BY <1>2, <1>3

LEMMA FenceStep ==
  ASSUME PhaseInv, NEW r \in Runs, Fence(r)
  PROVE  /\ RemoteStep(r)
         /\ UNCHANGED <<clock, hand>>
         /\ Quiet(r)
<1> USE DEF PhaseInv, TypeOK
<1>1. /\ want[r] \in Write /\ renewal[r] \in Write
      /\ tries[r] \in Tries /\ beatTries[r] \in Tries
  OBVIOUS
<1>2. RemoteStep(r) /\ UNCHANGED <<clock, hand>>
  <2>1. CASE FenceHolds(r)
    BY <2>1 DEF FenceHolds, RemoteStep
  <2>2. CASE FenceUnread(r)
    BY <2>2 DEF FenceUnread, RemoteStep
  <2>3. CASE FenceLost(r)
    BY <2>3 DEF FenceLost, RemoteStep
  <2>4. CASE Lose(r)
    BY <2>4 DEF Lose, RemoteStep
  <2>5. CASE Unguarded(r)
    BY <2>5 DEF Unguarded, RemoteStep
  <2>6. CASE Act(r)
    BY <2>6 DEF Act, RemoteStep
  <2> QED BY <2>1, <2>2, <2>3, <2>4, <2>5, <2>6 DEF Fence
<1>3. Quiet(r)
  <2>1. CASE FenceHolds(r)
    BY <2>1 DEF FenceHolds, DropLostBeat, StopBeat, Quiet
  <2>2. CASE FenceUnread(r)
    BY <2>2 DEF FenceUnread, StopBeat, Quiet
  <2>3. CASE FenceLost(r)
    BY <2>3 DEF FenceLost, DropLostBeat, StopBeat, Quiet
  <2>4. CASE Lose(r)
    BY <2>4 DEF Lose, Rest, StopBeat, Quiet
  <2>5. CASE Unguarded(r)
    BY <2>5 DEF Unguarded, Quiet
  <2>6. CASE Act(r)
    BY <2>6 DEF Act, Rest, Quiet
  <2> QED BY <2>1, <2>2, <2>3, <2>4, <2>5, <2>6 DEF Fence
<1> QED BY <1>2, <1>3

LEMMA ReleaseStep ==
  ASSUME PhaseInv, NEW r \in Runs, Release(r)
  PROVE  /\ RemoteStep(r)
         /\ UNCHANGED <<clock, hand>>
         /\ ReleaseObserve(r) \/ Quiet(r)
<1> USE DEF PhaseInv, TypeOK
<1>1. /\ want[r] \in Write /\ renewal[r] \in Write
      /\ tries[r] \in Tries /\ beatTries[r] \in Tries
  OBVIOUS
<1>2. RemoteStep(r) /\ UNCHANGED <<clock, hand>>
  <2>1. CASE ReleaseObserve(r)
    BY <2>1 DEF ReleaseObserve, Releasing, RemoteStep
  <2>2. CASE ReleaseFindsLoss(r)
    BY <2>2 DEF ReleaseFindsLoss, Releasing, RemoteStep
  <2>3. CASE ReleaseUnread(r)
    BY <2>3 DEF ReleaseUnread, Releasing, RemoteStep
  <2>4. CASE DeleteAccepted(r)
    BY <2>4, <1>1, PushIsRemoteStep
    DEF DeleteAccepted, SendingDelete, Deleting, Pushing
  <2>5. CASE DeleteRejected(r)
    BY <2>5, <1>1, PushIsRemoteStep
    DEF DeleteRejected, SendingDelete, Deleting, Pushing
  <2>6. CASE ReplayRejected(r)
    BY <2>6, <1>1, PushIsRemoteStep
    DEF ReplayRejected, SendingDelete, Deleting, Pushing
  <2>7. CASE DeleteRetry(r)
    BY <2>7, <1>1, PushIsRemoteStep
    DEF DeleteRetry, SendingDelete, Deleting, Pushing
  <2>8. CASE DeleteUnavailable(r)
    BY <2>8, <1>1, PushIsRemoteStep DEF DeleteUnavailable, Deleting, Pushing
  <2>9. CASE ConfirmReleased(r)
    BY <2>9 DEF ConfirmReleased, RemoteStep
  <2>10. CASE ConfirmLost(r)
    BY <2>10 DEF ConfirmLost, RemoteStep
  <2>11. CASE ConfirmUnread(r)
    BY <2>11 DEF ConfirmUnread, RemoteStep
  <2> QED BY <2>1, <2>2, <2>3, <2>4, <2>5, <2>6, <2>7, <2>8, <2>9, <2>10, <2>11 DEF Release
<1>3. ReleaseObserve(r) \/ Quiet(r)
  <2>1. CASE ReleaseFindsLoss(r)
    BY <2>1 DEF ReleaseFindsLoss, Releasing, StopBeat, Quiet
  <2>2. CASE ReleaseUnread(r)
    BY <2>2 DEF ReleaseUnread, Releasing, StopBeat, Quiet
  <2>3. CASE DeleteAccepted(r)
    BY <2>3 DEF DeleteAccepted, Rest, SendingDelete, Deleting, Quiet
  <2>4. CASE DeleteRejected(r)
    BY <2>4 DEF DeleteRejected, Rest, SendingDelete, Deleting, Quiet
  <2>5. CASE ReplayRejected(r)
    BY <2>5 DEF ReplayRejected, SendingDelete, Deleting, Quiet
  <2>6. CASE DeleteRetry(r)
    BY <2>6 DEF DeleteRetry, SendingDelete, Deleting, Quiet
  <2>7. CASE DeleteUnavailable(r)
    BY <2>7 DEF DeleteUnavailable, Rest, Deleting, Quiet
  <2>8. CASE ConfirmReleased(r)
    BY <2>8 DEF ConfirmReleased, Rest, Quiet
  <2>9. CASE ConfirmLost(r)
    BY <2>9 DEF ConfirmLost, Rest, Quiet
  <2>10. CASE ConfirmUnread(r)
    BY <2>10 DEF ConfirmUnread, Rest, Quiet
  <2> QED BY <2>1, <2>2, <2>3, <2>4, <2>5, <2>6, <2>7, <2>8, <2>9, <2>10 DEF Release
<1> QED BY <1>2, <1>3

LEMMA HeartbeatStep ==
  ASSUME PhaseInv, NEW r \in Runs, Heartbeat(r)
  PROVE  /\ RemoteStep(r)
         /\ UNCHANGED <<clock, hand>>
         /\ RenewAccepted(r) \/ Quiet(r)
<1> USE DEF PhaseInv, TypeOK
<1>1. /\ want[r] \in Write /\ renewal[r] \in Write
      /\ tries[r] \in Tries /\ beatTries[r] \in Tries
  OBVIOUS
<1>2. RemoteStep(r) /\ UNCHANGED <<clock, hand>>
  <2>1. CASE RenewStart(r)
    BY <2>1 DEF RenewStart, RemoteStep
  <2>2. CASE RenewAccepted(r)
    BY <2>2, <1>1, PushIsRemoteStep
    DEF RenewAccepted, EndRenewal, SendingRenewal, Renewing, Pushing
  <2>3. CASE RenewRetry(r)
    BY <2>3, <1>1, PushIsRemoteStep
    DEF RenewRetry, SendingRenewal, Renewing, Pushing
  <2>4. CASE RenewDeferred(r)
    BY <2>4, <1>1, PushIsRemoteStep
    DEF RenewDeferred, EndRenewal, Renewing, Pushing
  <2>5. CASE RenewEnds(r)
    BY <2>5, <1>1, PushIsRemoteStep
    DEF RenewEnds, EndRenewal, Renewing, SendingRenewal, Pushing
  <2>6. CASE BeatGivesUp(r)
    BY <2>6 DEF BeatGivesUp, RemoteStep
  <2> QED BY <2>1, <2>2, <2>3, <2>4, <2>5, <2>6 DEF Heartbeat
<1>3. RenewAccepted(r) \/ Quiet(r)
  <2>1. CASE RenewStart(r)
    BY <2>1 DEF RenewStart, Quiet
  <2>2. CASE RenewRetry(r)
    BY <2>2 DEF RenewRetry, SendingRenewal, Renewing, Quiet
  <2>3. CASE RenewDeferred(r)
    BY <2>3 DEF RenewDeferred, EndRenewal, Renewing, Quiet
  <2>4. CASE RenewEnds(r)
    BY <2>4 DEF RenewEnds, EndRenewal, Renewing, SendingRenewal, Quiet
  <2>5. CASE BeatGivesUp(r)
    BY <2>5 DEF BeatGivesUp, Quiet
  <2> QED BY <2>1, <2>2, <2>3, <2>4, <2>5 DEF Heartbeat
<1> QED BY <1>2, <1>3

-----------------------------------------------------------------------------
(* Claims of one Run are ordered, so an old delete cannot hit a new claim.  *)

ClaimOrder(r) ==
    /\ op[r] = "claim" => want[r].new.claimed <= lastClaim[r]
    /\ op[r] \in {"delete", "confirm"} => want[r].exp.claimed <= lastClaim[r]
    /\ hold[r] # Absent => hold[r].claimed <= lastClaim[r]
    /\ Owns(r, ref) => ref.claimed <= lastClaim[r]

LateOrder(r) ==
    \A w \in late : w.by = r =>
        /\ w.new \in Record => w.new.claimed <= lastClaim[r]
        /\ w.new = Absent =>
             /\ w.exp.claimed <= lastClaim[r]
             /\ op[r] = "claim" => w.exp.claimed < want[r].new.claimed
             /\ hold[r] # Absent => w.exp.claimed < hold[r].claimed

\* The remote still shows a Run's own claim, at least as fresh as the Run
\* knows it to be, or that Lease has run out by somebody's clock.
Overdue(m) == \E s \in Runs : Now(s) - m.hb > TTL
Shown(r) ==
    /\ Owns(r, ref)
    /\ ref.claimed = hold[r].claimed
    /\ ref.hb >= KnownHold(r).hb
Covered(r) == hold[r] # Absent => Shown(r) \/ Overdue(KnownHold(r))

LeaseInv ==
    /\ PhaseInv
    /\ \A r \in Runs : ClaimOrder(r) /\ LateOrder(r)
    /\ hand = 0 => \A r \in Runs : Covered(r)

LEMMA InitLease == Init => LeaseInv
<1>1. Init => PhaseInv
  BY InitPhase
<1>2. Init => \A r \in Runs : ClaimOrder(r) /\ LateOrder(r) /\ Covered(r)
  BY DEF Init, RegisterInit, ClaimOrder, LateOrder, Covered, Owns, IsRecord
<1> QED BY <1>1, <1>2 DEF LeaseInv

\* Facts every step of the proof below uses about what is being pushed.
LEMMA PushedSwap ==
  ASSUME PhaseInv, NEW r \in Runs, NEW w \in Write, Pushing(r, w)
  PROVE  /\ w.by = r
         /\ Justified(w)
         /\ w.new \in Record \cup {Absent}
         /\ w.new \in Record => w.new.owner = r
<1>1. CASE op[r] = "claim" /\ w = want[r]
  BY <1>1 DEF PhaseInv, ForegroundPhase, Justified, ClaimSwap
<1>2. CASE op[r] = "delete" /\ w = want[r]
  BY <1>2, MarkersAreNotRecords
  DEF PhaseInv, ForegroundPhase, Justified, DeleteSwap
<1>3. CASE beat[r] = "renewing" /\ w = renewal[r]
  BY <1>3 DEF PhaseInv, HeartbeatPhase, Justified, RenewSwap
<1> QED BY <1>1, <1>2, <1>3 DEF Pushing

\* Another Run's order of claims is not disturbed.
LEMMA OthersKeepOrder ==
  ASSUME LeaseInv, NEW r \in Runs, NEW q \in Runs, q # r,
         Take(r) \/ Fence(r) \/ Release(r) \/ Heartbeat(r) \/ Crash(r),
         RemoteStep(r)
  PROVE  ClaimOrder(q)' /\ LateOrder(q)'
<1> USE DEF LeaseInv
<1>1. /\ op'[q] = op[q] /\ want'[q] = want[q] /\ hold'[q] = hold[q]
      /\ lastClaim'[q] = lastClaim[q]
  BY OthersUntouched DEF PhaseInv
<1>2. CASE UNCHANGED <<ref, late>>
  BY <1>1, <1>2 DEF ClaimOrder, LateOrder, Owns
<1>3. ASSUME NEW w \in Write, Pushing(r, w),
             ref' = ref \/ (ref = w.exp /\ ref' = w.new),
             late' \subseteq late \cup {w}
      PROVE  ClaimOrder(q)' /\ LateOrder(q)'
  <2>1. /\ w.by = r
        /\ w.new \in Record => w.new.owner = r
        /\ w.new \in Record \cup {Absent}
    BY <1>3, PushedSwap
  <2>2. Owns(q, ref') => ref' = ref
    BY <1>3, <2>1 DEF Owns, IsRecord
  <2>3. ClaimOrder(q)'
    BY <1>1, <2>2 DEF ClaimOrder, Owns
  <2>4. LateOrder(q)'
    BY <1>1, <1>3, <2>1 DEF LateOrder
  <2> QED BY <2>3, <2>4
<1> QED BY <1>2, <1>3 DEF RemoteStep

\* Another Run's hold stays shown, or is taken only once overdue.
LEMMA OthersStayCovered ==
  ASSUME LeaseInv, NEW r \in Runs, NEW q \in Runs, q # r, hand = 0,
         Take(r) \/ Fence(r) \/ Release(r) \/ Heartbeat(r) \/ Crash(r),
         RemoteStep(r)
  PROVE  Covered(q)'
<1> USE DEF LeaseInv, PhaseInv
<1>1. /\ hold'[q] = hold[q] /\ known'[q] = known[q] /\ clock' = clock
  BY OthersUntouched
<1>2. \A m : Overdue(m)' <=> Overdue(m)
  BY <1>1 DEF Overdue, Now
<1>3. KnownHold(q)' = KnownHold(q)
  BY <1>1 DEF KnownHold
<1>4. CASE ref' = ref
  BY <1>1, <1>2, <1>3, <1>4 DEF Covered, Shown, Owns
<1>5. ASSUME NEW w \in Write, Pushing(r, w), ref = w.exp, Shown(q),
             hold[q] # Absent
      PROVE  Overdue(KnownHold(q))
  <2>1. w.by = r /\ Justified(w) /\ Owns(q, w.exp)
    BY <1>5, PushedSwap DEF Shown
  <2>2. Expired(w.exp, r) /\ w.exp \in Record
    BY <2>1, <1>5, RecordsAreMessages, MarkersAreNotRecords
    DEF Justified, ClaimSwap, RenewSwap, DeleteSwap, Owns, IsRecord, TypeOK
  <2>3. Now(r) - ref.hb > TTL
    BY <1>5, <2>2, MarkersAreNotRecords DEF Expired, Message
  <2>4. ref.hb >= KnownHold(q).hb /\ KnownHold(q) \in Record
    BY <1>5 DEF Shown, KnownHold, HeartbeatPhase, ForegroundPhase, TypeOK
  <2>5. Now(r) - KnownHold(q).hb > TTL
    BY <2>2, <2>3, <2>4, <1>5, NowIsNatural, RegisterAssumption
    DEF TypeOK, Record
  <2> QED BY <2>5 DEF Overdue
<1> QED
  BY <1>1, <1>2, <1>3, <1>4, <1>5 DEF RemoteStep, Covered

\* The Run that takes the step keeps its own claims in order.
LEMMA OwnOrder ==
  ASSUME LeaseInv, NEW r \in Runs, RemoteStep(r),
         Quiet(r) \/ TakeObserve(r) \/ ClaimAccepted(r) \/ ReleaseObserve(r)
           \/ RenewAccepted(r),
         lastClaim' \in [Runs -> Int], PhaseInv'
  PROVE  ClaimOrder(r)' /\ LateOrder(r)'
<1> USE DEF LeaseInv, PhaseInv, TypeOK
<1>1. CASE Quiet(r)
  <2>1. hold'[r] # Absent => hold'[r] = hold[r] /\ hold[r] # Absent
    BY <1>1 DEF Quiet
  <2>2. ASSUME NEW w \in Write, Pushing(r, w)
        PROVE  w.new \in Record => w.new.claimed <= lastClaim[r]
    BY <2>2, MarkersAreNotRecords
    DEF Pushing, ClaimOrder, ForegroundPhase, HeartbeatPhase, RenewSwap, DeleteSwap
  <2>3. ASSUME NEW w \in Write, Pushing(r, w), w.new = Absent
        PROVE  w.exp.claimed <= lastClaim[r] /\ op[r] = "delete"
    BY <2>3, MarkersAreNotRecords
    DEF Pushing, ClaimOrder, ForegroundPhase, HeartbeatPhase, RenewSwap, ClaimSwap
  <2>4. ClaimOrder(r)'
    BY <1>1, <2>1, <2>2, PushedSwap
    DEF Quiet, ClaimOrder, RemoteStep, Owns, IsRecord
  <2>5. LateOrder(r)'
    BY <1>1, <2>1, <2>2, <2>3
    DEF Quiet, LateOrder, RemoteStep, ForegroundPhase
  <2> QED BY <2>4, <2>5
<1>2. CASE TakeObserve(r)
  <2>1. /\ lastClaim'[r] = Now(r) /\ lastClaim[r] < Now(r) /\ Now(r) \in Nat
        /\ UNCHANGED <<ref, late, hold>> /\ hold[r] = Absent
        /\ op'[r] = "claim"
    BY <1>2, NowIsNatural DEF TakeObserve, Pickup
  <2>2. want'[r].new.claimed = Now(r)
    BY <1>2, FreshRecord, SwapTyped, RecordsAreMessages DEF TakeObserve
  <2>3. \A w \in late : w.new = Absent => w.exp \in Record
    BY MarkersAreNotRecords
    DEF LateJustified, Justified, ClaimSwap, RenewSwap, DeleteSwap
  <2>4. ClaimOrder(r)'
    BY <2>1, <2>2, RecordsAreMessages DEF ClaimOrder, Owns, IsRecord, Record
  <2>5. LateOrder(r)'
    BY <2>1, <2>2, <2>3 DEF LateOrder, Record
  <2> QED BY <2>4, <2>5
<1>3. CASE ClaimAccepted(r)
  <2>1. /\ op[r] = "claim" /\ op'[r] = "idle"
        /\ hold'[r] = want[r].new /\ lastClaim' = lastClaim
    BY <1>3 DEF ClaimAccepted, SendingClaim, Claiming, Rest
  <2>2. ref' = want[r].new /\ late' = late
    BY <1>3 DEF ClaimAccepted, Accepted, Lands, UpToDate, Unsent
  <2>3. ClaimOrder(r)'
    BY <2>1, <2>2 DEF ClaimOrder
  <2>4. LateOrder(r)'
    BY <2>1, <2>2 DEF LateOrder
  <2> QED BY <2>3, <2>4
<1>4. CASE ReleaseObserve(r)
  <2>1. /\ UNCHANGED <<ref, late, lastClaim>> /\ hold'[r] = Absent
        /\ op'[r] = "delete" /\ Owns(r, ref)
    BY <1>4 DEF ReleaseObserve, Releasing
  <2>2. want'[r].exp = ref
    BY <1>4, SwapTyped, RecordsAreMessages DEF ReleaseObserve
  <2>3. ClaimOrder(r)'
    BY <2>1, <2>2 DEF ClaimOrder
  <2>4. LateOrder(r)'
    BY <2>1, <2>2 DEF LateOrder
  <2> QED BY <2>3, <2>4
<1>5. CASE RenewAccepted(r)
  <2>1. /\ UNCHANGED <<op, want, hold, lastClaim, late>>
        /\ ref' = renewal[r].new /\ beat[r] = "renewing"
    BY <1>5 DEF RenewAccepted, SendingRenewal, Renewing, EndRenewal, Accepted,
                Lands, UpToDate, Unsent
  <2>2. renewal[r].new.claimed <= lastClaim[r]
    BY <2>1 DEF ClaimOrder, HeartbeatPhase, RenewSwap
  <2>3. ClaimOrder(r)'
    BY <2>1, <2>2 DEF ClaimOrder
  <2>4. LateOrder(r)'
    BY <2>1 DEF LateOrder
  <2> QED BY <2>3, <2>4
<1> QED BY <1>1, <1>2, <1>3, <1>4, <1>5

\* The Run that takes the step keeps its own hold shown until it is overdue.
LEMMA OwnStaysCovered ==
  ASSUME LeaseInv, NEW r \in Runs, RemoteStep(r), hand = 0, clock' = clock,
         Quiet(r) \/ TakeObserve(r) \/ ClaimAccepted(r) \/ ReleaseObserve(r)
           \/ RenewAccepted(r)
  PROVE  Covered(r)'
<1> USE DEF LeaseInv, PhaseInv, TypeOK
<1>0. \A m : Overdue(m)' <=> Overdue(m)
  BY DEF Overdue, Now
<1>1. CASE Quiet(r)
  <2> SUFFICES ASSUME hold'[r] # Absent PROVE Shown(r)' \/ Overdue(KnownHold(r)')
    BY <1>0 DEF Covered
  <2>1. hold'[r] = hold[r] /\ hold[r] # Absent /\ hold[r] \in Record
    BY <1>1 DEF Quiet, ForegroundPhase
  <2>2. /\ KnownHold(r)' \in Record /\ KnownHold(r) \in Record
        /\ KnownHold(r)'.hb <= KnownHold(r).hb
    BY <1>1, <2>1, MarkersAreNotRecords
    DEF Quiet, KnownHold, HeartbeatPhase, Record
  <2>3. CASE Overdue(KnownHold(r))
    BY <2>2, <2>3, NowIsNatural, RegisterAssumption DEF Overdue, Record
  <2>4. CASE Shown(r) /\ ref' = ref
    BY <2>1, <2>2, <2>4, RecordsAreMessages DEF Shown, Owns, Record
  <2>5. ASSUME Shown(r), NEW w \in Write, Pushing(r, w), ref = w.exp, ref' = w.new
        PROVE  Shown(r)'
    <3>1. beat[r] = "renewing" /\ w = renewal[r]
      BY <2>1, <2>5 DEF Pushing, ForegroundPhase
    <3>2. /\ w.new \in Record /\ w.new.owner = r /\ w.exp \in Record
          /\ w.new.claimed = ref.claimed /\ w.new.hb >= ref.hb
      BY <3>1, <2>5 DEF HeartbeatPhase, RenewSwap
    <3> QED
      BY <2>1, <2>2, <2>5, <3>2, RecordsAreMessages DEF Shown, Owns, Record
  <2> QED
    BY <2>1, <2>3, <2>4, <2>5 DEF RemoteStep, Covered
<1>2. CASE TakeObserve(r)
  BY <1>2 DEF TakeObserve, Pickup, Covered
<1>3. CASE ClaimAccepted(r)
  <2>1. /\ hold'[r] = want[r].new /\ known'[r] = want[r].new
        /\ want[r].new \in Record /\ want[r].new.owner = r
    BY <1>3
    DEF ClaimAccepted, SendingClaim, Claiming, ForegroundPhase, ClaimSwap
  <2>2. ref' = want[r].new
    BY <1>3 DEF ClaimAccepted, Accepted, Lands, UpToDate, Unsent
  <2> QED
    BY <2>1, <2>2, RecordsAreMessages, MarkersAreNotRecords
    DEF Covered, Shown, KnownHold, Owns, Record
<1>4. CASE ReleaseObserve(r)
  BY <1>4 DEF ReleaseObserve, Releasing, Covered
<1>5. CASE RenewAccepted(r)
  <2>1. /\ hold' = hold /\ ref' = renewal[r].new /\ beat[r] = "renewing"
        /\ known'[r] = renewal[r].new
    BY <1>5 DEF RenewAccepted, SendingRenewal, Renewing, EndRenewal, Accepted,
                Lands, UpToDate, Unsent
  <2>2. /\ renewal[r].new \in Record /\ renewal[r].new.owner = r
        /\ renewal[r].new.claimed = hold[r].claimed
    BY <2>1 DEF HeartbeatPhase, RenewSwap
  <2> QED
    BY <2>1, <2>2, RecordsAreMessages, MarkersAreNotRecords
    DEF Covered, Shown, KnownHold, Owns, Record
<1> QED BY <1>1, <1>2, <1>3, <1>4, <1>5

LEMMA CrashStep ==
  ASSUME PhaseInv, NEW r \in Runs, Crash(r)
  PROVE  RemoteStep(r) /\ Quiet(r) /\ UNCHANGED <<clock, hand>>
  BY DEF PhaseInv, TypeOK, Crash, StopBeat, Rest, RemoteStep, Quiet

\* A step of any Run, as the two lemmas above see it.
LEMMA RunStep ==
  ASSUME PhaseInv, NEW r \in Runs,
         Take(r) \/ Fence(r) \/ Release(r) \/ Heartbeat(r) \/ Crash(r)
  PROVE  /\ RemoteStep(r)
         /\ UNCHANGED <<clock, hand>>
         /\ Quiet(r) \/ TakeObserve(r) \/ ClaimAccepted(r)
              \/ ReleaseObserve(r) \/ RenewAccepted(r)
  BY TakeStep, FenceStep, ReleaseStep, HeartbeatStep, CrashStep

LEMMA RunKeepsLease ==
  ASSUME LeaseInv, NEW r \in Runs,
         Take(r) \/ Fence(r) \/ Release(r) \/ Heartbeat(r) \/ Crash(r)
  PROVE  LeaseInv'
<1>1. PhaseInv'
  BY TakeKeepsPhase, FenceKeepsPhase, ReleaseKeepsPhase, HeartbeatKeepsPhase,
     CrashKeepsPhase DEF LeaseInv
<1>2. /\ RemoteStep(r)
      /\ UNCHANGED <<clock, hand>>
      /\ Quiet(r) \/ TakeObserve(r) \/ ClaimAccepted(r)
           \/ ReleaseObserve(r) \/ RenewAccepted(r)
  BY RunStep DEF LeaseInv
<1>3. lastClaim' \in [Runs -> Int]
  BY <1>1 DEF PhaseInv, TypeOK
<1>4. \A q \in Runs : ClaimOrder(q)' /\ LateOrder(q)'
  BY <1>1, <1>2, <1>3, OwnOrder, OthersKeepOrder
<1>5. hand = 0 => \A q \in Runs : Covered(q)'
  BY <1>2, OwnStaysCovered, OthersStayCovered
<1> QED BY <1>1, <1>2, <1>4, <1>5 DEF LeaseInv

\* A late write of the holder's own finds its swap already made or refused,
\* and anyone else's needs the Lease expired.
LEMMA LateKeepsLease ==
  ASSUME LeaseInv, NEW w \in late, LateArrives(w)
  PROVE  LeaseInv'
<1> USE DEF LeaseInv, PhaseInv
<1>1. /\ UNCHANGED <<clock, hand, op, want, hold, known, lastClaim>>
      /\ late' \subseteq late
      /\ ref' = ref \/ (ref = w.exp /\ ref' = w.new)
      /\ w \in Write
  BY DEF LateArrives, Applies, TypeOK
<1>2. Justified(w)
  BY DEF LateJustified
<1>3. w.new \in Record => w.new.owner = w.by /\ w.new.claimed <= lastClaim[w.by]
  BY <1>1, <1>2, MarkersAreNotRecords
  DEF Justified, ClaimSwap, RenewSwap, DeleteSwap, LateOrder, Write
<1>4. w.new \in Record \cup {Absent}
  BY <1>2 DEF Justified, ClaimSwap, RenewSwap, DeleteSwap
<1>5. PhaseInv'
  BY WorldKeepsPhase
<1>6. ASSUME NEW q \in Runs PROVE ClaimOrder(q)' /\ LateOrder(q)'
  <2>1. ClaimOrder(q)'
    BY <1>1, <1>3, <1>4 DEF ClaimOrder, Owns, IsRecord
  <2>2. LateOrder(q)'
    BY <1>1 DEF LateOrder
  <2> QED BY <2>1, <2>2
<1>7. ASSUME NEW q \in Runs, hand = 0 PROVE Covered(q)'
  <2>1. \A m : Overdue(m)' <=> Overdue(m)
    BY <1>1 DEF Overdue, Now
  <2>2. KnownHold(q)' = KnownHold(q)
    BY <1>1 DEF KnownHold
  <2>3. CASE ~(Shown(q) /\ hold[q] # Absent) \/ ref' = ref
    BY <1>1, <1>7, <2>1, <2>2, <2>3 DEF Covered, Shown, Owns
  <2>4. CASE Shown(q) /\ hold[q] # Absent /\ ref = w.exp /\ ref' = w.new
    <3>1. /\ ref \in Record /\ KnownHold(q) \in Record
          /\ ref.owner = q /\ ref.claimed = hold[q].claimed
          /\ ref.hb >= KnownHold(q).hb
      BY <2>4, RecordsAreMessages
      DEF Shown, KnownHold, Owns, HeartbeatPhase, ForegroundPhase, TypeOK
    <3>2. CASE ClaimSwap(w)
      <4>1. Now(w.by) - ref.hb > TTL
        BY <2>4, <3>1, <3>2, MarkersAreNotRecords DEF ClaimSwap, Expired
      <4>2. Now(w.by) - KnownHold(q).hb > TTL
        BY <1>1, <3>1, <4>1, NowIsNatural, RegisterAssumption
        DEF TypeOK, Record, Write
      <4>3. Overdue(KnownHold(q))
        BY <1>1, <4>2 DEF Overdue, Write
      <4> QED BY <1>1, <2>1, <2>2, <4>3 DEF Covered
    <3>3. CASE RenewSwap(w)
      <4>1. /\ w.new \in Record /\ w.new.owner = q
            /\ w.new.claimed = hold[q].claimed
            /\ w.new.hb >= KnownHold(q).hb
        BY <2>4, <3>1, <3>3 DEF RenewSwap, Record
      <4> QED
        BY <1>1, <2>2, <2>4, <4>1, RecordsAreMessages
        DEF Covered, Shown, Owns
    <3>4. CASE DeleteSwap(w)
      <4>1. w.by = q /\ w.new = Absent
        BY <2>4, <3>1, <3>4 DEF DeleteSwap
      <4>2. w.exp.claimed < hold[q].claimed
        BY <2>4, <4>1 DEF LateOrder
      <4>3. ref.claimed \in Nat
        BY <3>1 DEF Record
      <4> QED BY <2>4, <3>1, <4>2, <4>3
    <3> QED BY <1>2, <3>2, <3>3, <3>4 DEF Justified
  <2> QED BY <1>1, <2>3, <2>4
<1> QED BY <1>1, <1>5, <1>6, <1>7

LEMMA ByHandKeepsLease == ASSUME LeaseInv, ByHand PROVE LeaseInv'
<1>1. PhaseInv'
  BY WorldKeepsPhase DEF LeaseInv
<1>2. hand' # 0
  BY DEF LeaseInv, PhaseInv, TypeOK, ByHand, Operator
<1>3. \A r \in Runs : ClaimOrder(r)' /\ LateOrder(r)'
  BY DEF LeaseInv, ByHand, Operator, ClaimOrder, LateOrder, Owns, IsRecord
<1> QED BY <1>1, <1>2, <1>3 DEF LeaseInv

LEMMA TickKeepsLease == ASSUME LeaseInv, Tick PROVE LeaseInv'
<1> USE DEF LeaseInv, PhaseInv
<1>1. PhaseInv'
  BY WorldKeepsPhase
<1>2. \A r \in Runs : ClaimOrder(r)' /\ LateOrder(r)'
  BY DEF Tick, Pass, ClaimOrder, LateOrder, Owns
<1>3. \A m \in Record : Overdue(m) => Overdue(m)'
  BY RegisterAssumption DEF Overdue, Now, Record, Tick, Pass, TypeOK
<1>4. ASSUME NEW r \in Runs, hand = 0 PROVE Covered(r)'
  <2>1. hold[r] # Absent => KnownHold(r) \in Record
    BY DEF KnownHold, TypeOK, ForegroundPhase
  <2> QED
    BY <1>3, <1>4, <2>1 DEF Covered, Shown, KnownHold, Owns, Tick, Pass
<1> QED BY <1>1, <1>2, <1>4 DEF Tick, Pass

LEMMA StutterKeepsLease == ASSUME LeaseInv, UNCHANGED vars PROVE LeaseInv'
<1>1. PhaseInv'
  BY StutterKeepsPhase DEF LeaseInv
<1>2. \A r \in Runs : ClaimOrder(r)' /\ LateOrder(r)'
  BY DEF LeaseInv, vars, ClaimOrder, LateOrder, Owns
<1>3. (hand = 0 => \A r \in Runs : Covered(r))'
  BY DEF LeaseInv, vars, Covered, Shown, KnownHold, Overdue, Owns, Now
<1> QED BY <1>1, <1>2, <1>3 DEF LeaseInv

LEMMA NextKeepsLease == ASSUME LeaseInv, [Next]_vars PROVE LeaseInv'
<1>1. CASE \E r \in Runs : Take(r) \/ Fence(r) \/ Release(r) \/ Heartbeat(r)
                             \/ Crash(r)
  BY <1>1, RunKeepsLease
<1>2. CASE \E w \in late : LateArrives(w)
  BY <1>2, LateKeepsLease
<1>3. CASE ByHand
  BY <1>3, ByHandKeepsLease
<1>4. CASE Tick
  BY <1>4, TickKeepsLease
<1>5. CASE UNCHANGED vars
  BY <1>5, StutterKeepsLease
<1> QED BY <1>1, <1>2, <1>3, <1>4, <1>5 DEF Next

THEOREM LeaseHolds == Spec => []LeaseInv
<1>1. Init => LeaseInv
  BY InitLease
<1>2. LeaseInv /\ [Next]_vars => LeaseInv'
  BY NextKeepsLease
<1> QED BY <1>1, <1>2, PTL DEF Spec

\* Whatever is delayed, lost, replayed or stolen, a Run still inside its TTL
\* (less the clocks' disagreement) is the Run the remote names.
THEOREM UnexpiredHoldIsOwnerHolds == Spec => []UnexpiredHoldIsOwner
<1>1. ASSUME LeaseInv PROVE UnexpiredHoldIsOwner
  <2> SUFFICES ASSUME hand = 0, NEW r \in Runs, hold[r] # Absent,
                      Now(r) - KnownHold(r).hb + SkewBound <= TTL
               PROVE  Owns(r, ref)
    BY DEF UnexpiredHoldIsOwner
  <2>1. KnownHold(r) \in Record /\ clock \in Nat
    BY <1>1 DEF LeaseInv, PhaseInv, TypeOK, KnownHold, ForegroundPhase
  <2>2. ASSUME NEW s \in Runs PROVE Now(s) - KnownHold(r).hb <= TTL
    BY <2>1, LeaseAssumption, RegisterAssumption DEF Now, Record
  <2>3. ~Overdue(KnownHold(r))
    BY <2>1, <2>2, NowIsNatural, RegisterAssumption DEF Overdue, Record
  <2> QED BY <1>1, <2>3 DEF LeaseInv, Covered, Shown
<1> QED BY <1>1, LeaseHolds, PTL

\* A Run known to have lost its Lease is out of the protocol for good.
THEOREM LossIsPermanentHolds == Spec => LossIsPermanent
<1>1. ASSUME PhaseInv, [Next]_vars, PhaseInv', NEW r \in Runs, lost[r]
      PROVE  /\ lost'[r] \/ ~alive'[r]
             /\ hold'[r] = Absent
             /\ op'[r] # "claim"
             /\ (op'[r] = "act" => disabled[r])
  <2> USE DEF PhaseInv, TypeOK
  <2>1. hold[r] = Absent /\ (op[r] = "idle" \/ (op[r] = "act" /\ disabled[r]))
    BY <1>1 DEF ForegroundPhase
  <2>2. ASSUME NEW q \in Runs, q # r,
               Take(q) \/ Fence(q) \/ Release(q) \/ Heartbeat(q) \/ Crash(q)
        PROVE  lost'[r] = lost[r] /\ hold'[r] = hold[r] /\ op'[r] = op[r]
    BY <1>1, <2>2, OthersUntouched
  <2>3. CASE Take(r)
    BY <1>1, <2>1, <2>3
    DEF Take, TakeObserve, TakeReadRefused, ClaimAccepted, ClaimRejected,
        ClaimRetry, ClaimUnavailable, ClaimRefused, SendingClaim, Claiming,
        Pickup
  <2>4. CASE Fence(r)
    BY <1>1, <2>1, <2>4
    DEF Fence, FenceHolds, FenceUnread, FenceLost, Lose, Unguarded, Act, Rest,
        Fencing, Foreground
  <2>5. CASE Release(r)
    BY <1>1, <2>1, <2>5
    DEF Release, ReleaseObserve, ReleaseFindsLoss, ReleaseUnread,
        DeleteAccepted, DeleteRejected, ReplayRejected, DeleteRetry,
        DeleteUnavailable, ConfirmReleased, ConfirmLost, ConfirmUnread,
        SendingDelete, Deleting, Releasing
  <2>6. CASE Heartbeat(r)
    BY <1>1, <2>1, <2>6
    DEF Heartbeat, RenewStart, RenewAccepted, RenewRetry, RenewDeferred,
        RenewEnds, BeatGivesUp, EndRenewal
  <2>7. CASE Crash(r)
    BY <1>1, <2>7 DEF Crash, Rest
  <2>8. CASE (\E w \in late : LateArrives(w)) \/ ByHand \/ Tick
    BY <1>1, <2>1, <2>8 DEF LateArrives, ByHand, Tick
  <2>9. CASE UNCHANGED vars
    BY <1>1, <2>1, <2>9 DEF vars
  <2> QED
    BY <1>1, <2>1, <2>2, <2>3, <2>4, <2>5, <2>6, <2>7, <2>8, <2>9 DEF Next
<1>2. PhaseInv /\ PhaseInv' /\ [Next]_vars =>
        [\A r \in Runs :
           lost[r] => /\ lost'[r] \/ ~alive'[r]
                      /\ hold'[r] = Absent
                      /\ op'[r] # "claim"
                      /\ (op'[r] = "act" => disabled[r])]_vars
  BY <1>1
<1> QED BY <1>2, PhasesHold, PTL DEF Spec, LossIsPermanent

-----------------------------------------------------------------------------
(* Lease implements LeaseRegister.                                         *)

\* A swap that lands is a grant, a steal, a renewal or the owner's release.
LEMMA SwapIsRegisterStep ==
  ASSUME NEW w \in Write, Justified(w), ref = w.exp, ref' = w.new,
         UNCHANGED <<clock, hand>>
  PROVE  RegisterNext
<1> DEFINE r == w.by
<1>0. r \in Runs
  BY DEF Write
<1>1. CASE ClaimSwap(w)
  <2>1. Grant(r) \/ Steal(r)
    BY <1>1 DEF ClaimSwap, Grant, Steal
  <2> QED BY <1>0, <2>1 DEF RegisterNext
<1>2. CASE RenewSwap(w)
  <2>1. ref' = [ref EXCEPT !.hb = ref'.hb]
    BY <1>2 DEF RenewSwap, Record
  <2>2. Renew(r)
    BY <1>2, <2>1, RecordsAreMessages DEF RenewSwap, Renew, Owns
  <2> QED BY <1>0, <2>2 DEF RegisterNext
<1>3. CASE DeleteSwap(w)
  <2>1. Free(r)
    BY <1>3, RecordsAreMessages DEF DeleteSwap, Free, Owns
  <2> QED BY <1>0, <2>1 DEF RegisterNext
<1> QED BY <1>1, <1>2, <1>3 DEF Justified

\* No Run, heartbeat or late write ever changes the remote in a way the
\* abstract register forbids.
THEOREM ImplementsRegisterHolds == Spec => ImplementsRegister
<1>1. Init => RegisterInit
  BY DEF Init
<1>2. ASSUME PhaseInv, [Next]_vars PROVE [RegisterNext]_regVars
  <2>1. ASSUME NEW r \in Runs,
               Take(r) \/ Fence(r) \/ Release(r) \/ Heartbeat(r) \/ Crash(r)
        PROVE  [RegisterNext]_regVars
    <3>1. RemoteStep(r) /\ UNCHANGED <<clock, hand>>
      BY <1>2, <2>1, RunStep
    <3>2. CASE ref' = ref
      BY <3>1, <3>2
    <3>3. ASSUME NEW w \in Write, Pushing(r, w), ref = w.exp, ref' = w.new
          PROVE  RegisterNext
      BY <1>2, <3>1, <3>3, PushedSwap, SwapIsRegisterStep
    <3> QED BY <3>1, <3>2, <3>3 DEF RemoteStep
  <2>2. ASSUME NEW w \in late, LateArrives(w)
        PROVE  [RegisterNext]_regVars
    <3>1. w \in Write /\ Justified(w)
      BY <1>2 DEF PhaseInv, TypeOK, LateJustified
    <3>2. CASE Applies(w)
      BY <2>2, <3>1, <3>2, SwapIsRegisterStep DEF LateArrives, Applies
    <3>3. CASE ~Applies(w)
      BY <2>2, <3>3 DEF LateArrives
    <3> QED BY <3>2, <3>3
  <2>3. CASE ByHand
    BY <2>3 DEF ByHand, RegisterNext
  <2>4. CASE Tick
    BY <2>4 DEF Tick, RegisterNext
  <2>5. CASE UNCHANGED vars
    BY <2>5 DEF vars
  <2> QED BY <1>2, <2>1, <2>2, <2>3, <2>4, <2>5 DEF Next
<1> QED BY <1>1, <1>2, PhasesHold, PTL
        DEF Spec, ImplementsRegister, RegisterSpec
-----------------------------------------------------------------------------
(* Between two Runs.                                                       *)

\* Inside its TTL by its own clock, less the clocks' disagreement.
Inside(r) ==
    hold[r] # Absent /\ Now(r) - KnownHold(r).hb + SkewBound <= TTL

\* No two Runs work one issue while both are inside their TTL, whatever their
\* clocks say and the network does (lease_lifecycle.py fence, without a read).
OneInsideItsTTL ==
    hand = 0 => \A r, s \in Runs : Inside(r) /\ Inside(s) => r = s

\* The remote names one Run only, and it names both.
THEOREM OneInsideItsTTLHolds == Spec => []OneInsideItsTTL
<1>1. UnexpiredHoldIsOwner => OneInsideItsTTL
  BY DEF UnexpiredHoldIsOwner, OneInsideItsTTL, Inside, Owns
<1> QED BY <1>1, UnexpiredHoldIsOwnerHolds, PTL

\* A Lease passes from one Run to another only when it has expired by the
\* taker's clock, also where the taking swap lands long after it was decided.
TakenOnlyExpired ==
    [][hand' = hand =>
         \A r, s \in Runs :
           r # s /\ Owns(r, ref) /\ Owns(s, ref') => Expired(ref, s)]_vars

\* Of the register's steps only a steal names another owner.
THEOREM TakenOnlyExpiredHolds == Spec => TakenOnlyExpired
<1>1. ASSUME [RegisterNext]_regVars, ref \in Message, hand' = hand, hand \in Nat,
             NEW r \in Runs, NEW s \in Runs, r # s, Owns(r, ref), Owns(s, ref')
      PROVE  Expired(ref, s)
  <2>1. ASSUME NEW q \in Runs, Grant(q) \/ Renew(q) \/ Free(q) PROVE FALSE
    <3>1. CASE Grant(q)
      BY <1>1, <3>1 DEF Grant, Owns, IsRecord
    <3>2. CASE Renew(q)
      <4>1. ref \in Record /\ ref'.owner = ref.owner
        BY <1>1, <3>2, RecordsAreMessages DEF Renew, Owns, Record
      <4> QED BY <1>1, <4>1 DEF Owns
    <3>3. CASE Free(q)
      BY <1>1, <3>3 DEF Free, Owns, IsRecord
    <3> QED BY <2>1, <3>1, <3>2, <3>3
  <2>2. ASSUME NEW q \in Runs, Steal(q) PROVE Expired(ref, s)
    BY <1>1, <2>2 DEF Steal, Owns
  <2>3. ~Operator
    BY <1>1 DEF Operator
  <2>4. ref' # ref
    BY <1>1 DEF Owns
  <2> QED BY <1>1, <2>1, <2>2, <2>3, <2>4 DEF RegisterNext, Pass
<1>2. PhaseInv /\ [RegisterNext]_regVars /\ [Next]_vars =>
        [hand' = hand =>
           \A r, s \in Runs :
             r # s /\ Owns(r, ref) /\ Owns(s, ref') => Expired(ref, s)]_vars
  BY <1>1 DEF PhaseInv, TypeOK
<1> QED BY <1>2, PhasesHold, ImplementsRegisterHolds, PTL
        DEF Spec, TakenOnlyExpired, ImplementsRegister, RegisterSpec

-----------------------------------------------------------------------------
(* What a dead Run leaves on the remote runs out.                          *)

\* The records that are, or may still become, a Run's Lease on the remote.
InPlay(r) ==
    {m \in {ref} \cup {w.new : w \in late} : m \in Record /\ m.owner = r}

\* No clock of the owner's has yet to come to what it stamped.
Stamped(r, m) == m.hb <= Now(r)

\* A process that died holds, pushes and renews nothing, and what a Run has
\* sent or is sending was stamped by its own clock.
OrphanInv ==
    \A r \in Runs :
        /\ ~alive[r] => hold[r] = Absent /\ op[r] = "idle"
        /\ \A m \in InPlay(r) : Stamped(r, m)
        /\ op[r] = "claim" => Stamped(r, want[r].new)
        /\ beat[r] = "renewing" => Stamped(r, renewal[r].new)

\* What a Run's own step does to the swaps it pushes.
StampsKept(r) ==
    /\ op'[r] = "claim" => Stamped(r, want'[r].new)
    /\ beat'[r] = "renewing" => Stamped(r, renewal'[r].new)
    /\ ~alive'[r] => hold'[r] = Absent /\ op'[r] = "idle"

LEMMA TakeStamps ==
  ASSUME PhaseInv, OrphanInv, NEW r \in Runs, Take(r)
  PROVE  StampsKept(r) /\ alive' = alive
<1> USE DEF PhaseInv, TypeOK, OrphanInv, StampsKept
<1>1. CASE TakeObserve(r)
  BY <1>1, FreshRecord, SwapTyped, NowIsNatural
  DEF TakeObserve, Pickup, Foreground, Stamped, Swap
<1>2. CASE TakeReadRefused(r)
  BY <1>2 DEF TakeReadRefused
<1>3. CASE ClaimAccepted(r)
  BY <1>3 DEF ClaimAccepted, SendingClaim, Claiming, Rest
<1>4. CASE ClaimRejected(r)
  BY <1>4 DEF ClaimRejected, Rest
<1>5. CASE ClaimRetry(r)
  BY <1>5 DEF ClaimRetry
<1>6. CASE ClaimUnavailable(r)
  BY <1>6 DEF ClaimUnavailable, Rest
<1>7. CASE ClaimRefused(r)
  BY <1>7 DEF ClaimRefused, Rest
<1> QED BY <1>1, <1>2, <1>3, <1>4, <1>5, <1>6, <1>7 DEF Take

LEMMA FenceStamps ==
  ASSUME PhaseInv, OrphanInv, NEW r \in Runs, Fence(r)
  PROVE  StampsKept(r) /\ alive' = alive
<1> USE DEF PhaseInv, TypeOK, OrphanInv, StampsKept, Rest, StopBeat, DropLostBeat
<1>1. CASE FenceHolds(r)
  BY <1>1 DEF FenceHolds, Fencing, Foreground
<1>2. CASE FenceUnread(r)
  BY <1>2 DEF FenceUnread
<1>3. CASE FenceLost(r)
  BY <1>3 DEF FenceLost, Fencing, Foreground
<1>4. CASE Lose(r)
  BY <1>4 DEF Lose
<1>5. CASE Unguarded(r)
  BY <1>5 DEF Unguarded, Foreground
<1>6. CASE Act(r)
  BY <1>6 DEF Act
<1> QED BY <1>1, <1>2, <1>3, <1>4, <1>5, <1>6 DEF Fence

LEMMA ReleaseStamps ==
  ASSUME PhaseInv, OrphanInv, NEW r \in Runs, Release(r)
  PROVE  StampsKept(r) /\ alive' = alive
<1> USE DEF PhaseInv, TypeOK, OrphanInv, StampsKept, Rest, StopBeat, Releasing, Foreground
<1>1. CASE ReleaseObserve(r)
  BY <1>1 DEF ReleaseObserve
<1>2. CASE ReleaseFindsLoss(r) \/ ReleaseUnread(r)
  BY <1>2 DEF ReleaseFindsLoss, ReleaseUnread
<1>3. CASE DeleteAccepted(r) \/ DeleteRejected(r) \/ DeleteUnavailable(r)
  BY <1>3 DEF DeleteAccepted, DeleteRejected, DeleteUnavailable
<1>4. CASE ReplayRejected(r) \/ DeleteRetry(r)
  BY <1>4 DEF ReplayRejected, DeleteRetry, SendingDelete, Deleting
<1>5. CASE ConfirmReleased(r) \/ ConfirmLost(r) \/ ConfirmUnread(r)
  BY <1>5 DEF ConfirmReleased, ConfirmLost, ConfirmUnread
<1> QED BY <1>1, <1>2, <1>3, <1>4, <1>5 DEF Release

LEMMA HeartbeatStamps ==
  ASSUME PhaseInv, OrphanInv, NEW r \in Runs, Heartbeat(r)
  PROVE  StampsKept(r) /\ alive' = alive
<1> USE DEF PhaseInv, TypeOK, OrphanInv, StampsKept, EndRenewal
<1>1. CASE RenewStart(r)
  <2>1. known[r] \in Record /\ Now(r) \in Nat
    BY <1>1, NowIsNatural DEF RenewStart, HeartbeatPhase
  <2>2. renewal'[r].new = [known[r] EXCEPT !.hb = Now(r)]
    BY <1>1 DEF RenewStart, Swap
  <2>3. Stamped(r, renewal'[r].new)
    BY <2>1, <2>2 DEF Stamped, Record
  <2> QED BY <1>1, <2>3 DEF RenewStart
<1>2. CASE RenewAccepted(r) \/ RenewDeferred(r) \/ RenewEnds(r)
  BY <1>2 DEF RenewAccepted, RenewDeferred, RenewEnds
<1>3. CASE RenewRetry(r) \/ BeatGivesUp(r)
  BY <1>3 DEF RenewRetry, SendingRenewal, Renewing, BeatGivesUp
<1> QED BY <1>1, <1>2, <1>3 DEF Heartbeat

LEMMA CrashStamps ==
  ASSUME PhaseInv, NEW r \in Runs, Crash(r)
  PROVE  StampsKept(r) /\ \A q \in Runs : q # r => alive'[q] = alive[q]
BY DEF PhaseInv, TypeOK, Crash, Rest, StopBeat, StampsKept

\* A Run adds to the records in play only of its own, and what it stamped;
\* a dead one takes no step at all.
LEMMA RunAddsStamped ==
  ASSUME PhaseInv, OrphanInv, NEW r \in Runs,
         Take(r) \/ Fence(r) \/ Release(r) \/ Heartbeat(r) \/ Crash(r)
  PROVE  \A q \in Runs :
            /\ \A m \in InPlay(q)' : m \in InPlay(q) \/ (q = r /\ Stamped(r, m))
            /\ ~alive[q] => InPlay(q)' \subseteq InPlay(q)
<1>1. RemoteStep(r)
  BY RunStep
<1>2. CASE UNCHANGED <<ref, late>>
  BY <1>2 DEF InPlay
<1>3. ASSUME NEW w \in Write, Pushing(r, w),
             ref' = ref \/ (ref = w.exp /\ ref' = w.new),
             late' \subseteq late \cup {w}, NEW q \in Runs, NEW m \in InPlay(q)'
      PROVE  m \in InPlay(q) \/ (q = r /\ Stamped(r, m) /\ alive[r])
  <2>1. /\ w.new \in Record \cup {Absent}
        /\ w.new \in Record => w.new.owner = r
    BY <1>3, PushedSwap
  <2>2. m \in InPlay(q) \/ (m = w.new /\ m \in Record /\ m.owner = q)
    BY <1>3 DEF InPlay
  <2>3. ASSUME m = w.new, m \in Record PROVE Stamped(r, m) /\ alive[r]
    <3>1. CASE op[r] = "claim" /\ w = want[r]
      BY <2>3, <3>1 DEF OrphanInv
    <3>2. CASE op[r] = "delete" /\ w = want[r]
      BY <2>3, <3>2, MarkersAreNotRecords DEF PhaseInv, ForegroundPhase, DeleteSwap
    <3>3. CASE beat[r] = "renewing" /\ w = renewal[r]
      BY <2>3, <3>3 DEF OrphanInv, PhaseInv, HeartbeatPhase
    <3> QED BY <1>3, <3>1, <3>2, <3>3 DEF Pushing
  <2> QED BY <2>1, <2>2, <2>3
<1> QED BY <1>1, <1>2, <1>3 DEF RemoteStep

\* The rest of the world adds none.
LEMMA WorldAddsNone ==
  ASSUME PhaseInv, (\E w \in late : LateArrives(w)) \/ ByHand \/ Tick \/ UNCHANGED vars
  PROVE  /\ \A q \in Runs : InPlay(q)' \subseteq InPlay(q)
         /\ UNCHANGED <<alive, op, want, hold, beat, renewal>>
         /\ clock' \in Nat /\ clock' >= clock
<1>1. ASSUME NEW w \in late, LateArrives(w)
      PROVE  \A q \in Runs : InPlay(q)' \subseteq InPlay(q)
  BY <1>1 DEF LateArrives, InPlay
<1>2. ASSUME ByHand PROVE \A q \in Runs : InPlay(q)' \subseteq InPlay(q)
  BY <1>2, MarkersAreNotRecords DEF ByHand, Operator, InPlay
<1>3. ASSUME Tick \/ UNCHANGED vars
      PROVE  \A q \in Runs : InPlay(q)' \subseteq InPlay(q)
  BY <1>3 DEF Tick, Pass, vars, InPlay
<1> QED BY <1>1, <1>2, <1>3 DEF LateArrives, ByHand, Operator, Tick, Pass, vars, PhaseInv, TypeOK

LEMMA NextKeepsOrphans ==
  ASSUME PhaseInv, PhaseInv', OrphanInv, [Next]_vars
  PROVE  /\ OrphanInv'
         /\ \A q \in Runs : ~alive[q] => ~alive'[q] /\ InPlay(q)' \subseteq InPlay(q)
<1>1. ASSUME NEW r \in Runs,
             Take(r) \/ Fence(r) \/ Release(r) \/ Heartbeat(r) \/ Crash(r)
      PROVE  /\ OrphanInv'
             /\ \A q \in Runs : ~alive[q] => ~alive'[q] /\ InPlay(q)' \subseteq InPlay(q)
  <2>1. StampsKept(r) /\ \A q \in Runs : q # r => alive'[q] = alive[q]
    BY <1>1, TakeStamps, FenceStamps, ReleaseStamps, HeartbeatStamps, CrashStamps
  <2>2. ~alive[r] => ~alive'[r]
    BY <1>1, TakeStamps, FenceStamps, ReleaseStamps, HeartbeatStamps DEF Crash
  <2>3. UNCHANGED clock /\ \A q \in Runs : \A m : Stamped(q, m)' <=> Stamped(q, m)
    BY <1>1, RunStep DEF Stamped, Now
  <2>4. \A q \in Runs : \A m \in InPlay(q)' : Stamped(q, m)
    BY <1>1, RunAddsStamped DEF OrphanInv
  <2>5. ASSUME NEW q \in Runs, q # r
        PROVE  /\ op'[q] = op[q] /\ want'[q] = want[q] /\ hold'[q] = hold[q]
               /\ beat'[q] = beat[q] /\ renewal'[q] = renewal[q]
    BY <1>1, <2>5, OthersUntouched DEF PhaseInv
  <2>6. OrphanInv'
    BY <2>1, <2>3, <2>4, <2>5 DEF OrphanInv, StampsKept, Stamped, Now
  <2> QED BY <1>1, <2>1, <2>2, <2>6, RunAddsStamped
<1>2. ASSUME (\E w \in late : LateArrives(w)) \/ ByHand \/ Tick \/ UNCHANGED vars
      PROVE  /\ OrphanInv'
             /\ \A q \in Runs : ~alive[q] => ~alive'[q] /\ InPlay(q)' \subseteq InPlay(q)
  <2>1. /\ \A q \in Runs : InPlay(q)' \subseteq InPlay(q)
        /\ UNCHANGED <<alive, op, want, hold, beat, renewal>>
        /\ clock' \in Nat /\ clock' >= clock /\ clock \in Nat
    BY <1>2, WorldAddsNone DEF PhaseInv, TypeOK
  <2>2. \A q \in Runs : \A m \in Record : Stamped(q, m) => Stamped(q, m)'
    BY <2>1, RegisterAssumption DEF Stamped, Now, Record
  <2>3. ASSUME NEW q \in Runs
        PROVE  /\ InPlay(q) \subseteq Record
               /\ op[q] = "claim" => want[q].new \in Record
               /\ beat[q] = "renewing" => renewal[q].new \in Record
    BY DEF InPlay, PhaseInv, ForegroundPhase, HeartbeatPhase, ClaimSwap, RenewSwap
  <2>4. \A q \in Runs : \A m \in InPlay(q)' : Stamped(q, m)'
    BY <2>1, <2>2, <2>3 DEF OrphanInv
  <2>5. \A q \in Runs :
          /\ op'[q] = "claim" => Stamped(q, want[q].new)'
          /\ beat'[q] = "renewing" => Stamped(q, renewal[q].new)'
    BY <2>1, <2>2, <2>3 DEF OrphanInv
  <2> QED BY <2>1, <2>4, <2>5 DEF OrphanInv, Stamped
<1> QED BY <1>1, <1>2 DEF Next

\* A dead Run is silent, and nothing it left is stamped with a time to come.
THEOREM OrphansHold == Spec => []OrphanInv
<1>1. Init => OrphanInv
  BY MarkersAreNotRecords DEF Init, RegisterInit, OrphanInv, InPlay
<1>2. PhaseInv /\ PhaseInv' /\ OrphanInv /\ [Next]_vars => OrphanInv'
  BY NextKeepsOrphans
<1> QED BY <1>1, <1>2, PhasesHold, PTL DEF Spec

\* The safety half of OrphanBecomesClaimable: once a Run is dead, its Lease is
\* claimable by every clock when a TTL and the clocks' disagreement have
\* passed, whatever renewals and claims it had under way when it died.
THEOREM OrphanRunsOut ==
  ASSUME NEW r \in Runs, NEW T \in Nat
  PROVE  Spec => [](~alive[r] /\ clock <= T =>
                      [](clock > T + TTL + SkewBound /\ Owns(r, ref) => Claimable))
<1> DEFINE Left == ~alive[r] /\ \A m \in InPlay(r) : m.hb <= T + Skew[r]
<1>1. PhaseInv /\ OrphanInv /\ ~alive[r] /\ clock <= T => Left
  BY RegisterAssumption DEF OrphanInv, Stamped, Now, InPlay, Record, PhaseInv, TypeOK
<1>2. PhaseInv /\ PhaseInv' /\ OrphanInv /\ Left /\ [Next]_vars => Left'
  BY NextKeepsOrphans
<1>3. PhaseInv /\ Left /\ clock > T + TTL + SkewBound /\ Owns(r, ref) => Claimable
  <2> SUFFICES ASSUME PhaseInv, Left, clock > T + TTL + SkewBound, Owns(r, ref),
                      NEW s \in Runs
               PROVE  Now(s) - ref.hb > TTL
    BY DEF Claimable, Expired, Owns
  <2>1. ref \in Record /\ ref.owner = r
    BY RecordsAreMessages DEF Owns, PhaseInv, TypeOK
  <2>2. ref.hb <= T + Skew[r] /\ ref.hb \in Nat
    BY <2>1 DEF InPlay, Record
  <2>3. Skew[r] - Skew[s] <= SkewBound /\ Skew[r] \in Nat /\ Skew[s] \in Nat
    BY LeaseAssumption, RegisterAssumption
  <2> QED BY <2>2, <2>3, RegisterAssumption, LeaseAssumption DEF Now, PhaseInv, TypeOK
<1> QED BY <1>1, <1>2, <1>3, PhasesHold, OrphansHold, PTL DEF Spec
=============================================================================
