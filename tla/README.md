# A verification project for git-loopy

git-loopy is a command line tool (Python, `git-loopy/python/git_loopy/`) that
works a backlog of tracker issues with coding agents. One process is a *Run*. A
Run takes issues from the tracker's Pool, works each in an agent session, runs a
gate over the result and publishes it to the base branch. Several Runs, on
several machines, may share one repository; git refs on the shared remote, the
*Leases*, are what keeps them off each other's issues. Inside a Run, *Rolling
dispatch* keeps several *Lanes* busy in parallel, each an asyncio task, and hands
their results one at a time to *Integration*, which publishes them.

The project has seven verified parts:

* **the Lease**, the protocol between Runs;
* **Rolling dispatch**, the concurrency inside a Run;
* **Publication**, how work reaches base, the upstream and the tracker, across
  crashes and restarts;
* **Sweep**, the reclaiming of what dead Runs left in a clone;
* **Account control**, one rate-limited account behind all sessions;
* **Adaptive concurrency**, the controller of the Lane limit;
* **Stop**, the requests of clients and the Run's two-stage Wind-down.

Each has a TLA+ model close to the code, TLC runs over small instances, and
theorems that TLAPS proves for every value of the constants. The theorems need
no bound on Runs, issues, Lanes, commits, faults, retries, clocks or clients,
except where an assumption named below says otherwise. Every safety property
that a run checks is proved, except where section 10 says otherwise.

| module | what it is |
|---|---|
| `LeaseRegister` | what a Lease promises, without a network (abstract) |
| `Lease`, `LeaseProofs` | the transport, lifecycle and heartbeat of several Runs on one ref |
| `RollingScheduler` | `RollingScheduler` of `rolling_scheduler.py`, method by method |
| `RollingDispatch`, `RollingProofs` | the driver, the Lane tasks, the Integration lock and the Leases around the scheduler |
| `DispatchPromise`, `DispatchProofs` | what dispatch promises per issue (abstract), and that `RollingDispatch` implements it |
| `PublicationPromise` | what publication promises, without journal, pushes or crashes (abstract) |
| `Publication`, `PublicationProofs` | the journal, base, upstream and tracker, a Run that may die at any step and its successors; `Publication` implements `PublicationPromise` |
| `Sweep`, `SweepProofs` | a clone's workspaces, branches and logs, the Runs that make them and the Sweeps that reclaim them |
| `AccountControl`, `AccountProofs` | cooldown, probe and budget, with the driver, Lanes and sessions they gate |
| `Concurrency`, `ConcurrencyProofs` | the concurrency controller, its signals and the refill it bounds |
| `Stop`, `StopProofs` | Stop clients, the request directory, the Run's latches and its sessions |
| `MCLease`, `MCRolling`, `MCPublication`, `MCSweep`, `MCAccount`, `MCConcurrency`, `MCStop` | their TLC instances |

Paths below are relative to `git-loopy/python/git_loopy/`.

## 1. Inventory

For every component: its state, its operations, whom it talks to, what is hard
about it, and what makes it correct. `PROJECT.json` names the files of each and
says how far it is modelled.

**Lease register and transport** (`issue_lease.py`).
State: one ref per issue on the remote; its commit message is the record (owner,
claimed, heartbeat). Operations: `claim`, `steal`, `renew`, `release`, `holds`,
each an observation and a compare-and-swap push that is counted and retried.
Talks to: `git.py` `push_ref`. Hard: answers get lost, pushes land after the
client gave up, clocks disagree, an operator edits refs by hand. Correct if: an
issue changes hands only by grant, by steal after expiry, or by its owner's own
release, and a Run within its TTL is the one the remote names.

**Lease lifecycle** (`lease_lifecycle.py`).
State: `_holds`, `_lost`, `_ever_held`, `_disabled`. Operations: `take`, `fence`,
`release`, `release_all`, `_lose`. Called before each single side effect by
`loop.py` (`_leased`). Hard: ownership is read in one step and used in the next;
loss must be remembered. Correct if: a Run that lost an issue never touches it
again, and a fence denies when it does not know.

**Lease heartbeat** (`lease_heartbeat.py`).
State: one thread per hold, its last acknowledged record, whether it lost.
Operations: `start`, `stop` (joins), the renewal loop. Hard: it races with the
foreground's release and with its own process's death. Correct if: it never
outlives its hold.

**Rolling scheduler** (`rolling_scheduler.py`).
State: Lanes held, provisional setups, open contributions, the Integration backlog
(high water two), the parked FIFO, retained ownership, units spent, the serial
and the Stop latch, the phase. Operations: `reserve`, `release`, `start_session`,
`finish_work`, `finish_terminal_failure`, `finalize`, `release_attempt`,
`request_serial`, `serial_turn`, `serial_finished`, `request_stop_drain`. It is
synchronous; all its interleavings are its caller's. Correct if: an issue has one
owner, units and places are never spent twice, admission is first come first
served, and serial work gets base alone and eventually.

**Rolling driver and Lane tasks** (`loop.py`, `_ParallelLoop`).
State: the pending tasks, `_capacity_freed`, `_integration_lock`, `_lane_leases`,
`_rolling_refused`, `_crash`, the exhausted latch. Operations: one turn of
`_drive_rolling`; `_run_lane_lifecycle` around `_drive_lane_lifecycle`;
`_integrate_contribution`; Stop; Run exit. Talks to everything. Hard: every await
is an interleaving point; a parked contribution has no task of its own; an
exception or a cancellation can land anywhere. Correct if: nothing is left behind
when a task ends, the driver never sleeps through work it could start, and an
idle driver means an empty pipeline.

**Rolling pool** (`rolling_pool.py`). State: a membership cache, its back-off,
quarantined reads. Operations: refresh, next candidate, terminal read. Hard: a
cached answer about the tracker, used after awaits. Correct if: it never reports a
terminal outcome its cache cannot support.

**Adaptive concurrency** (`rolling_concurrency.py`, `rolling_pressure.py`).
State: the effective limit, a window of observations, the cooldown, a healthy
streak; the count of consecutive dispatches that never started. Operations:
`observe`, `record_dispatch_failure`, `record_successful_dispatch`. Called by the
driver once per interval; bounds its refill. Hard: boundaries of windows; the
pressure it reacts to is partly of its own making. Correct if: the limit stays
within its cap, is judged only by what it produced itself, and comes back.

**Attempt ledger** (`attempt_lifecycle.py`). State: Strikes per issue. Operations:
one charge per ending. Correct if: an issue out of Strikes is not worked again.

**Serial Iteration and Pickup** (`loop.py`, `serial_pickup.py`). Works one issue
in a clone and merges it onto base itself: merge, push, reset on a failed push,
close. Hard: base must not move under it. Correct if: it has base alone, and an
issue it closes is upstream.

**Pin, order and readiness** (`issue_pin.py`, `issue_order.py`, `readiness.py`,
`sources.py`). Which issue goes first. Hard: a Pin holds a Lane while its reads
are unresolved.

**Integration stage and publication journal** (`publication.py`, `loop.py`).
State: the stage worktree, `publication.json`, base, the upstream, the issue's
tracker state. Operations: `begin`, merge, `release_intent`, the Release-line
commit, `finalized`, push, close, `complete`, and `reconcile` at the next start.
Hard: a crash between any two; an acknowledgement lost; an operator's commits on
top of a torn publication. Correct if: nothing is published twice or half, and
nothing is closed that is not published.

**Sweep** (`sweep.py`, `azure_sweep.py`, `remote_sweep.py`, `worktree.py`).
State: none that outlives it; it reads workspaces, reserved branches, control
artifacts and traces. Operations: list, ask whether a Run is dead, salvage,
remove, collect branches, retire logs. Hard: liveness is read once and used
later, beside Runs that start and end; any step may fail. Correct if: nothing of
a live Run, and no only copy of work, is removed, and the rest does go.

**Run control and Stop** (`run_control.py`, `stop_request.py`, `stopcmd.py`,
`run_discovery.py`, `attachcmd.py`). State: the control lock; one file per Stop
request; the latches drain and cancel; the trace's announcements. Operations:
`submit_stop`, its redelivery and report, the acknowledgement, the watcher's
poll, `request_stop_drain`, `request_stop_cancel`. Hard: a request is delivered
again, clients race and die, a second Stop lands at any await. Correct if: one
gesture never counts as two, and what was durably asked for happens.

**Account control** (`account_control.py`). State: open, cooldown, probing or
stopping; the probe; retries and the wait budget; the deadline. Operations:
`refuse`, `ready`, `admit`, `finished`, `interrupt`, `stop`. Called by every
session of the Run and by the driver. Hard: refusals arrive late, from sessions
that were admitted before. Correct if: one probe at a time, no provider minimum
is cut short, what is stopped stays stopped, and every episode ends.

**Detached Runs and remote control**, **sessions**, **Execution hosts**, **gate and
GitHub access**: process, network and SDK boundaries. Their answers are inputs of
the modelled actions.

**Routing and demotion**, **calibration**, **events and rollups**, **dashboard**,
**configuration**, **release and installation**, **host sleep**: sequential
bookkeeping, presentation or packaging. See section 12.

### How the modelled parts interact

    Stop client --request file--> watcher --drain, cancel--> driver, Lanes, sessions
                                                               |
    controller --limit--> driver turn --reserve--> scheduler   | admit / refuse
                              | spawns                         v
                              v                          AccountControl
    Lane task --start, finish--> scheduler
        | take / fence / release --> LeaseLifecycle --> LeaseTransport --> remote ref
        |                                               LeaseHeartbeat (thread) --^
        v
    Integration lock --> Publication (journal, base, upstream, tracker) --> finalize
                              | dies: reconciled by the next Run
                              v
    workspaces, branches, logs of dead Runs --> Sweep

Each module takes what its neighbours do as a free choice of its own: it sees
every order they could act in. `RollingDispatch` composes `RollingScheduler` with
the tasks and sees a Lease as "this Run has taken it", a publication as one of
its outcomes and the limit as any member of `Limits`. `Publication` sees the
fence as something that may refuse before every write. `AccountControl`,
`Concurrency` and `Stop` each carry the part of the driver and of the Lanes that
they interact with. `Sweep` sees a Run as what it cuts and leaves.

## 2. The Lease

### Model

`LeaseRegister` is the abstract specification: a register that names at most one
Run and changes by `Grant`, `Renew`, `Steal` (only an expired or malformed record),
`Free` (only by its owner), an operator's hand, or time.

`Lease` is the code. A Run has a foreground (`op`) and a heartbeat thread
(`beat`). `take`, `fence` and `release` are cut wherever the code talks to the
remote, so everything the rest of the world does can fall between the read and
the swap, and between two attempts of one swap.

* `take`: `TakeObserve`, then `ClaimAccepted`, `ClaimRejected`, `ClaimRetry`,
  `ClaimUnavailable` or `ClaimRefused`; `TakeReadRefused`.
* `fence`, and the write it admits: `FenceHolds`, `FenceUnread`, `FenceLost`,
  `Lose`, `Unguarded`, `Act`.
* `release`: `ReleaseObserve`, `ReleaseFindsLoss`, `ReleaseUnread`, then
  `DeleteAccepted`, `DeleteRejected`, `DeleteRetry`, `ReplayRejected`,
  `DeleteUnavailable`, and after a replay `ConfirmReleased`, `ConfirmLost`,
  `ConfirmUnread`.
* the thread: `RenewStart`, `RenewAccepted`, `RenewRetry`, `RenewDeferred`,
  `RenewEnds`, `BeatGivesUp`.
* the world: `Crash` (a restarted process is a new Run), `LateArrives`, `ByHand`,
  `Tick`.

A push lands, is stale, is found up to date, or is *unheard*. An unheard push
landed without an answer, never left, or is still under way (`late`) and will be
compared and swapped at any later moment.

Abstractions:

* A commit SHA is the record it hashes. Two claims of one Run within one clock
  unit would have the same SHA, so `Pickup` leaves that out
  (`lastClaim[r] < Now(r)`).
* Wall clocks are true time plus a fixed offset per Run. A clock that steps is
  seen as `BeatGivesUp`, which the code does when its clock goes back.
* The renewal's own deadline (capped by the TTL) is over-approximated: the thread
  may give up at any time.
* `_lose` reads the remote once more only to word its message; that read is left
  out. So are `check_suspension` and the wording of refusals.

### Runs

Deadlock checking is off in these: with time bounded by `MaxTime`, everybody may
have died.

| run | instance | shows |
|---|---|---|
| `lease_safety` | two Runs, clocks one unit apart, TTL 2, two tries, one late write, time 3, one refusable clone; 1.43 million states | `TypeOK`, `UnexpiredHoldIsOwner`, `NoBeatWithoutHold`, and `ImplementsRegister`, the refinement of `LeaseRegister` |
| `lease_crash` | one operator's edit, one refusable clone, one try, fair time 4; 317,406 states | `LossIsPermanent`, `OrphanBecomesClaimable` |

Why the bounds are enough: the interesting cases need one owner, one rival, one
expiry and one write from the past. Two Runs and a TTL of two units give a fresh
record, a record at the limit and an expired one on either clock. One late write
at a time is what fits; the theorems cover any number of them. Fairness: in
`FairSpec` only time is fair. No Run, heartbeat or network answer is required to
come, because a process may be killed or suspended at any line.

### Proofs (`LeaseProofs`)

Assumptions: `RegisterAssumption`, `MarkersAreNotRecords` and `LeaseAssumption`.
They say that TTL, tries and budget are sensible numbers and that no clock runs
more than `SkewBound` ahead of another. `Runs`, `MaxTime`, `MaxLate` and the rest
are arbitrary.

`PhaseInv` says what each foreground and heartbeat state implies about the hold
and about the swap being pushed, and that every late write is a claim, a renewal
or a delete that its author was once entitled to. It is inductive and gives
`TypeCorrect`, `NoBeatWithoutHoldHolds`, `LossIsPermanentHolds` and
`ImplementsRegisterHolds`: every step changes the ref by one justified swap or not
at all, and each kind of swap is a step of the register.

`UnexpiredHoldIsOwner` is not inductive, nor is it with `PhaseInv`: it needs to
know why an old delete of the same Run cannot hit its newer claim. `LeaseInv` adds
`ClaimOrder` and `LateOrder`, under which the claims of one Run are ordered in time
and each late delete names an older one. It also adds `Covered`: the remote still
shows the Run's claim at least as fresh as the Run knows it, or that Lease has run
out on somebody's clock.

Four more theorems say what this means between two Runs and over time.
`OneInsideItsTTLHolds`: no two Runs are inside their TTL at once, each by its own
clock less the skew, which is what lets a Run write behind a fence without
another read. `TakenOnlyExpiredHolds`: a Lease passes from one Run to another only
when it has expired by the taker's clock; this is a fact about swaps that land
late, and follows from the register. `OrphanRunsOut` is the safety half of
`OrphanBecomesClaimable`: when a TTL and the skew have passed since a Run died, its
Lease is claimable on every clock. Its invariant `OrphanInv` says that everything a
Run has on the remote or under way is stamped with a time at which it was alive.

## 3. Rolling dispatch

### Model

asyncio runs one task up to its next await. Each action is therefore what one
task does between two awaits. The driver's turn (`TurnEnds`, `TurnWaitsOut`,
`TurnDispatches`, `ReserveLane`, `ReserveEnds`, `Peek`, then `GrantSerial`,
`AwaitCapacity` or `Idle`) is a sequence of steps in which no task moves, with one
exception: a turn may have to look for Priority serial work before it reserves
(`_priority_serial_work`, awaited at `loop.py:5606`). Then `TurnDispatches` leaves
the driver in `priority`, where tasks, Stop and failures go on, and
`PriorityLooked` resumes the turn. By then it has cleared its wakeup and passed its
checks: only `reserve` and `serial_turn` look again at a Stop and at the bounds, and
nobody at a crash, so that a serial turn may still be granted behind one. Lane
tasks, the operator and the world act only while the driver is suspended
(`Suspended`).

`unclaimed` is a history variable: the room for Lanes that the last `reserve` of the
turn left unused. `NoLostWakeup` compares it with the room there is while the driver
sleeps, so it speaks of every Lane freed since the wakeup was cleared, during the
look for Priority work included. Between `reserve` and `_await_capacity` there is no
await, so the place of the clear matters only before `reserve` reads. While a host
keeps refusing (`TurnWaitsOut`, `loop.py:5549-5552`) the wakeup is not cleared at
all; the driver may then take turns that do nothing until its tasks have ended.

A *slot* stands for one reservation or Lane contribution, from `reserve` to its
terminal disposition, and is then used again. Every collection of
`RollingScheduler` is a set of slots or issues. `RollingDispatch` gives every task
a place: not begun, classifying, in its session, in its gate, ended.

* `LaneRefused`, `LaneTakesLease`, `LaneSetupFails`, `LaneStarts` are the setup.
* `SessionCloses`, `SessionAdmitted`, `SessionParked` are the endings of a
  session: given back, charged, or changed and finished into a free or a full
  backlog.
* `IntegrationEnds` is `_integrate_contribution` under the lock together with
  `finalize`. The task then goes on with the parked contribution its finalize has
  admitted, behind whoever awaits the lock already (`ContinueWith`).
* `PublicationPending`, `LaneRaises`, `LaneCancelled` are the ways out by
  exception. `LeaseNet` is the finally of `_run_lane_lifecycle`.
* `SerialEnds` is a whole serial Iteration; `Wake`, `Poll`, `ExitReclaims` are
  the driver's returns from an await.

Abstractions:

* The Pool, the Pin and Priority are a free choice: `reserve` takes any eligible
  issue or stops early, and `Idle` takes any outcome that ownership allows. The
  tracker may list all issues or none at the start, and it loses those that are
  closed.
* A session's work, the gate and a publication are their outcomes. A publication
  needs the Run's Lease, since the fence reads it.
* The concurrency policy chooses any limit in `Limits` each turn.
* The count of consecutive never-started hosts is left out here (it is in
  `Concurrency`): a given-back session may or may not be the one that exhausts it.
* The loop's own table of open contributions is identified with the scheduler's
  `open`; the code updates both between the same two awaits.
* Left out: `max_iterations = 0` (unbounded) and running without Leases. The
  second Stop, account control and Recovery sessions are in `Stop` and
  `AccountControl`.

`DispatchPromise` is the abstract specification: the Run has each issue in one
*stage* (free, setup, session, parked, backlog, done), spends units and Strikes,
and base belongs to the Lanes, to one serial Iteration, or to nobody. Its guards
are the bounds that dispatch owes: Lanes, backlog places and units; no issue out
of Strikes worked again; parking behind a full backlog only; a place that gets
free goes to a parked contribution at once; serial work only with nothing open;
nothing started after a Stop; an attempt made again only if it was charged or gave
its unit back. Slots, tasks, turns, the lock, the limit policy, Leases and the
driver's places are hidden. The mapping (`Stages`, `ChargedIssues`, `BaseOwner`) reads the
stage of an issue off the sets its slots are in. A finalize that also drains the
parked queue is one abstract step that moves two issues.

### Runs

Deadlock is checked in all of them: a Run that cannot move and is not over is an
error.

| run | instance | shows |
|---|---|---|
| `rolling_safety` | 3 issues, 2 Lanes, 3 units, 2 Strikes, limit 2; timeouts, failing setups and hosts, pending publications, breaches, a contested issue and a Stop at every await; 650,571 states | `TypeOK`, `UnitsNeverOverspent`, `PendingEmptyMeansQuiescent`, `LeaseOnlyWhileOwned`, `StopStartsNothing`, and `ImplementsPromise`, the refinement of `DispatchPromise` |
| `rolling_live` | 3 issues, 2 Lanes, 3 units, a limit that moves between 0 and 2, serial work, turns that await the Priority work, fair; 102,102 states | `SerialOwnsBaseAlone`, `NoLostWakeup`, `EveryContributionCloses`, `SerialDemandServed` |
| `rolling_lease` | 4 units, 2 Strikes, timeouts | finding: a Lane's net releases another Lane's Lease |

Why the bounds are enough: the backlog holds two, so a third contribution is the
first that parks, and two Lanes with three issues reach a full backlog with one
parked behind it while another is in setup. Two Lanes may contend for the lock
behind a third task. Three units let the cap bind before the Pool is empty; a
second Strike lets a charged issue come back while its old task is still
integrating. A limit of zero closes every Lane for a turn, as the concurrency
controller may. `rolling_safety` leaves out what `rolling_live` has, serial work in
the Pool and with it the await in the middle of a turn. With both it has 2,596,588
states and passes as well, but takes too long for a routine run; the theorems
cover it.
Two contributions parked at once take three Lanes and four issues, more than fits
beside the rest: their order is only proved.

Fairness (`FairSpec`): weak for the driver, strong for each Lane task. The event
loop runs every ready callback, and sessions, gates and serial Iterations have
time limits, so a task never stays where it is. It is strong fairness because a
task may act only while the driver is suspended, which comes and goes. A Stop, a
fault, or the operator is never required.

### Proofs (`RollingProofs`, `DispatchProofs`)

Assumptions: `IssuesAssumption` (finitely many issue numbers, none zero),
`CapAssumption`, `LimitsAssumption`, `StrikesAssumption`, `FaultsAssumption`,
`SerialAssumption`.

The inductive invariant is `DispatchInv`:

* `Ownership`: which sets each slot must be in, one owner per issue, and the owner
  of an open contribution is retained;
* `Bounds`: Lanes, backlog and units, and that something is parked only behind a
  full backlog;
* `TaskInv`: where each task stands decides what its slot is (`TaskPhase`), live
  tasks have different slots (`Separate`), and the lock's queue holds exactly the
  tasks in their gate (`Queue`);
* `DriverInv`: what holds at each place of the driver;
* `Covered`: unless the Run is ending, a slot that stands for something and is
  not parked has a live task.

No property is inductive alone. That serial work owns base alone, for instance,
needs to know that a quiescent scheduler has no live task (`TaskPhase`); that an
idle driver is a drained pipeline needs `Covered` together with the
parked-behind-a-full-backlog part of `Bounds`: no tasks, so nothing admitted, so
nothing parked.

The argument has three layers. First, one lemma per scheduler method shows that
it keeps `SchedInv`; the hard one is `finalize`, which rests on `DrainedIsFirst`:
the one place a finalize frees goes to the unique first of the parked, by turn
and issue. Second, `OtherTasks` shows that a step which touches only its own slot
and parked ones disturbs no other task; `TaskEnds` and `TaskGoesOn` then reduce
each Lane step to facts about its own slot. Third, one lemma per driver step.
`RoomToReserve` counts: fewer than `LaneCap` Lanes and `HighWater` admitted leave a
free slot and a free task.

Proved besides the properties of the runs: `LaneAccountingHolds`, that a Lane is
counted exactly while something stands for it, and `AdmissionIsFIFOHolds`, that
parked contributions are admitted by turn and then by issue whatever order their
tasks ran in. `OneOwner`, one owner per issue, is proved too; a run need not check
it, since every state of the promise has it by its form.

Three theorems are the safety half of `EveryContributionCloses`. `NobodyIsStuckHolds`:
whenever the driver waits for tasks there are some, and one of them can go on, since
the lock's owner is always there (`LockIsOwned`); this is deadlock freedom, said with
guards in place of ENABLED. `ParkedIsServedHolds`: while something is parked, the
owner of the lock is at work on a contribution ahead of it, for the backlog is full
then and `Covered` gives each of its contributions a task. `FirstMovesUpHolds`: every
integration moves up exactly the first of the parked. A publication that raises moves
one up as well, but nobody integrates that one: the Run is ending then, and its exit
closes it.

`ImplementsPromiseHolds` is the refinement, for any issues, Lane cap, limits, units,
Strikes and faults. `KeptInv` adds two facts to `DispatchInv` that only the mapping
needs: a contribution that was charged has left its session (`ChargedIsFinished`;
otherwise the abstract charge would come too early), and no issue is in setup
that the scheduler still retains for an earlier attempt (`SetupIsUnworked`;
otherwise it would have two stages at once). The argument:

* reading: `StagesRead` says, for each stage, what it means that an issue is in it;
  it rests on one owner per issue, so that no two slots disagree;
* moving: `OneMoves` and `OthersStay` reduce a step that touches one slot to the
  stage of its issue; `SameStages` makes the driver's and most of a task's steps
  stutters; `FinalizeKeeps` is the one step that moves two, and uses `DrainedIsFirst`;
* counting: `PromiseBounds` turns the abstract guards, which count issues, into
  the concrete ones, which count slots: `ref` is one-to-one on the slots that
  stand for something, so a Lane, a unit or a place in the backlog that is free
  below is free above;
* ending: `SerialStartKeeps` and `ExitKeeps` need that no task is left, or that what
  is left is closed on the spot.

## 4. Publication

### Model

Base is the sequence of its first-parent commits; a SHA is an index in it.
`remote` is how much of base the upstream contains, `foreign` that it also has
commits base lacks. `journal` is `publication.json` with the fields of
`PendingPublication` that reconciliation reads; `pc` is what the Run does next,
and `"down"` when no Run is alive. One contribution is integrated at a time
(section 3 shows that), so one `pc` is enough.

* A Lane's verified stage: `Stage`, `Withhold`, `Begin`, `Merge`, `MergeNothing`,
  `MergeFails`, `ReleaseIntent`, `ReleaseCommit`, `ReleaseFails`, `Finalized`,
  `Push`, `PushFails`, `Close`, `CloseFails`, `Complete`, in the order of
  `_land_lane` and `PublicationJournal`.
* A serial Iteration on the same base, without a journal: `SerialMerge`,
  `SerialPush`, `SerialKeep`, `SerialReset`, then the same close.
* The next Run's reconciliation: `Start` with `FinalOf` (`_final`), `Mark`,
  `RecoveryPush`, `RecoveryPushFails`, `Prove`, `RecoveryClose`,
  `RecoveryRefused`, `RecoveryComplete`.
* The world: `Crash` anywhere, inside git with what that leaves of base (`TornBy`);
  an operator who cleans base, dirties it or commits to it, with or without a Run;
  an upstream that moves; an issue that somebody else closes; a push that lands
  while its acknowledgement is lost.

`tree` is the base checkout: clean, dirty, or in the middle of a merge. Only a merge
stops every start; a dirty base stops the start that finds a record, for it is the
record that leads to the checks of base (`publication.py:208`). A serial merge
takes a dirty base, as git does when the edits are elsewhere.

`PublicationPromise` is what all of this is for: an issue's work is private, then
landed, then durable, then closed, and one landing at a time is still torn. The
mapping `Published` reads it off base, upstream and tracker; the journal, the
labels and the restarts are hidden.

Abstractions: identity checks that nothing here can falsify (repository, branch
and upstream names) hold; a tree is what produced it; Azure trackers are left out.

### Run

`publication_crash`: two issues, of which one closes and advances the Release
line, four commits, three faults, an upstream; 73,202 states. `TypeOK`,
`ClosedIsDurable`, `TornIsJournaled`, `LandsOnce`, `NothingRidesAlong`,
`PendingFinishes` and `KeepsPromise` (the refinement). One issue with everything
and one with nothing give every shape of a record; four commits hold a landing
with its Release line and a second publication on top; three faults hold a lost
acknowledgement, the crash after it and a world that moves in between. Deadlock
checking is off: a record that only an operator may resolve stops everything once
base has no more room.

Fairness (`FairSpec`): a live Run's steps go on, an operator whose Run ended
starts another one and cleans what a refused start told them to inspect. Without
an operator nothing promises another Run; with one, `PendingFinishes` says that a
record whose evidence is complete is retired, by the Run that made it or a later
one, unless one more fault happens first: a crash, a refusal, a failed call or an
edit. The Run's own mark does not count as one: what a Run announces it pushes, and
what it pushed it closes. A crash between the mark and the push
(`publication.py:233-234`) does count. The record then says that a push was
attempted, and every later start refuses it (section 9): the code prefers one push
too few to one too many, which is `RepushesOnceHolds`.

### Proofs (`PublicationProofs`)

Assumptions: `PublicationAssumption` and `NoJournalAssumption` (the missing file
is not a record). Issues, commits and faults are any number; the upstream may be
there or not.

None of the properties is inductive. `PublicationInv` adds which step of the Run
the pending record belongs to (`RecordInv`), which commit of base it names so far
(`MergedInv`), that what is marked for a recovery push is the whole recorded
publication (`MarkedInv`), where durability and closure are already proved
(`DurableInv`), and that a finishing landing is pending or its issue closed
(`FinishedInv`). The last one is why `LandsOnce` holds: only open issues are
staged, and an issue that has landed is open only while its record is pending,
behind which nothing starts. A lemma per action says what it does to base and
record; a lemma per conjunct goes through them.

`KeepsPromiseHolds` is the refinement. It needs one more invariant, `TornIsOpen`:
a torn landing is of an issue no Run has closed; without it a late close would
take `landed` to `closed` past `durable`. Steps fall into those that leave the
mapped view alone (`SameViewOwes`), those that only add to the upstream
(`PersistingOwes`), the landing (`MergeOwes`), the close (`CloseOwes`) and the
reset of a serial merge, which takes away only what was never mapped
(`ResetOwes`).

Three more results are about the record and what it leaves behind. `WholeInv` says
that each step of a recorded publication finds on base what the steps before it put
there, across refusals and restarts. With it, `RecordIsPaidHolds`: a record leaves
the journal only when nothing was merged under it, or when everything it names is
upstream and the close it owes is made, so that no crash or restart makes a debt
disappear. `ClosedIsWholeHolds`: an issue of the Release line that a Run closed has
both its commits upstream. `DurabilityIsForeverHolds`: what is upstream stays there.

## 5. Sweep

### Model

A Run holds the lock of its control artifact, in the worktree it was started in;
the workspaces and reserved branches it cuts belong to the whole clone. `run`,
`files`, `ended` are Runs; `ws`, `tip`, `landed`, `ref` are workspaces and
branches; `pc`, `dirs`, `todo`, `memo`, `withheld` are a Sweep's local state.

* Runs: `StartRun`, `Cut`, `Prepared`, `Edit`, `CommitWork`, `Publish`,
  `OwnSalvage`, `OwnReclaim`, `DiscardStage`, `DeletePublished`, `EndRun`
  (an exit or a kill), `CloseIssue`.
* A Sweep: `BeginSweep` lists everything once; `Ask` is the liveness oracle, asked
  once per Run and remembered; `Rescue`, `Remove`, `RemoveFails`; `Collect`,
  `LeaveBranch`; `RetireTrace`, `RetireControl`, `KeepLog`; `EndSweep`,
  `SweepDies`. Between any two of them Runs start, work, end and are killed.

Left out: empty directories, dry runs, symbolic links, Azure and remote Sweeps.

### Runs

| run | instance | shows |
|---|---|---|
| `sweep` | two Runs of two worktrees, a Lane and a stage, one Sweep, no log kept, one failure or kill; 236,226 states | `LiveUntouched`, `UnseenWorkSurvives`, `OpenIssueKeepsWork`, `ResidueGoes`, `RetentionCompletes` |
| `sweep_listing` | the one failure is git's listing of worktrees | finding: a live Run is taken for dead |

A Lane is a clone and a stage a worktree, so both ways of removal occur; a Run in
the other worktree is what the oracle must still see; one failure reaches every
error path, and the property says what a second Sweep makes of it. Fairness: a
Sweep goes on and another one follows, since every Run begins with one.

### Proofs (`SweepProofs`)

Assumption: `SweepAssumption`. Any number of Runs, worktrees, Sweeps at once and
failures; stages in worktrees or in clones. `ResidueInv` (types, and that a clone
in preparation has no branch) gives `UnseenWorkSurvivesHolds` and
`OpenIssueKeepsWorkHolds`, also where a Run was wrongly taken for dead. `LiveInv`
says why one reading is enough: what was listed of a Run means that it had started
(`BornInv`, `ListedInv`), a Run that has ended stays so (`RunInv`), hence what was
read of its death stays true, unless the Run lives where the Sweep did not look
(`ReadInv`). `LiveUntouchedHolds` assumes that listing worktrees does not fail, which
is what `sweep_listing` shows to be needed. `OwnWorktreeSparedHolds` drops the
assumption and says how far the damage of that finding can go: whatever fails, a
Sweep touches no live Run of its own worktree.

## 6. Account control

### Model

`state`, `probeActive`, `retries`, `wait`, `left`, `error` and `interrupted` are
the fields of `AccountControl`; `floor` is the latest minimum a provider has
named, kept only to state a property. `Refuse` with `Begin` and `Extend`,
`Admits`, `Finished` are its methods. Around them: sessions (`Reports`, `Ends`,
`Fails`), the preparation pass (`Prepare`), Lanes (`Bind`, `Dispatch`, `Recover`,
`Integrated`), the driver (`Check`, `Reserve`, `Sleep`, `Wake`, `Refused`, `Finish`), time
(`Tick`) and an operator's Stop. A session may report a refusal at any moment of
its life, also one that was admitted before the cooldown. Time is counted in the
fallback of the first cooldown; the second one's is twice as long.

The driver looks at the account in `Check` (`loop.py:5558`) and reserves in
`Reserve` (5612, 5628), which reads the state again only for the limit of one while
probing; a refusal or a Stop may come at the await in between (5606). Lanes reserved
behind it are let go at the binding step (`Bind`). `left` runs on below zero while
a cooldown is overslept, because an extension is counted from the old deadline
(`account_control.py:134`) and charges the overrun as well; below `-Budget` no
extension can be paid for, so it is not counted further (`Overrun`).

### Run

`account`: two Lanes and the preparation pass, two retries, a budget of four
units, delays missing, invalid or two units, four units of work and four
candidates; 532,572 states. `TypeOK`, `ProbeIsAlone`, `NeverRetriedEarly`,
`AdmissionStaysClosed`, `EpisodeEnds`. The delay is longer than the first fallback
and as long as the second, the budget pays for two cooldowns or for one and an
extension that was overslept by one unit but not by two, and a second episode may
find the budget spent exactly, so every branch of `refuse` is taken. Fairness: the
event loop runs what can run, a
session ends (it has a time limit), time passes. No refusal, Stop or success is
required.

### Proofs (`AccountProofs`)

Assumption: `AccountAssumption`. Any number of Lanes, retries, units, candidates,
any budget and delays. The inductive invariant `Inv` is `AccountInv` (`Budgeted`:
a cooldown was paid for with a retry still there and out of the budget; `Slept`:
a provider's minimum that has not passed is either still being slept or the end of
admission), `SessionInv` (where the probe is, every other Lane is free, from its
reservation until it has ended) and `WorkInv`. `ProbeIsAlone` needs that a probing
account has at most one Lane that is not free; that in turn needs that the driver
sleeps only with nothing pending, and that nothing is pending either while it awaits
the Priority work of a probing turn.

`EpisodesAreBudgetedHolds` is the safety half of `EpisodeEnds`: the sum of what a Run
is still waiting and what it may wait never grows, every cooldown that begins
takes something off the budget, and a session becomes the probe for a retry only.
Nothing refills either, so there are finitely many of both.

## 7. Adaptive concurrency

### Model

`limit`, `window`, `since`, `streak` are the controller; `Observe` is one whole
`observe`: the new sample, `Contracts` with its four rules, `Recovers` with its
ceiling, and `Change`, which forgets the evidence. `failures` and `exhausted` are
`HostSetupPressure` and the driver's latch; a dispatch that never started feeds
the controller as host pressure. `Reserve` is the refill the limit bounds;
`Delivers`, `NeverStarts`, `EndsEarly`, `Finalize` are what becomes of a
contribution; `Settles` is a calm environment. Ratios are percentages; a reading
is a number or unknown.

### Runs

| run | instance | shows |
|---|---|---|
| `concurrency` | cap 3, safe limit 2, windows of 2, cooldown 1, streaks of 3, pressure from 2 failed dispatches, end at 3 (15 in the code), two issues; 238,710 states | `TypeOK`, `EvidenceIsCurrent`, `ZeroRecovers` |
| `concurrency_zero` | the same | finding: a limit of zero is not always left |

Each signal over its budget, all calm and all unknown are the readings; a window
of two has every mixture of them; the streak is longer than the window and the
cooldown, as in the code. Fairness: intervals elapse, the driver's turn comes,
dispatched work comes back; that the environment calms down is a hypothesis
(`settled`), not fairness.

### Proofs (`ConcurrencyProofs`)

Assumption: `ConcurrencyAssumption`. Any cap, window, cooldown, streak and
readings. `ConcurrencyInv` is `TypeOK` with `Bounded` (an issue that is offered
again is one of those there were) and `EvidenceIsCurrent`. That the limit of a Run
which could not see its host stays within the safe limit rests on `Ceiling`, and
that Lanes stay within the cap although the limit may fall below what is held
rests on `Refillable` being zero then. `LimitNeverFlapsHolds`: in any environment two
changes of the limit are a cooldown apart, a fall is by two at most and waits until
the last one has drained, and a rise is by one after a healthy streak of this limit.

## 8. Stop

### Model

`Submit`, `WriteFails`, `Link`, `Replace`, `Report`, `Acknowledge`, `Dies` are a
client's `submit_stop`, its retries and its wait, cut wherever it touches the
directory. `Poll` is one tick of `watch_client_stops`, `RequestDrain` and
`RequestCancel` the Run's latches with `_announce_wind_down`. The Lanes
(`Reserve`, `Bind`, `Dispatch`, `Start`, `WorkerEnds`, `Integrate`,
`StartRecovery`, `RecoveryEnds`, `Salvaged`) are the places a cancellation can
find: a session that is opening is not yet retained and is looked at again when
it has opened; a Recovery session is not. `external` says that Lanes work on an
external Execution host: their session (`remote`) is awaited at `loop.py:6931`
outside `_await_agent`, so it is not among `Active` and a cancellation does not
reach it. `Finish` announces the iteration cap where it ended the Run; what is open
then is reclaimed in the same step, as the exit path does it without an await
(`loop.py:5886-5901`, 7531).

### Run

`stop`: three clients of which two deliver one request, one Lane, one unit, one
Recovery attempt, four readings of the clock, with and without an external host;
316,019 states. `OneLogicalStop`,
`NothingWorksAfterCancel`, `StopArrives`, `CancelEnds`. Two identities are what
the two stages need, two clients of one identity are redelivery; a Lane takes
every stage, and the latches treat Lanes alike. Fairness: the watcher ticks, what
is between sessions goes on, a driver that may only finish does. Clients and
sessions owe nothing, so `CancelEnds` shows that no session is waited for but the
two it names: a Recovery session that started behind the cancellation, and one on an
external host. `NothingWorksAfterCancel` speaks of the sessions the Run opens itself.

### Proofs (`StopProofs`)

Assumption: `StopAssumption`. Any number of clients, identities, Lanes, units and
readings of the clock. `StopInv` adds to the two safety properties the types
(`Clocks`) and `Timed`: a client writes only a time it has read, so a link always
makes a request and requests only accumulate (`RequestsAreDurableHolds`).

`TraceInv` ties what the Run announces to what it has latched: a drain, then a
cancellation, and the cap only where it was never stopped. `ToldIsAskedHolds` and
`AcknowledgedIsLatchedHolds` are the safety half of `StopArrives`, at both ends of a
request: a stage that a client was told of is backed by durable requests, and a
client that leaves acknowledged leaves a Run that has latched it.

## 9. Findings

Three runs show the code doing otherwise than its own text says. `PROJECT.json`
quotes the text.

1. `rolling_lease`: `loop.py` `_run_lane_lifecycle` says its net frees its own
   issue and nobody else's. When a charged contribution has given its issue up, a
   new Lane has taken it, and the old task is still integrating parked work, the
   net releases the new Lane's Lease.
2. `sweep_listing`: `sweep.py` `_control_dirs` and `_liveness_by_run` promise that
   a failure is *unknown* and preserves. When git cannot list worktrees, an empty
   list is used instead, and a Run that lives in another worktree is taken for
   dead; its clone is listed all the same and removed.
3. `concurrency_zero`: a test says a limit of zero recovers through the same
   healthy rule. Two dispatches that never started hold host pressure up; at zero
   nothing is dispatched that could clear them or exhaust them, and the Run polls
   without end. `ZeroRecovers` of the passing run states what does hold.

### Observations

What the models also reach, without a run of its own:

* `issue_lease.py` `release` answers "released" after a replayed delete whenever
  the ref is absent, also when a rival stole and freed it in between
  (`ConfirmReleased`).
* `lease_lifecycle.py` `_disabled` survives a take that succeeds after a refused
  one; the Run then works unfenced (`Unguarded`).
* A fence and the write it admits are two steps; a theft may fall between them
  (`FenceHolds`, `Act`).
* `rolling_scheduler.py` `refillable` withholds a unit for each held Lane, also
  for those whose session has spent its unit already, so a free unit may wait.
* A stage branch that an interrupted Recovery retains is deleted by the next
  Sweep: `_is_resolved` answers yes for every stage (`sweep.py:484`), while
  `docs/wrapper-contract.md:3398` promises it stays.
* Two operators who stop a Run together may both be told that they asked for a
  drain, since each reads its stage after both have linked with times read before
  (`Report`).
* A Recovery session that is opening when the second Stop arrives is not looked at
  again, as a worker's session is (`StartRecovery`); it runs to its own end.
* The second Stop does not reach a contribution on an external Execution host
  (`remote`): `loop.py:6931` does not retain it, and `github_actions_host.py` never
  asks the service to cancel a job. The Run waits until the job ends, by its own cap
  after six hours (`github_actions_host.py:132`), and integrates it. ADR-0043 (26-27
  and 71-94, "Why cancellation adds no Execution-host obligation") and
  `docs/wrapper-contract.md:933-934` say that the second Stop cancels it.
* A crash between the mark of a recovery push and the push itself leaves a record
  that no later start resolves (`Mark`, `Crash`; `publication.py:224`): the operator
  has to look at the upstream, as the message says.
* A serial push that fails resets base with `reset --hard` (`loop.py:2696`), which
  also takes an operator's uncommitted edits to tracked files (`SerialReset`).
* A serial turn may be granted, and a Lane reserved, after a Lane task has failed, if
  it fails while the driver awaits the Priority work (`PriorityLooked`); the crash is
  found on the turn after that.
* The controller announces a change from zero to zero, and starts a cooldown with
  it (`Contracts` at `limit = 0`).
* A refusal from a session admitted earlier, arriving while the probe is under
  way, begins another cooldown and so costs a retry of its own (`Reports` in
  `probing`).

## 10. What is only model-checked

All liveness: `OrphanBecomesClaimable`, `EveryContributionCloses`,
`SerialDemandServed`, `PendingFinishes`, `ResidueGoes`, `RetentionCompletes`,
`EpisodeEnds`, `ZeroRecovers`, `StopArrives`, `CancelEnds`. The prover has no
rules for fairness and ENABLED. Where a part of such a property is safety, that part
is proved for every value of the constants, and no property of a run states it:

| liveness | what is proved of it |
|---|---|
| `OrphanBecomesClaimable` | `OrphanRunsOut`: claimable as soon as the time has passed; that time passes is fairness |
| `EveryContributionCloses` | `NobodyIsStuckHolds`, `ParkedIsServedHolds`, `FirstMovesUpHolds`: what is parked is served, in order; that sessions and gates end is fairness |
| `RetentionCompletes` | `ProofGoesLastHolds` (`SweepProofs`): a trace never outlives what proves its Run dead |
| `PendingFinishes` | `RecordIsPaidHolds`: a record that goes has been paid; `RepushesOnceHolds`: and pushed at most once more |
| `EpisodeEnds` | `EpisodesAreBudgetedHolds`: finitely many cooldowns and probes |
| `ZeroRecovers` | `LimitNeverFlapsHolds`: a rise needs a full healthy streak, and no other change follows it within the cooldown |
| `StopArrives` | `ToldIsAskedHolds`, `AcknowledgedIsLatchedHolds` |

The three findings are counterexamples of TLC. Every safety property of a passing
run has its theorem.

## 11. Assumptions shared by all parts

git's compare-and-swap, ancestry and locks do what they say. One Run writes base
at a time in one checkout. asyncio switches tasks at awaits only. A file that was
replaced and synced is there after a crash. Outcomes that come from outside (a
session's work, a gate's verdict, a tracker's answer, a provider's refusal) are
free choices, never assumed to be good.

## 12. Not modelled

* *Rolling pool, Pin and order*: selection over cached tracker reads. Their
  effect on dispatch is over-approximated by free choices in `RollingDispatch`,
  so its safety does not depend on them; what the terminal read may conclude from
  a cache is not covered.
* *Detached Runs, remote control, following a trace*: process spawning and shells
  around the control lock; what they decide is read-only.
* *Sessions, Execution hosts, the gate, GitHub access*: their answers are inputs.
  The Actions host's polling talks to a service whose behaviour the repository
  does not define.
* *Routing, escalation, demotion, calibration, proving sets*: sequential ledger
  arithmetic over one issue or one experiment at a time; no interleaving of its
  own.
* *Events, rollups, dashboard, configuration, prompts, installation, doctor,
  release tooling, host sleep*: records, presentation, parsing and packaging.
* In the modelled parts: Azure trackers and Azure Sweeps, running without Leases,
  an unbounded iteration cap, empty directories, dry runs, wording.

## 13. What would come next

1. `RollingPool` with Pin and Priority: cache, quarantine, back-off, the terminal
   read. It would replace the free choices of `reserve` and `Idle`. Theorem: a
   terminal outcome is believed only of a Pool that was read.
2. The Stop latches composed with the exit path of `RollingDispatch`.
3. The Actions host's dispatch and poll protocol, against an explicit model of
   the service.

## 14. Reading order

`LeaseRegister`, `Lease`, then the properties at its end; `DispatchPromise`,
`RollingScheduler`, `RollingDispatch`; `PublicationPromise`, `Publication`; then `Sweep`,
`AccountControl`, `Concurrency` and `Stop` in any order; the proofs from their
theorems backwards. Operators commented as a mutant are deliberately wrong
variants of the definition that follows them: `PROJECT.json` pairs each with the
property it must break.
