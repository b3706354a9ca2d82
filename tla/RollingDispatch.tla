--------------------------- MODULE RollingDispatch ----------------------------
(***************************************************************************)
(* Rolling dispatch (loop.py, _ParallelLoop): the driver, the Lane tasks it *)
(* spawns, the Integration lock and the Leases the Lanes take, over the     *)
(* bookkeeping of RollingScheduler.                                         *)
(*                                                                          *)
(* asyncio runs one task at a time, up to its next await.  So a Lane task, a *)
(* Stop gesture or the world acts only while the driver is suspended; a turn *)
(* is suspended in its middle while it looks for Priority serial work.  Each *)
(* action below is what one task does between two awaits.                    *)
(***************************************************************************)
EXTENDS RollingScheduler, Sequences

CONSTANTS
  Limits,      \* the effective Lane limits the concurrency policy may choose
  MaxStrikes,  \* the Strikes that take an issue out of the Run
  SerialWork,  \* whether the tracker may list serial-required work
  Contested,   \* issues whose route or Lease a Lane may be refused
  Faults       \* what may go wrong in this instance, of AllFaults

\* setup: a Lane's setup fails; reoffer, breach: its host fails before or
\* after the session ran; timeout: a session is charged and integrated all the
\* same; raise, publication: an exception of a Lane task; stop: the operator's.
AllFaults ==
  {"setup", "reoffer", "breach", "timeout", "raise", "publication", "stop"}

ASSUME LimitsAssumption == Limits \subseteq 0..LaneCap /\ Limits # {}
ASSUME StrikesAssumption == MaxStrikes \in Nat \ {0}
ASSUME FaultsAssumption == Contested \subseteq Issues /\ Faults \subseteq AllFaults
ASSUME SerialAssumption == SerialWork \in BOOLEAN

\* A task integrates an admitted contribution or runs in a Lane of its own.
Tasks == Slots

VARIABLES
  driver,         \* where the driver stands in its turn
  limit,          \* effective_limit in this turn
  halfSeen,       \* serial_pool_seen: this turn read the whole serial half
  capacityFreed,  \* _capacity_freed
  unclaimed,      \* history: what the last reserve could have reserved still
  pc,             \* where each Lane task stands; "none" if there is no task
  issue,          \* the issue of the reservation each task was spawned for
  at,             \* the slot each task works on
  line,           \* the tasks that own or await _integration_lock, in order
  returned,       \* _pending holds a task that has returned
  leases,         \* _lane_leases, with the Lease each names
  charged,        \* open contributions whose session was charged a Strike
  strikes,        \* the Attempt ledger
  refused,        \* _rolling_refused
  tracked,        \* issues the tracker still lists
  crash,          \* _crash is set
  exhausted,      \* _dispatch_failures_exhausted
  cancelling      \* the driver has cancelled its Lane tasks

taskVars == <<pc, issue, at, line, returned>>
ledgerVars == <<leases, charged, strikes, refused, tracked>>
endVars == <<crash, exhausted, cancelling>>
driverVars == <<driver, limit, halfSeen, capacityFreed, unclaimed>>
vars == <<schedVars, driverVars, taskVars, ledgerVars, endVars>>

\* The places where the driver is suspended at an await.
Suspended == {"priority", "await", "serial", "lastlook", "poll", "drain"}

TypeOK ==
  /\ SchedTypeOK
  /\ driver \in Suspended \cup {"turn", "reserve", "peek", "decide", "over"}
  /\ limit \in Limits
  /\ halfSeen \in BOOLEAN /\ capacityFreed \in BOOLEAN
  /\ unclaimed \in 0..LaneCap
  /\ pc \in [Tasks -> {"none", "begin", "classify", "session", "gate"}]
  /\ issue \in [Tasks -> Issues \cup {NoIssue}]
  /\ at \in [Tasks -> Slots]
  /\ line \in Seq(Tasks) /\ returned \in BOOLEAN
  /\ leases \subseteq Issues
  /\ charged \subseteq Slots
  /\ strikes \in [Issues -> 0..MaxStrikes]
  /\ refused \subseteq Issues /\ tracked \subseteq Issues
  /\ crash \in BOOLEAN /\ exhausted \in BOOLEAN /\ cancelling \in BOOLEAN

Init ==
  /\ SchedInit
  /\ driver = "turn" /\ limit \in Limits
  /\ halfSeen = FALSE /\ capacityFreed = FALSE /\ unclaimed = 0
  /\ pc = [t \in Tasks |-> "none"]
  /\ issue = [t \in Tasks |-> NoIssue]
  /\ at = [t \in Tasks |-> t]
  /\ line = <<>> /\ returned = FALSE
  /\ leases = {} /\ charged = {}
  /\ strikes = [i \in Issues |-> 0]
  /\ refused = {} /\ tracked \in {Issues, {}}
  /\ crash = FALSE /\ exhausted = FALSE /\ cancelling = FALSE

-----------------------------------------------------------------------------
Live == {t \in Tasks : pc[t] # "none"}

\* _pending is empty.  Tasks that returned stay in it until _await_capacity
\* retires them; their names are free before that.
NonePending == Live = {} /\ ~returned

\* Mutant: an issue out of Strikes is taken again.
EligibleWhenSkipped(i) == i \in tracked /\ i \notin refused /\ ~Owns(i)

\* _lane_candidate_eligible, with the scheduler's _unclaimed.
Eligible(i) ==
  i \in tracked /\ i \notin refused /\ strikes[i] < MaxStrikes /\ ~Owns(i)

Lowest(S) == CHOOSE x \in S : \A y \in S : x <= y
FreeSlots == {s \in Slots : ref[s] = NoIssue}
FreeTasks == Tasks \ Live

-----------------------------------------------------------------------------
(* The driver: one turn of _drive_rolling. *)

\* A crash or a Stop ends the Run; a host that keeps refusing ends it once
\* nothing is pending.
TurnEnds ==
  /\ driver = "turn"
  /\ crash \/ (exhausted /\ NonePending) \/ (~exhausted /\ stopLatched)
  /\ driver' = "drain"
  /\ cancelling' = (~stopLatched /\ Live # {})
  /\ UNCHANGED <<schedVars, limit, halfSeen, capacityFreed, unclaimed, taskVars,
                 ledgerVars, crash, exhausted>>

TurnWaitsOut ==
  /\ driver = "turn" /\ ~crash /\ exhausted /\ ~NonePending
  /\ driver' = "await"
  /\ UNCHANGED <<schedVars, limit, halfSeen, capacityFreed, unclaimed, taskVars,
                 ledgerVars, endVars>>

\* An ordinary turn clears the wakeup before it reads any bound but the limit.
\* It may have to look for Priority serial work before it reserves.
TurnDispatches(looks) ==
  /\ driver = "turn" /\ ~crash /\ ~exhausted /\ ~stopLatched
  /\ looks => SerialWork /\ phase # "refill_turn" /\ ~serialLatched /\ Remaining > 0
  /\ capacityFreed' = FALSE
  /\ limit' \in Limits
  /\ driver' = IF looks THEN "priority" ELSE "reserve"
  /\ UNCHANGED <<schedVars, halfSeen, unclaimed, taskVars, ledgerVars, endVars>>

\* _priority_serial_work returns.  The turn goes on whatever happened meanwhile:
\* a crash, a refusing host or a Stop is not looked for again, but reserve reads
\* the bounds afresh.  Demand it found is latched ahead of ordinary work: then
\* reserve takes a Priority prefix at most, and Peek latches.
PriorityLooked ==
  /\ driver = "priority"
  /\ driver' = "reserve"
  /\ UNCHANGED <<schedVars, limit, halfSeen, capacityFreed, unclaimed, taskVars,
                 ledgerVars, endVars>>

ReserveLane(i) ==
  /\ driver = "reserve"
  /\ Refillable(limit) > 0 /\ Eligible(i)
  /\ LET s == Lowest(FreeSlots)
         t == Lowest(FreeTasks)
     IN /\ Reserve(s, i)
        /\ pc' = [pc EXCEPT ![t] = "begin"]
        /\ issue' = [issue EXCEPT ![t] = i]
        /\ at' = [at EXCEPT ![t] = s]
  /\ UNCHANGED <<driverVars, line, returned, ledgerVars, endVars>>

\* The Pool may offer nothing more: candidates blocked, unread or taken.
ReserveEnds ==
  /\ driver = "reserve"
  /\ SpendRefillTurn
  /\ unclaimed' = Refillable(limit)
  /\ driver' = "peek"
  /\ UNCHANGED <<limit, halfSeen, capacityFreed, taskVars, ledgerVars, endVars>>

\* _service_serial_required_work: latched demand is not looked for again, and
\* then this turn has not seen the serial half of the Pool.
Peek(demand, complete) ==
  /\ driver = "peek"
  /\ demand => SerialWork
  /\ RequestSerial(demand /\ ~serialLatched)
  /\ halfSeen' = (complete /\ ~serialLatched)
  /\ driver' = "decide"
  /\ UNCHANGED <<limit, capacityFreed, unclaimed, taskVars, ledgerVars, endVars>>

GrantSerial ==
  /\ driver = "decide"
  /\ SerialReady
  /\ SerialTurn
  /\ driver' = "serial"
  /\ halfSeen' = FALSE /\ unclaimed' = 0
  /\ UNCHANGED <<limit, capacityFreed, taskVars, ledgerVars, endVars>>

AwaitCapacity ==
  /\ driver = "decide"
  /\ ~SerialReady /\ ~NonePending
  /\ driver' = "await"
  /\ halfSeen' = FALSE
  /\ UNCHANGED <<schedVars, limit, capacityFreed, unclaimed, taskVars,
                 ledgerVars, endVars>>

\* Nothing pending: the Run ends at a Stop, the cap or a terminal outcome of
\* the Pool, looks once more before claiming a Pool it never worked on is
\* empty, or polls.  No outcome is believed unless the serial half was seen too.
Idle(outcome) ==
  /\ driver = "decide"
  /\ ~SerialReady /\ NonePending
  /\ outcome # "none" => halfSeen
  /\ outcome = "empty_pool" => tracked \subseteq worked
  /\ outcome = "refused" => ~(tracked \subseteq worked)
  /\ LET goesOn == ~((stopLatched \/ Remaining = 0) /\ Quiescent) IN
     driver' = CASE goesOn /\ outcome = "none"                         -> "poll"
                 [] goesOn /\ outcome = "empty_pool" /\ unitsSpent = 0 -> "lastlook"
                 [] OTHER                                              -> "drain"
  /\ halfSeen' = FALSE /\ unclaimed' = 0
  /\ UNCHANGED <<schedVars, limit, capacityFreed, taskVars,
                 ledgerVars, endVars>>

Poll ==
  /\ driver = "poll"
  /\ driver' = "turn"
  /\ UNCHANGED <<schedVars, limit, halfSeen, capacityFreed, unclaimed, taskVars,
                 ledgerVars, endVars>>

\* _await_capacity returns on a freed bound or a returned task, and retires the
\* tasks that returned.
Wake ==
  /\ driver = "await"
  /\ capacityFreed \/ returned
  /\ returned' = FALSE
  /\ unclaimed' = 0
  /\ driver' = "turn"
  /\ UNCHANGED <<schedVars, limit, halfSeen, capacityFreed, pc, issue, at, line,
                 ledgerVars, endVars>>

\* A serial Iteration works on one issue i at most: it may close it, or be
\* charged a Strike for it.  A Stop or a defeated Iteration ends the Run.
SerialEnds(i, closes, strike, resumes) ==
  /\ driver \in {"serial", "lastlook"}
  /\ closes \/ strike => i \in tracked /\ strikes[i] < MaxStrikes
  /\ ~(closes /\ strike)
  /\ stopLatched => ~resumes
  /\ tracked' = IF closes THEN tracked \ {i} ELSE tracked
  /\ strikes' = IF strike THEN [strikes EXCEPT ![i] = @ + 1] ELSE strikes
  /\ SerialFinished(i, strike, resumes)
  /\ driver' = IF resumes THEN "turn" ELSE "drain"
  /\ UNCHANGED <<limit, halfSeen, capacityFreed, unclaimed, taskVars, leases,
                 charged, refused, endVars>>

\* The driver's finally: every task it still had has ended, and whatever is
\* open is closed on the spot.
ExitReclaims ==
  /\ driver = "drain" /\ Live = {}
  /\ ReclaimAll(charged)
  /\ leases' = leases \ {ref[s] : s \in open}
  /\ charged' = charged \ open
  /\ returned' = FALSE
  /\ driver' = "over"
  /\ UNCHANGED <<limit, halfSeen, capacityFreed, unclaimed, pc, issue, at, line,
                 strikes, refused, tracked, endVars>>

RequestStop ==
  /\ driver \in Suspended /\ ~stopLatched /\ "stop" \in Faults
  /\ RequestStopDrain
  /\ UNCHANGED <<driverVars, taskVars, ledgerVars, endVars>>

-----------------------------------------------------------------------------
(* A Lane task: _run_lane_lifecycle around _drive_lane_lifecycle. *)

\* The task may take a step: the driver is suspended and has not cancelled it.
Runs(t, where) ==
  driver \in Suspended /\ ~cancelling /\ pc[t] = where

\* Mutant: only a task's return wakes the driver.
SignalNothing == UNCHANGED capacityFreed

\* _capacity_freed.set(): a Lane or a place in the backlog is free mid-flight.
SignalCapacity == capacityFreed' = TRUE

\* Mutant: no net under a setup that fails.
LeaseKept(t, remain, stillOpen) == remain

\* The finally of _run_lane_lifecycle: of the Leases that remain, the one on
\* the task's issue is released unless a contribution in stillOpen owes it.
LeaseNet(t, remain, stillOpen) ==
  IF \E s \in stillOpen : ref[s] = issue[t] THEN remain ELSE remain \ {issue[t]}

\* The task returns: _pending keeps it until the driver wakes.
EndTask(t) ==
  /\ pc' = [pc EXCEPT ![t] = "none"]
  /\ issue' = [issue EXCEPT ![t] = NoIssue]
  /\ at' = [at EXCEPT ![t] = t]
  /\ returned' = TRUE

\* Routing refuses the issue, or its Lease is held elsewhere or unreadable:
\* the issue is out of this Run's Pool.
LaneRefused(t) ==
  /\ Runs(t, "begin")
  /\ issue[t] \in Contested
  /\ refused' = refused \cup {issue[t]}
  /\ Release(at[t])
  /\ leases' = LeaseNet(t, leases, open)
  /\ EndTask(t)
  /\ UNCHANGED <<driverVars, line, charged, strikes, tracked, endVars>>

LaneTakesLease(t) ==
  /\ Runs(t, "begin")
  /\ leases' = leases \cup {issue[t]}
  /\ pc' = [pc EXCEPT ![t] = "classify"]
  /\ UNCHANGED <<schedVars, driverVars, issue, at, line, returned, charged,
                 strikes, refused, tracked, endVars>>

\* Classification, a Stop, the base read or the clone ends the setup.
LaneSetupFails(t, refuse) ==
  /\ Runs(t, "classify")
  /\ stopLatched \/ "setup" \in Faults
  /\ refuse => issue[t] \in Contested
  /\ refused' = IF refuse THEN refused \cup {issue[t]} ELSE refused
  /\ Release(at[t])
  /\ leases' = LeaseNet(t, leases, open)
  /\ EndTask(t)
  /\ UNCHANGED <<driverVars, line, charged, strikes, tracked, endVars>>

\* Mutant: a Stop during setup is not looked at again.
LaneStartsRegardless(t) ==
  /\ Runs(t, "classify")
  /\ StartSession(at[t])
  /\ pc' = [pc EXCEPT ![t] = "session"]
  /\ UNCHANGED <<driverVars, issue, at, line, returned, ledgerVars, endVars>>

LaneStarts(t) ==
  /\ Runs(t, "classify")
  /\ ~stopLatched
  /\ StartSession(at[t])
  /\ pc' = [pc EXCEPT ![t] = "session"]
  /\ UNCHANGED <<driverVars, issue, at, line, returned, ledgerVars, endVars>>

\* _observe_session_ending: one Strike per ending, none for an advance.
Charge(i, strike) ==
  strikes' = IF strike THEN [strikes EXCEPT ![i] = @ + 1] ELSE strikes

\* The contribution closes with its session: a terminal host failure, whose
\* unit goes back unless the session ran, or a branch without changes.
SessionCloses(t, reoffer, strike, gaveUp) ==
  LET s == at[t] IN
  /\ Runs(t, "session")
  /\ reoffer => "reoffer" \in Faults /\ ~strike
  /\ ~strike /\ ~reoffer => "breach" \in Faults
  /\ FinishTerminal(s, reoffer, strike)
  /\ Charge(issue[t], strike)
  /\ exhausted' = (exhausted \/ (gaveUp /\ reoffer))
  /\ leases' = LeaseNet(t, leases \ {issue[t]}, open \ {s})
  /\ EndTask(t)
  /\ UNCHANGED <<driverVars, line, charged, refused, tracked, crash, cancelling>>

\* The session left changes.  A timed out or crashed session is charged for
\* its ending and integrated all the same.
SessionAdmitted(t, strike) ==
  LET s == at[t] IN
  /\ Runs(t, "session")
  /\ strike => "timeout" \in Faults
  /\ FinishAdmitted(s)
  /\ Charge(issue[t], strike)
  /\ charged' = IF strike THEN charged \cup {s} ELSE charged
  /\ SignalCapacity
  /\ pc' = [pc EXCEPT ![t] = "gate"]
  /\ line' = Append(line, t)
  /\ UNCHANGED <<driver, limit, halfSeen, unclaimed, issue, at, returned, leases,
                 refused, tracked, endVars>>

SessionParked(t, strike) ==
  LET s == at[t] IN
  /\ Runs(t, "session")
  /\ strike => "timeout" \in Faults
  /\ FinishParked(s)
  /\ Charge(issue[t], strike)
  /\ charged' = IF strike THEN charged \cup {s} ELSE charged
  /\ leases' = LeaseNet(t, leases, open)
  /\ EndTask(t)
  /\ UNCHANGED <<driverVars, line, refused, tracked, endVars>>

\* Mutant: the task returns after its own contribution.
StopAfterOwn(t, newly) == EndTask(t) /\ line' = Tail(line)

\* After its contribution a task integrates the one it admitted from the
\* parked FIFO, behind whoever awaits the lock already, or it ends.
ContinueWith(t, newly) ==
  IF newly = {}
  THEN EndTask(t) /\ line' = Tail(line)
  ELSE /\ at' = [at EXCEPT ![t] = Lowest(newly)]
       /\ line' = Append(Tail(line), t)
       /\ UNCHANGED <<pc, issue, returned>>

\* _integrate_contribution under the lock.  A publication needs the fence to
\* find the Lease; closes says that it closed the issue.
IntegrationEnds(t, published, closes) ==
  LET s     == at[t]
      newly == {p.slot : p \in Drained(admitted \ {s})}
      left  == leases \ {ref[s]}
  IN
  /\ Runs(t, "gate") /\ Head(line) = t
  /\ published => ref[s] \in leases
  /\ closes => published
  /\ Finalize(s, published, s \in charged)
  /\ charged' = charged \ {s}
  /\ tracked' = IF closes THEN tracked \ {ref[s]} ELSE tracked
  /\ SignalCapacity
  /\ ContinueWith(t, newly)
  /\ leases' = IF newly = {} THEN LeaseNet(t, left, open \ {s}) ELSE left
  /\ UNCHANGED <<driver, limit, halfSeen, unclaimed, strikes, refused, endVars>>

\* A publication left for reconciliation raises after the contribution was
\* closed; nobody integrates what that admitted from the parked FIFO.
PublicationPending(t, published) ==
  LET s == at[t] IN
  /\ Runs(t, "gate") /\ Head(line) = t
  /\ "publication" \in Faults
  /\ published => ref[s] \in leases
  /\ Finalize(s, published, s \in charged)
  /\ charged' = charged \ {s}
  /\ leases' = LeaseNet(t, leases \ {ref[s]}, open \ {s})
  /\ crash' = TRUE
  /\ EndTask(t)
  /\ line' = Tail(line)
  /\ UNCHANGED <<driverVars, strikes, refused, tracked, exhausted, cancelling>>

\* Any other exception of a Lane task; the driver raises it on its next turn.
LaneRaises(t) ==
  /\ \/ Runs(t, "classify") /\ "raise" \in Faults /\ UNCHANGED line
     \/ Runs(t, "session") /\ "raise" \in Faults /\ UNCHANGED line
     \/ Runs(t, "gate") /\ "publication" \in Faults
        /\ Head(line) = t /\ line' = Tail(line)
  /\ leases' = LeaseNet(t, leases, open)
  /\ crash' = TRUE
  /\ EndTask(t)
  /\ UNCHANGED <<schedVars, driverVars, charged, strikes, refused, tracked,
                 exhausted, cancelling>>

\* Cancellation takes a task out of the lock, or of the queue for it.
LeavesLock(t) ==
  \/ pc[t] # "gate" /\ UNCHANGED line
  \/ /\ pc[t] = "gate"
     /\ \E k \in DOMAIN line :
          /\ line[k] = t
          /\ line' = SubSeq(line, 1, k - 1) \o SubSeq(line, k + 1, Len(line))

\* A cancelled task ends wherever it was; its contribution stays open.  One
\* that never began has nothing to release.
LaneCancelled(t) ==
  /\ cancelling /\ driver = "drain" /\ t \in Live
  /\ LeavesLock(t)
  /\ leases' = IF pc[t] = "begin" THEN leases ELSE LeaseNet(t, leases, open)
  /\ EndTask(t)
  /\ UNCHANGED <<schedVars, driverVars, charged, strikes, refused, tracked,
                 endVars>>

-----------------------------------------------------------------------------
DriverTurn ==
  \/ TurnEnds \/ TurnWaitsOut
  \/ \E looks \in BOOLEAN : TurnDispatches(looks)
  \/ \E i \in Issues : ReserveLane(i)
  \/ ReserveEnds
  \/ \E demand, complete \in BOOLEAN : Peek(demand, complete)
  \/ GrantSerial \/ AwaitCapacity
  \/ \E outcome \in {"none", "empty_pool", "refused"} : Idle(outcome)

DriverResumes ==
  \/ PriorityLooked \/ Poll \/ Wake \/ ExitReclaims
  \/ \E i \in Issues, closes, strike, resumes \in BOOLEAN :
       SerialEnds(i, closes, strike, resumes)

LaneStep(t) ==
  /\ driver \in Suspended /\ t \in Live
  /\ \/ LaneRefused(t) \/ LaneTakesLease(t)
     \/ \E refuse \in BOOLEAN : LaneSetupFails(t, refuse)
     \/ LaneStarts(t)
     \/ \E reoffer, strike, gaveUp \in BOOLEAN :
          SessionCloses(t, reoffer, strike, gaveUp)
     \/ \E strike \in BOOLEAN : SessionAdmitted(t, strike) \/ SessionParked(t, strike)
     \/ \E published, closes \in BOOLEAN : IntegrationEnds(t, published, closes)
     \/ \E published \in BOOLEAN : PublicationPending(t, published)
     \/ LaneRaises(t) \/ LaneCancelled(t)

\* The Run is over.
Finished == driver = "over" /\ UNCHANGED vars

Next ==
  DriverTurn \/ DriverResumes \/ RequestStop \/ Finished
  \/ \E t \in Tasks : LaneStep(t)

Spec == Init /\ [][Next]_vars

\* The event loop runs every ready task, and sessions, gates and serial
\* Iterations have time limits of their own; a Stop need never come.
Fairness ==
  /\ WF_vars(DriverTurn)
  /\ WF_vars(DriverResumes)
  /\ \A t \in Tasks : SF_vars(LaneStep(t))

FairSpec == Spec /\ Fairness

-----------------------------------------------------------------------------
(* Safety. *)

\* Each Lane belongs to one live reservation or contribution, no host runs
\* more than it declared, the backlog holds at most two, and a contribution
\* parks only behind a full backlog (rolling_scheduler.py, finish_work).  The
\* free slot reserve is about to take exists.
LaneAccounting ==
  /\ held \cup open = {s \in Slots : ref[s] # NoIssue}
  /\ inSetup = {ref[s] : s \in held \ open}
  /\ admitted \cap held = {} /\ ParkedSlots \subseteq held \cap open
  /\ Cardinality(held) <= LaneCap /\ Cardinality(admitted) <= HighWater
  /\ parked # {} => Cardinality(admitted) = HighWater
  /\ driver = "reserve" /\ Refillable(limit) > 0 =>
       FreeSlots # {} /\ FreeTasks # {}

\* An issue has at most one reservation or open contribution at a time, even
\* when a charged attempt gives it back (_unclaimed, release_attempt); so
\* release_attempt never meets the active ownership it would raise about.
OneOwner ==
  \A s, u \in Slots : ref[s] = ref[u] /\ ref[s] # NoIssue => s = u

\* Sessions that started and setups that may still start one never claim more
\* than max_iterations, across Lanes, serial Iterations and returned units.
UnitsNeverOverspent == unitsSpent + Cardinality(inSetup) <= MaxIterations

\* While a serial Iteration owns base no Lane task is running and nothing is
\* reserved, open, parked or queued for Integration (serial_turn).
SerialOwnsBaseAlone ==
  driver \in {"serial", "lastlook"} => Quiescent /\ Live = {} /\ line = <<>>

\* The comment of _drive_rolling at its idle check: once no Lane task is
\* pending the scheduler is quiescent, parked work included.
PendingEmptyMeansQuiescent ==
  driver \in {"decide", "poll"} /\ NonePending => Quiescent /\ ~crash

\* A Lane's Lease never outlives the setup or contribution it protects, and
\* the Run leaves none behind.
LeaseOnlyWhileOwned ==
  /\ \A i \in leases : \/ \E s \in open : ref[s] = i
                       \/ \E t \in Tasks : pc[t] = "classify" /\ issue[t] = i
  /\ driver = "over" => leases = {}

\* What a finished contribution is admitted to is first come, first served:
\* none enters the backlog past one that stays parked ahead of it.
AdmissionIsFIFO ==
  [][\A s \in admitted' \ admitted : \A p \in parked \cap parked' :
       \E q \in parked : q.slot = s /\ Ahead(q, p)]_vars

\* After a Stop no session and no serial Iteration starts (request_stop_drain),
\* whatever was in setup or latched when the gesture landed.
StopStartsNothing ==
  [][stopLatched => /\ open' \subseteq open
                    /\ driver' \in {"serial", "lastlook"} => driver' = driver]_vars

\* The driver never sleeps on room for a Lane that its reserve did not read:
\* the comment at _capacity_freed.clear() and the docstring of _await_capacity.
\* A Lane or a backlog place freed before, during or after the look for Priority
\* work is either counted by reserve or wakes the driver, however many tasks
\* free and take room in between.
NoLostWakeup ==
  driver = "await" /\ ~exhausted /\ Refillable(limit) > unclaimed =>
    capacityFreed \/ returned

\* The docstrings of _run_lane_lifecycle and ADR-0033: a contribution that is
\* open has its Lease; no other Lane's ending takes it away.
OpenContributionIsLeased == \A s \in open : ref[s] \in leases

-----------------------------------------------------------------------------
(* The promise that dispatch keeps. *)

StandsFor(S, i) == \E s \in S : ref[s] = i

\* What the Run does with issue i, whichever slots and tasks it does it with.
Stage(i) ==
  CASE i \in inSetup                                    -> "setup"
    [] ~Owns(i)                                         -> "free"
    [] StandsFor(admitted, i)                           -> "backlog"
    [] StandsFor(ParkedSlots, i)                        -> "parked"
    [] StandsFor(open \ (admitted \cup ParkedSlots), i) -> "session"
    [] OTHER                                            -> "done"

BaseOwner ==
  CASE driver \in {"serial", "lastlook"} -> "serial"
    [] driver = "over"                   -> "over"
    [] OTHER                             -> "lanes"

Stages == [i \in Issues |-> Stage(i)]
ChargedIssues == {ref[s] : s \in charged}

Promise == INSTANCE DispatchPromise WITH
  stage   <- Stages,
  charged <- ChargedIssues,
  spent   <- unitsSpent,
  base    <- BaseOwner,
  stopped <- stopLatched

\* Slots, tasks, turns, Leases, parked queues and the Integration lock come to
\* this: one owner per issue, no unit, Lane or backlog place over its bound, a
\* serial Iteration alone, no start after a Stop, no attempt made again that
\* was neither charged nor returned (rolling_scheduler.py, the module docstring).
ImplementsPromise == Promise!Spec

-----------------------------------------------------------------------------
(* Liveness. *)

\* Whatever is parked, contended or failing, every contribution closes.
EveryContributionCloses == \A s \in Slots : s \in open ~> s \notin open

\* Latched serial demand gets its Iteration once the Lanes have drained,
\* unless the Run itself comes to an end.
SerialDemandServed ==
  serialLatched ~> driver \in {"serial", "drain", "over"}
=============================================================================
