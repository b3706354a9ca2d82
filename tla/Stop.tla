------------------------------- MODULE Stop -------------------------------
(***************************************************************************)
(* Stop: the requests clients leave beside a Run, and the Wind-down the    *)
(* Run latches from them.                                                  *)
(*                                                                         *)
(* A request is a file named by its identity.  Writing the name again is   *)
(* redelivery; a second name asks for cancellation.  Any number of clients *)
(* write, retry, ask which stage they have asked for, and wait for the Run *)
(* to announce it; each may die at any step.  The Run polls the directory  *)
(* while its Lanes go through setup, sessions, Integration and Recovery.   *)
(***************************************************************************)
EXTENDS Integers, SequencesExt, FiniteSetsExt

CONSTANTS
    Clients,   \* processes that submit
    Ids,       \* request identities: numbers, for their order
    id,        \* the identity each client submits
    Lanes,
    Units,     \* max_iterations
    Attempts,  \* _AUTO_RESOLUTION_MAX_ATTEMPTS
    MaxClock   \* bound: times the clock is read

ASSUME StopAssumption ==
    /\ IsFiniteSet(Ids) /\ Ids \subseteq Nat /\ id \in [Clients -> Ids]
    /\ IsFiniteSet(Clients) /\ IsFiniteSet(Lanes)
    /\ Units \in Nat /\ Attempts \in Nat /\ MaxClock \in Nat

VARIABLES
    file,    \* the seq of each complete request, 0 where there is none
    clock,   \* time_ns
    client,  \* idle, writing, replacing, linked, waiting or gone
    seq,     \* the time a client has read
    told,    \* the stage its submission was told it asks for
    drain, cancel,  \* the latches of the Run
    trace,   \* the wrapper.stop.requested records: drain, cancel, or cap
    agent,   \* free, setup, dispatch, opening, worker, remote, integrating,
             \* reopening, recovering or cancelled
    external,  \* _execution_host: the sessions of Lanes run on another machine
    tries,   \* Recovery attempts left to the contribution of a Lane
    units,
    over

clientVars == <<file, clock, client, seq, told>>
latchVars == <<drain, cancel, trace>>
laneVars == <<agent, external, tries, units>>
vars == <<clientVars, latchVars, laneVars, over>>

Init ==
    /\ file = [i \in Ids |-> 0] /\ clock = 1
    /\ client = [c \in Clients |-> "idle"] /\ told = [c \in Clients |-> "none"]
    /\ seq = [c \in Clients |-> 0]
    /\ drain = FALSE /\ cancel = FALSE /\ trace = <<>>
    /\ agent = [l \in Lanes |-> "free"] /\ external \in BOOLEAN
    /\ tries = [l \in Lanes |-> 0] /\ units = Units
    /\ over = FALSE

-----------------------------------------------------------------------------
(* Clients: submit_stop, and the retries of one invocation *)

Linked == {i \in Ids : file[i] # 0}

\* read_stop_requests sorts by seq, then by identity.
Before(i, j) == file[i] < file[j] \/ (file[i] = file[j] /\ i < j)

\* The stage of a linked identity, by its position among the requests.
StageOf(i) == IF \E j \in Linked : Before(j, i) THEN "cancel" ELSE "drain"

At(c, pc) == client' = [client EXCEPT ![c] = pc]

Leaves(c) ==
    At(c, "gone") /\ seq' = [seq EXCEPT ![c] = 0] /\ told' = [told EXCEPT ![c] = "none"]

\* A request already complete is only reported; otherwise the time is read
\* and a temporary file is written.
Submit(c) ==
    /\ client[c] = "idle"
    /\ IF file[id[c]] # 0
       THEN At(c, "linked") /\ UNCHANGED <<clock, seq>>
       ELSE /\ clock < MaxClock /\ clock' = clock + 1
            /\ seq' = [seq EXCEPT ![c] = clock] /\ At(c, "writing")
    /\ UNCHANGED <<file, told, latchVars, laneVars, over>>

\* The write failed: the same identity is submitted again.
WriteFails(c) ==
    /\ client[c] \in {"writing", "replacing"} /\ At(c, "idle")
    /\ UNCHANGED <<file, clock, seq, told, latchVars, laneVars, over>>

\* The link never takes the name from another delivery of the request; where
\* there are no links the temporary file replaces what is not complete.
Link(c) ==
    /\ client[c] = "writing"
    /\ \/ /\ At(c, "linked")
          /\ file' = IF file[id[c]] # 0 THEN file ELSE [file EXCEPT ![id[c]] = seq[c]]
       \/ file[id[c]] = 0 /\ At(c, "replacing") /\ UNCHANGED file
    /\ UNCHANGED <<clock, seq, told, latchVars, laneVars, over>>

Replace(c) ==
    /\ client[c] = "replacing" /\ At(c, "linked")
    /\ file' = [file EXCEPT ![id[c]] = seq[c]]
    /\ UNCHANGED <<clock, seq, told, latchVars, laneVars, over>>

\* _submission: a second read of the directory, after the link.
Report(c) ==
    /\ client[c] = "linked" /\ At(c, "waiting")
    /\ told' = [told EXCEPT ![c] = StageOf(id[c])]
    /\ UNCHANGED <<file, clock, seq, latchVars, laneVars, over>>

Rank(stage) == CASE stage = "none" -> 0 [] stage \in {"drain", "cap"} -> 1 [] OTHER -> 2

\* latched_operator_stage: the cap's record does not count.
OperatorStage ==
    IF Contains(trace, "cancel") THEN "cancel"
    ELSE IF Contains(trace, "drain") THEN "drain" ELSE "none"

Acknowledge(c) ==
    /\ client[c] = "waiting" /\ Rank(OperatorStage) >= Rank(told[c])
    /\ Leaves(c)
    /\ UNCHANGED <<file, clock, latchVars, laneVars, over>>

\* A client dies, or its wait is over; what it wrote stays.
Dies(c) ==
    /\ client[c] # "gone" /\ Leaves(c)
    /\ UNCHANGED <<file, clock, latchVars, laneVars, over>>

-----------------------------------------------------------------------------
(* The Run's latches *)

\* _announce_wind_down: the ladder only rises.
Announced(t, stage) ==
    IF t = <<>> \/ Rank(stage) > Rank(Last(t)) THEN Append(t, stage) ELSE t

DrainAnnounced == IF drain THEN trace ELSE Announced(trace, "drain")

\* The sessions whose task the Run retains (_await_agent), which are those it
\* opens itself.  What an external Execution host runs is awaited in the open,
\* and that host is asked to cancel nothing.
Active == {l \in Lanes : agent[l] \in {"worker", "recovering"}}

RequestDrain ==
    /\ drain' = TRUE /\ trace' = DrainAnnounced
    /\ UNCHANGED <<cancel, agent>>

\* Mutant: the cancellation is latched and announced, and nobody is told.
RequestCancelIdle ==
    /\ drain' = TRUE /\ cancel' = TRUE /\ UNCHANGED agent
    /\ trace' = IF cancel THEN trace ELSE Announced(DrainAnnounced, "cancel")

\* The drain, and behind it the cancellation.
RequestCancel ==
    /\ drain' = TRUE /\ cancel' = TRUE
    /\ IF cancel THEN UNCHANGED <<trace, agent>>
       ELSE /\ trace' = Announced(DrainAnnounced, "cancel")
            /\ agent' = [l \in Lanes |-> IF l \in Active THEN "cancelled" ELSE agent[l]]

\* Mutant: every reading of a request is a Stop of its own.
PollEscalating ==
    /\ ~over /\ Linked # {}
    /\ IF drain \/ Cardinality(Linked) >= 2 THEN RequestCancel ELSE RequestDrain
    /\ UNCHANGED <<clientVars, external, tries, units, over>>

\* Mutant: the watcher has done its work once the drain is latched.
PollOnce ==
    /\ ~over /\ Linked # {} /\ ~drain
    /\ IF Cardinality(Linked) >= 2 THEN RequestCancel ELSE RequestDrain
    /\ UNCHANGED <<clientVars, external, tries, units, over>>

\* watch_client_stops: one tick, from reading the requests to the latches.
Poll ==
    /\ ~over /\ Linked # {}
    /\ IF Cardinality(Linked) >= 2 THEN RequestCancel ELSE RequestDrain
    /\ UNCHANGED <<clientVars, external, tries, units, over>>

-----------------------------------------------------------------------------
(* Lanes *)

Goes(l, to) == agent' = [agent EXCEPT ![l] = to]
LaneStep == UNCHANGED <<clientVars, latchVars, external, over>>

\* The Lanes whose unit is reserved or whose session runs.
Held ==
    {l \in Lanes : agent[l] \in {"setup", "dispatch", "opening", "worker", "remote"}}

Reserve(l) ==
    /\ agent[l] = "free" /\ ~drain /\ ~over
    /\ units > Cardinality(Held)
    /\ Goes(l, "setup") /\ UNCHANGED <<tries, units>> /\ LaneStep

\* The binding step: a drain, or what the issue has become, releases it.
Bind(l) ==
    /\ agent[l] = "setup"
    /\ \/ ~drain /\ Goes(l, "dispatch") /\ units' = units - 1
       \/ Goes(l, "free") /\ UNCHANGED units
    /\ tries' = [tries EXCEPT ![l] = Attempts] /\ LaneStep

\* The last look at the cancellation before the host is handed the work: one
\* on this machine opens a session, another one is only awaited.
Dispatch(l) ==
    /\ agent[l] = "dispatch"
    /\ Goes(l, CASE cancel               -> "free"
                 [] ~cancel /\ external  -> "remote"
                 [] ~cancel /\ ~external -> "opening")
    /\ UNCHANGED <<tries, units>> /\ LaneStep

\* Mutant: the session that was opening is not looked at again.
StartBlindly(l) ==
    /\ agent[l] = "opening"
    /\ Goes(l, "worker")
    /\ UNCHANGED <<tries, units>> /\ LaneStep

\* The session is open; a cancellation has not seen it.
Start(l) ==
    /\ agent[l] = "opening"
    /\ Goes(l, IF cancel THEN "cancelled" ELSE "worker")
    /\ UNCHANGED <<tries, units>> /\ LaneStep

\* A session ends on its own; a remote one within the six hours of its job,
\* and its outcome is taken as it comes, cancellation or not.
WorkerEnds(l) ==
    /\ agent[l] \in {"worker", "remote"}
    /\ \E to \in {"integrating", "free"} : Goes(l, to)
    /\ UNCHANGED <<tries, units>> /\ LaneStep

\* Integration publishes or gives up, or wants a Recovery session.
Integrate(l) ==
    /\ agent[l] = "integrating"
    /\ \/ Goes(l, "free") /\ UNCHANGED tries
       \/ tries[l] > 0 /\ Goes(l, "reopening") /\ tries' = [tries EXCEPT ![l] = @ - 1]
    /\ UNCHANGED units /\ LaneStep

\* A Recovery session starts whatever is latched.
StartRecovery(l) ==
    /\ agent[l] = "reopening" /\ Goes(l, "recovering")
    /\ UNCHANGED <<tries, units>> /\ LaneStep

RecoveryEnds(l) ==
    /\ agent[l] = "recovering" /\ Goes(l, "integrating")
    /\ UNCHANGED <<tries, units>> /\ LaneStep

\* The cancelled Lane is salvaged; a cancelled Recovery ends its Integration.
Salvaged(l) ==
    /\ agent[l] = "cancelled" /\ Goes(l, "free")
    /\ UNCHANGED <<tries, units>> /\ LaneStep

\* Nothing is pending: stopped, or the cap is announced, or no work is left.
Finish ==
    /\ ~over /\ \A l \in Lanes : agent[l] = "free"
    /\ over' = TRUE
    /\ trace' = IF ~drain /\ units = 0 THEN Announced(trace, "cap") ELSE trace
    /\ UNCHANGED <<clientVars, drain, cancel, laneVars>>

Over == over /\ UNCHANGED vars

ClientSteps(c) ==
    Submit(c) \/ WriteFails(c) \/ Link(c) \/ Replace(c) \/ Report(c) \/ Acknowledge(c) \/ Dies(c)
SessionEnds(l) == WorkerEnds(l) \/ RecoveryEnds(l)
LaneSteps(l) ==
    Bind(l) \/ Dispatch(l) \/ Start(l) \/ Integrate(l) \/ StartRecovery(l) \/ Salvaged(l)

Next ==
    \/ \E c \in Clients : ClientSteps(c)
    \/ \E l \in Lanes : LaneSteps(l) \/ SessionEnds(l) \/ Reserve(l)
    \/ Poll \/ Finish \/ Over

Spec == Init /\ [][Next]_vars

\* The watcher ticks, what is between sessions goes on, a driver that may
\* only finish does.  Clients and sessions owe nothing.
FairSpec ==
    /\ Spec /\ WF_vars(Poll) /\ WF_vars(drain /\ Finish)
    /\ \A l \in Lanes : WF_vars(LaneSteps(l))

-----------------------------------------------------------------------------
(* Properties *)

\* However often a request is written, read and reported, one logical Stop
\* drains and only a second one cancels.
OneLogicalStop ==
    /\ drain => Linked # {}
    /\ cancel => Cardinality(Linked) >= 2

\* From the cancellation on no worker is in a session the Run opened, also not
\* one whose session was opening when the others were cancelled.  It says
\* nothing of an external Execution host.
NothingWorksAfterCancel == cancel => \A l \in Lanes : agent[l] # "worker"

\* What a client has made durable reaches the Run, whatever becomes of the
\* client, and the stage a waiting client asked for is announced to it.
StopArrives ==
    /\ Linked # {} ~> drain \/ over
    /\ Cardinality(Linked) >= 2 ~> cancel \/ over
    /\ \A c \in Clients :
           told[c] # "none" ~>
               Rank(OperatorStage) >= Rank(told[c]) \/ client[c] = "gone" \/ over

\* The cancellation ends the Run without a session having to end, but for the
\* two kinds it does not reach: a Recovery session that started behind it and
\* a session on an external Execution host.
CancelEnds ==
    cancel ~> over \/ \E l \in Lanes : agent[l] \in {"recovering", "remote"}
=============================================================================
