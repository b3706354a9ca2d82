--------------------------- MODULE RollingScheduler ---------------------------
(***************************************************************************)
(* RollingScheduler (rolling_scheduler.py): who owns a Lane, an issue, an   *)
(* Iteration unit and a place in the Integration backlog.  Each method is   *)
(* one action fragment over the scheduler's variables; RollingDispatch      *)
(* calls them from the driver and the Lane tasks.                           *)
(*                                                                          *)
(* A slot stands for one reservation or Lane contribution, from reserve to  *)
(* its terminal disposition; closed slots are used again.  The Pool, Pins   *)
(* and Priority are not modelled: reserve may take any eligible issue.      *)
(***************************************************************************)
EXTENDS Integers, FiniteSets

CONSTANTS
  Issues,         \* the parallel-safe issues of the tracker, by number
  LaneCap,        \* lane_cap, what the Execution host declares
  MaxIterations   \* max_iterations of a bounded Run

NoIssue == 0
HighWater == 2    \* INTEGRATION_HIGH_WATER

ASSUME IssuesAssumption == Issues \subseteq Nat \ {NoIssue} /\ IsFiniteSet(Issues)
ASSUME CapAssumption == LaneCap \in Nat \ {0} /\ MaxIterations \in Nat \ {0}

\* Every Lane may hold one contribution while two more are admitted.
Slots == 1..(LaneCap + HighWater)

VARIABLES
  ref,            \* the issue each slot's reservation or contribution is for
  held,           \* _lanes_held: the slots that hold a Lane
  inSetup,        \* _in_setup: issues under a provisional reservation
  open,           \* _open: the open Lane contributions
  admitted,       \* _admitted: the Integration backlog
  parked,         \* _parked: finished contributions waiting for admission
  worked,         \* _worked: issues whose Lane ownership is retained
  unitsSpent,     \* _units_spent
  turn,           \* _turn: finalizes so far
  serialLatched,  \* _serial_latched
  stopLatched,    \* _stop_latched
  phase           \* _phase

schedVars == <<ref, held, inSetup, open, admitted, parked, worked, unitsSpent,
               turn, serialLatched, stopLatched, phase>>

SchedTypeOK ==
  /\ ref \in [Slots -> Issues \cup {NoIssue}]
  /\ held \subseteq Slots
  /\ inSetup \subseteq Issues
  /\ open \subseteq Slots
  /\ admitted \subseteq Slots
  /\ parked \subseteq [turn : Nat, slot : Slots]
  /\ worked \subseteq Issues
  /\ unitsSpent \in 0..MaxIterations
  /\ turn \in Nat
  /\ serialLatched \in BOOLEAN
  /\ stopLatched \in BOOLEAN
  /\ phase \in {"rolling", "serial_ownership", "refill_turn"}

SchedInit ==
  /\ ref = [s \in Slots |-> NoIssue]
  /\ held = {} /\ inSetup = {} /\ open = {} /\ admitted = {} /\ parked = {}
  /\ worked = {}
  /\ unitsSpent = 0 /\ turn = 0
  /\ serialLatched = FALSE /\ stopLatched = FALSE
  /\ phase = "rolling"

-----------------------------------------------------------------------------
\* Mutant: a provisional reservation does not own its issue.
OwnsWorked(i) == i \in worked

Owns(i) == i \in worked \/ i \in inSetup

Remaining == MaxIterations - unitsSpent

\* Mutants: only the Lanes are asked, or retained ownership counts too.
QuiescentLanes == held = {}
QuiescentUnowned ==
  held = {} /\ open = {} /\ admitted = {} /\ parked = {} /\ worked = {}

Quiescent == held = {} /\ open = {} /\ admitted = {} /\ parked = {}

ParkedSlots == {p.slot : p \in parked}

\* Mutant: a reservation withholds no unit from the next one.
RefillableUnheld(limit) ==
  IF \/ serialLatched /\ phase # "refill_turn"
     \/ stopLatched
     \/ Cardinality(admitted) >= HighWater
     \/ Remaining <= 0 \/ limit <= Cardinality(held)
  THEN 0
  ELSE limit - Cardinality(held)

\* A Lane may be reserved only if this many more fit every bound at once.
Refillable(limit) ==
  IF \/ serialLatched /\ phase # "refill_turn"
     \/ stopLatched
     \/ Cardinality(admitted) >= HighWater
  THEN 0
  ELSE LET free  == limit - Cardinality(held)
           units == Remaining - Cardinality(held)
       IN IF free <= 0 \/ units <= 0 THEN 0
          ELSE IF free < units THEN free ELSE units

\* Admission order: the turn a contribution parked in, then its issue number.
Ahead(p, q) ==
  p.turn < q.turn \/ (p.turn = q.turn /\ ref[p.slot] < ref[q.slot])

\* _drain_parked: the parked contributions that fit behind the ones in adm.
Drained(adm) ==
  {p \in parked :
     Cardinality({q \in parked : Ahead(q, p)}) + Cardinality(adm) < HighWater}

-----------------------------------------------------------------------------
\* One round of the loop in reserve: slot s now stands for a Lane set up for i.
Reserve(s, i) ==
  /\ ref' = [ref EXCEPT ![s] = i]
  /\ held' = held \cup {s}
  /\ inSetup' = inSetup \cup {i}
  /\ UNCHANGED <<open, admitted, parked, worked, unitsSpent, turn,
                 serialLatched, stopLatched, phase>>

\* The end of reserve spends the refill turn a serial Iteration granted.
SpendRefillTurn ==
  /\ phase' = IF phase = "refill_turn" THEN "rolling" ELSE phase
  /\ UNCHANGED <<ref, held, inSetup, open, admitted, parked, worked, unitsSpent,
                 turn, serialLatched, stopLatched>>

Release(s) ==
  /\ ref' = [ref EXCEPT ![s] = NoIssue]
  /\ held' = held \ {s}
  /\ inSetup' = inSetup \ {ref[s]}
  /\ UNCHANGED <<open, admitted, parked, worked, unitsSpent, turn,
                 serialLatched, stopLatched, phase>>

StartSession(s) ==
  /\ unitsSpent' = unitsSpent + 1
  /\ inSetup' = inSetup \ {ref[s]}
  /\ worked' = worked \cup {ref[s]}
  /\ open' = open \cup {s}
  /\ UNCHANGED <<ref, held, admitted, parked, turn, serialLatched, stopLatched,
                 phase>>

\* finish_work with changed: admitted while the backlog has room, else parked.
FinishAdmitted(s) ==
  /\ Cardinality(admitted) < HighWater
  /\ admitted' = admitted \cup {s}
  /\ held' = held \ {s}
  /\ UNCHANGED <<ref, inSetup, open, parked, worked, unitsSpent, turn,
                 serialLatched, stopLatched, phase>>

FinishParked(s) ==
  /\ Cardinality(admitted) >= HighWater
  /\ parked' = parked \cup {[turn |-> turn, slot |-> s]}
  /\ UNCHANGED <<ref, held, inSetup, open, admitted, worked, unitsSpent, turn,
                 serialLatched, stopLatched, phase>>

\* The driver calls release_attempt once a charged contribution is closed.
ReleaseAttempt(i, released) ==
  worked' = IF released THEN worked \ {i} ELSE worked

\* finish_work without changes, and finish_terminal_failure: the contribution
\* closes outside Integration.  With reoffer its unit and its issue go back.
FinishTerminal(s, reoffer, charged) ==
  /\ ref' = [ref EXCEPT ![s] = NoIssue]
  /\ open' = open \ {s}
  /\ held' = held \ {s}
  /\ admitted' = admitted \ {s}
  /\ parked' = {p \in parked : p.slot # s}
  /\ unitsSpent' = IF reoffer THEN unitsSpent - 1 ELSE unitsSpent
  /\ ReleaseAttempt(ref[s], reoffer \/ charged)
  /\ UNCHANGED <<inSetup, turn, serialLatched, stopLatched, phase>>

\* The same for everything still open when the Run exits.
ReclaimAll(charged) ==
  /\ ref' = [s \in Slots |-> IF s \in open THEN NoIssue ELSE ref[s]]
  /\ held' = held \ open
  /\ open' = {}
  /\ admitted' = admitted \ open
  /\ parked' = {p \in parked : p.slot \notin open}
  /\ worked' = worked \ {ref[s] : s \in open \cap charged}
  /\ UNCHANGED <<inSetup, unitsSpent, turn, serialLatched, stopLatched, phase>>

\* finalize: close an admitted contribution, latch serial demand if it did not
\* publish, and admit from the parked FIFO what the freed place allows.
Finalize(s, published, charged) ==
  LET left  == admitted \ {s}
      newly == Drained(left)
      moved == {p.slot : p \in newly}
  IN /\ ref' = [ref EXCEPT ![s] = NoIssue]
     /\ open' = open \ {s}
     /\ admitted' = left \cup moved
     /\ parked' = parked \ newly
     /\ held' = held \ ({s} \cup moved)
     /\ serialLatched' = (serialLatched \/ ~published)
     /\ turn' = turn + 1
     /\ ReleaseAttempt(ref[s], charged)
     /\ UNCHANGED <<inSetup, unitsSpent, stopLatched, phase>>

RequestSerial(demand) ==
  /\ serialLatched' = (serialLatched \/ demand)
  /\ UNCHANGED <<ref, held, inSetup, open, admitted, parked, worked, unitsSpent,
                 turn, stopLatched, phase>>

\* serial_turn, and the driver's may_start_work before it.
SerialReady == Remaining > 0 /\ ~stopLatched /\ serialLatched /\ Quiescent

SerialTurn ==
  /\ phase' = "serial_ownership"
  /\ serialLatched' = FALSE
  /\ UNCHANGED <<ref, held, inSetup, open, admitted, parked, worked, unitsSpent,
                 turn, stopLatched>>

\* serial_finished, after the driver has folded the Iteration's unit in.
\* A Strike the Iteration charged releases the ownership of issue i.
SerialFinished(i, charged, resumes) ==
  /\ unitsSpent' = unitsSpent + 1
  /\ ReleaseAttempt(i, charged)
  /\ phase' = IF resumes THEN "refill_turn" ELSE phase
  /\ UNCHANGED <<ref, held, inSetup, open, admitted, parked, turn,
                 serialLatched, stopLatched>>

RequestStopDrain ==
  /\ stopLatched' = TRUE
  /\ UNCHANGED <<ref, held, inSetup, open, admitted, parked, worked, unitsSpent,
                 turn, serialLatched, phase>>
=============================================================================
