--------------------------- MODULE AccountControl ---------------------------
(***************************************************************************)
(* One account for all sessions of a Run, and what a refusal of it does.   *)
(*                                                                         *)
(* A rate refusal closes admission for a cooldown; after it one ordinary   *)
(* worker is admitted as the probe, and only positive interaction of that  *)
(* probe reopens.  Retries and waiting are budgeted for the whole Run.  A  *)
(* hard refusal, unusable timing or a spent budget stops admission.  The   *)
(* driver reserves Lanes and waits out the cooldown; Lanes, their Recovery *)
(* and the preparation pass hold the sessions.  Time is counted in the     *)
(* fallback of the first cooldown, 30 s.                                   *)
(***************************************************************************)
EXTENDS Integers, FiniteSets

CONSTANTS
    Lanes,      \* Lane slots
    Prep,       \* the preparation pass: classifiers and selectors
    Retries,    \* retries_remaining at first
    Budget,     \* wait_remaining at first
    Delays,     \* provider delays: units of time, or Missing or Invalid
    Missing, Invalid,
    Units,      \* max_iterations
    Work        \* bound: candidates the Run will ever find

ASSUME AccountAssumption ==
    /\ Prep \notin Lanes /\ IsFiniteSet(Lanes)
    /\ Retries \in Nat /\ Budget \in Nat /\ Units \in Nat /\ Work \in Nat
    /\ Delays \subseteq Nat \cup {Missing, Invalid}
    /\ Missing \notin Nat /\ Invalid \notin Nat /\ Missing # Invalid

VARIABLES
    state,        \* open, cooldown, probing or stopping
    probeActive,
    interrupted,  \* stop(), or the operator's Stop
    stopped,      \* the operator's Stop
    retries, wait,
    left,         \* until _deadline, negative once it has passed
    error,        \* none, rate or hard
    driver,       \* turn, peek (its await of the Priority work), asleep or over
    lane,         \* free, setup, dispatch, worker, integrating or recovery
    session,      \* who holds a session under way: Lanes and Prep
    probe, good,  \* those that were admitted as the probe; that interacted
    units, work,
    floor         \* until the latest minimum any provider has asked for

accountVars == <<state, probeActive, retries, wait, left, error, floor>>
sessionVars == <<session, probe, good>>
vars == <<accountVars, interrupted, stopped, driver, lane, sessionVars, units, work>>

Holders == Lanes \cup {Prep}
Least(a, b) == IF a < b THEN a ELSE b
Most(a, b) == IF a < b THEN b ELSE a

\* Bound: an overrun that no wait budget can pay for is not counted further.
Overrun == -Budget

Init ==
    /\ state = "open" /\ probeActive = FALSE /\ interrupted = FALSE /\ stopped = FALSE
    /\ retries = Retries /\ wait = Budget /\ left = 0 /\ error = "none" /\ floor = 0
    /\ driver = "turn" /\ lane = [l \in Lanes |-> "free"]
    /\ session = {} /\ probe = {} /\ good = {}
    /\ units = Units /\ work = Work

-----------------------------------------------------------------------------
(* AccountControl *)

Halt == state' = "stopping" /\ interrupted' = TRUE

\* The fallback is a floor under a valid provider delay.
Cooldown(d) == Most(IF retries = Retries THEN 1 ELSE 2, IF d = Missing THEN 0 ELSE d)

\* Mutant: a refusal during the cooldown is one more report of the same.
ExtendNever(d) == UNCHANGED <<state, interrupted, wait, left>>

\* Mutant: an extension is not held against the Run's budget.
ExtendUnbudgeted(d) ==
    LET extension == IF d = Missing THEN 0 ELSE Most(0, d - left)
    IN  /\ wait' = wait - extension /\ left' = left + extension
        /\ UNCHANGED <<state, interrupted>>

\* A refusal in the cooldown: missing timing adds nothing, a provider's
\* minimum may extend it within the budget.  It is counted from the deadline,
\* so what the driver overslept is charged too.
Extend(d) ==
    LET extension == IF d = Missing THEN 0 ELSE Most(0, d - left)
    IN  IF extension > wait THEN Halt /\ UNCHANGED <<wait, left>>
        ELSE /\ wait' = wait - extension /\ left' = left + extension
             /\ UNCHANGED <<state, interrupted>>

Begin(d) ==
    IF retries = 0 \/ Cooldown(d) > wait THEN Halt /\ UNCHANGED <<wait, left>>
    ELSE /\ state' = "cooldown" /\ UNCHANGED interrupted
         /\ wait' = wait - Cooldown(d) /\ left' = Cooldown(d)

\* refuse: a hard refusal cannot be downgraded by another Lane's rate report.
Refuse(kind, d) ==
    /\ floor' = IF kind = "rate" /\ d \in Nat THEN Most(floor, d) ELSE floor
    /\ UNCHANGED <<probeActive, retries>>
    /\ IF state = "stopping" /\ (error # "rate" \/ kind = "rate")
       THEN UNCHANGED <<state, interrupted, wait, left, error>>
       ELSE /\ error' = kind
            /\ CASE kind = "hard" \/ d = Invalid -> Halt /\ UNCHANGED <<wait, left>>
                 [] OTHER -> IF state = "cooldown" THEN Extend(d) ELSE Begin(d)

Refusals == ({"rate"} \X Delays) \cup {<<"hard", Missing>>}

\* Mutant: a probe that ends well reopens, also behind an operator's Stop.
FinishedReopening(x, successful) ==
    IF x \notin probe \/ state # "probing"
    THEN UNCHANGED <<accountVars, interrupted>>
    ELSE /\ probeActive' = FALSE
         /\ UNCHANGED <<retries, wait, left, error, floor>>
         /\ IF successful THEN state' = "open" /\ UNCHANGED interrupted ELSE Halt

\* finished: only the probe reports, and only while it is still asked for.
Finished(x, successful) ==
    IF x \notin probe \/ state # "probing"
    THEN UNCHANGED <<accountVars, interrupted>>
    ELSE /\ probeActive' = FALSE
         /\ UNCHANGED <<retries, wait, left, error, floor>>
         /\ IF ~successful THEN Halt
            ELSE state' = (IF interrupted THEN state ELSE "open") /\ UNCHANGED interrupted

\* admit: who would be let in, and whether as the probe.
Admits(ordinary) ==
    state = "open" \/ (state = "probing" /\ ~interrupted /\ ~probeActive /\ ordinary)

OrdinaryAvailable == Admits(TRUE)

\* create_session, from the admission on.
Enter(x) ==
    /\ session' = session \cup {x}
    /\ IF state = "probing"
       THEN probe' = probe \cup {x} /\ probeActive' = TRUE /\ retries' = retries - 1
       ELSE UNCHANGED <<probe, probeActive, retries>>
    /\ UNCHANGED <<good, state, wait, left, error, floor, interrupted>>

Leave(x) ==
    /\ session' = session \ {x} /\ probe' = probe \ {x} /\ good' = good \ {x}

-----------------------------------------------------------------------------
(* Sessions: AccountClient and _AccountSession *)

\* What the events of a session say: of the account, or of interaction.
Reports(x) ==
    /\ x \in session
    /\ \/ /\ good' = good \ {x}
          /\ \E r \in Refusals : Refuse(r[1], r[2])
       \/ /\ x \in probe
          /\ good' = IF x \in good THEN good \ {x} ELSE good \cup {x}
          /\ UNCHANGED <<accountVars, interrupted>>
    /\ UNCHANGED <<stopped, driver, lane, session, probe, units, work>>

\* What a Lane does when the session it held is over: a worker hands on to
\* Integration, a Recovery session to the gate, both may end there.
Onward(x) ==
    IF x = Prep THEN UNCHANGED lane
    ELSE \E next \in {"integrating", "free"} : lane' = [lane EXCEPT ![x] = next]

Ends(x) ==
    /\ x \in session
    /\ Finished(x, x \in good) /\ Leave(x) /\ Onward(x)
    /\ UNCHANGED <<stopped, driver, units, work>>

\* create_session or send_and_wait raises, the account's refusal or another.
Fails(x) ==
    /\ x \in session
    /\ \/ \E r \in Refusals : Refuse(r[1], r[2])
       \/ Finished(x, FALSE)
    /\ Leave(x) /\ Onward(x)
    /\ UNCHANGED <<stopped, driver, units, work>>

\* The preparation pass asks for an auxiliary session.
Prepare ==
    /\ driver # "over" /\ Prep \notin session /\ Admits(FALSE) /\ work > 0
    /\ Enter(Prep)
    /\ UNCHANGED <<stopped, driver, lane, units, work>>

-----------------------------------------------------------------------------
(* Lanes *)

\* The binding step: a reservation is released when no worker may start.
Bind(l) ==
    /\ lane[l] = "setup"
    /\ IF stopped \/ ~OrdinaryAvailable
       THEN lane' = [lane EXCEPT ![l] = "free"] /\ work' = work + 1
       ELSE /\ lane' \in {[lane EXCEPT ![l] = "dispatch"], [lane EXCEPT ![l] = "free"]}
            /\ UNCHANGED work
    /\ UNCHANGED <<accountVars, interrupted, stopped, driver, sessionVars, units>>

\* The unit is spent; admission may have closed since the binding step.
Dispatch(l) ==
    /\ lane[l] = "dispatch"
    /\ units' = Most(0, units - 1)
    /\ IF Admits(TRUE)
       THEN Enter(l) /\ lane' = [lane EXCEPT ![l] = "worker"]
       ELSE /\ lane' = [lane EXCEPT ![l] = "free"]
            /\ UNCHANGED <<accountVars, interrupted, sessionVars>>
    /\ UNCHANGED <<stopped, driver, work>>

\* Recovery asks for a session of its own, unless the account has a state.
Recover(l) ==
    /\ lane[l] = "integrating"
    /\ IF state = "open"
       THEN Enter(l) /\ lane' = [lane EXCEPT ![l] = "recovery"]
       ELSE /\ lane' = [lane EXCEPT ![l] = "free"]
            /\ UNCHANGED <<accountVars, interrupted, sessionVars>>
    /\ UNCHANGED <<stopped, driver, units, work>>

Integrated(l) ==
    /\ lane[l] = "integrating"
    /\ lane' = [lane EXCEPT ![l] = "free"]
    /\ UNCHANGED <<accountVars, interrupted, stopped, driver, sessionVars, units, work>>

-----------------------------------------------------------------------------
(* The driver *)

Pending == {l \in Lanes : lane[l] # "free"}

\* The turn's checks of account and Stop; it may await before it reserves.
Check ==
    /\ driver = "turn" /\ ~stopped /\ work > 0 /\ units > 0
    /\ state = "open" \/ (state = "probing" /\ ~interrupted /\ Pending = {})
    /\ driver' = "peek"
    /\ UNCHANGED <<accountVars, interrupted, stopped, lane, sessionVars, units, work>>

Reserved(S) ==
    /\ Cardinality(S) <= Least(work, units)
    /\ S = {} <=> stopped \/ Pending = Lanes \/ Least(work, units) = 0
    /\ lane' = [l \in Lanes |-> IF l \in S THEN "setup" ELSE lane[l]]
    /\ work' = work - Cardinality(S)
    /\ driver' = "turn"
    /\ UNCHANGED <<accountVars, interrupted, stopped, sessionVars, units>>

\* Mutant: a refill does not know that the account is only probing.
ReserveFreely == driver = "peek" /\ \E S \in SUBSET (Lanes \ Pending) : Reserved(S)

\* reserve: as the account is by now, while probing one Lane.  Lanes that a
\* refusal during the await should have kept back are let go in Bind.
Reserve ==
    /\ driver = "peek"
    /\ \E S \in SUBSET (Lanes \ Pending) :
           Reserved(S) /\ (state = "probing" => Cardinality(S) <= 1)
\* ready: the cooldown is waited out with nothing pending.
Sleep ==
    /\ driver = "turn" /\ Pending = {} /\ state = "cooldown" /\ ~interrupted /\ units > 0
    /\ driver' = "asleep"
    /\ UNCHANGED <<accountVars, interrupted, stopped, lane, sessionVars, units, work>>

\* Mutant: the flag of the probe that was refused is still set.
WakeForgetful ==
    /\ driver = "asleep" /\ left <= 0 /\ ~interrupted
    /\ state' = "probing" /\ driver' = "turn"
    /\ UNCHANGED <<probeActive, retries, wait, left, error, floor, interrupted, stopped, lane,
                   sessionVars, units, work>>

\* An extended deadline is slept to before anything is probed.
Wake ==
    /\ driver = "asleep" /\ left <= 0 /\ ~interrupted
    /\ state' = "probing" /\ probeActive' = FALSE /\ driver' = "turn"
    /\ UNCHANGED <<retries, wait, left, error, floor, interrupted, stopped, lane,
                   sessionVars, units, work>>

\* A deadline that has passed is read only while the cooldown lasts.
Tick ==
    LET last == IF state = "cooldown" THEN Overrun ELSE 0
    IN  /\ left > last \/ floor > 0
        /\ left' = (IF left > last THEN left - 1 ELSE left) /\ floor' = Most(0, floor - 1)
        /\ UNCHANGED <<state, probeActive, retries, wait, error, interrupted, stopped, driver,
                       lane, sessionVars, units, work>>

\* The preparation pass is cancelled before the Run's end is decided.
Cancelled == Leave(Prep)

\* ready answers FALSE: the account is stopping or a Stop has interrupted it.
Refused ==
    /\ driver \in {"turn", "asleep"} /\ Pending = {} /\ state # "open" /\ interrupted
    /\ driver' = "over" /\ Cancelled
    /\ UNCHANGED <<accountVars, interrupted, stopped, lane, units, work>>

\* The cap leaves no unit for a probe, or the Run finds nothing to probe
\* with, or a healthy Run has nothing left to do or is stopped.
Finish ==
    /\ driver = "turn" /\ Pending = {}
    /\ stopped \/ work = 0 \/ units = 0
    /\ driver' = "over" /\ Cancelled
    /\ IF state = "open" \/ stopped THEN UNCHANGED <<state, interrupted>> ELSE Halt
    /\ UNCHANGED <<probeActive, retries, wait, left, error, floor, stopped, lane, units, work>>

\* request_stop_drain, at any await.
OperatorStop ==
    /\ driver # "over" /\ ~stopped
    /\ stopped' = TRUE /\ interrupted' = TRUE
    /\ UNCHANGED <<accountVars, driver, lane, sessionVars, units, work>>

Over == driver = "over" /\ UNCHANGED vars

Steps(x) == Ends(x) \/ Fails(x)
LaneSteps(l) == Bind(l) \/ Dispatch(l) \/ Recover(l) \/ Integrated(l)
DriverSteps == Check \/ Reserve \/ Sleep \/ Wake \/ Refused \/ Finish

Next ==
    \/ \E x \in Holders : Steps(x) \/ Reports(x)
    \/ \E l \in Lanes : LaneSteps(l)
    \/ DriverSteps \/ Prepare \/ Tick \/ OperatorStop \/ Over

Spec == Init /\ [][Next]_vars

\* The event loop runs what can run, a session ends, time passes.
FairSpec ==
    /\ Spec /\ WF_vars(DriverSteps) /\ WF_vars(Tick)
    /\ \A x \in Holders : WF_vars(Steps(x))
    /\ \A l \in Lanes : WF_vars(LaneSteps(l))

-----------------------------------------------------------------------------
(* Properties *)

TypeOK ==
    /\ state \in {"open", "cooldown", "probing", "stopping"}
    /\ probeActive \in BOOLEAN /\ interrupted \in BOOLEAN /\ stopped \in BOOLEAN
    /\ retries \in 0..Retries /\ wait \in 0..Budget /\ left \in Overrun..Budget /\ floor \in Nat
    /\ error \in {"none", "rate", "hard"}
    /\ driver \in {"turn", "peek", "asleep", "over"}
    /\ lane \in [Lanes -> {"free", "setup", "dispatch", "worker", "integrating", "recovery"}]
    /\ session \subseteq Holders /\ probe \subseteq session \cap Lanes /\ good \subseteq probe
    /\ units \in 0..Units /\ work \in 0..Work

\* A session is admitted here.
Admitted == \E x \in Holders : x \notin session /\ x \in session'

\* The probe is the only worker: no other ordinary session is under way or
\* admitted until it has ended, and no two are ever the probe.
ProbeIsAlone ==
    \A x \in probe : \A l \in Lanes \ {x} : lane[l] = "free"

\* No session is admitted before the latest minimum any provider has asked
\* for, in whatever state and from whichever session the refusal came.
NeverRetriedEarly == [][Admitted => floor = 0]_vars

\* Admission that stopped, or that the operator's Stop found in an episode,
\* stays closed: the probe's late success does not reopen it.
AdmissionStaysClosed ==
    [][state = "stopping" \/ (state # "open" /\ interrupted) => ~Admitted /\ state' # "open"]_vars

\* Every cooldown comes to a verdict: health, or an explicit end.
EpisodeEnds ==
    state \in {"cooldown", "probing"} ~> state \in {"open", "stopping"} \/ driver = "over"
=============================================================================
