---------------------------- MODULE Concurrency ----------------------------
(***************************************************************************)
(* Adaptive Lane concurrency: the controller that moves the effective Lane *)
(* limit, the signals it is fed, and the refill it bounds.                 *)
(*                                                                         *)
(* The driver takes one observation per interval and then reserves up to   *)
(* the limit.  Rate limits, a full Integration backlog, host pressure and  *)
(* credit burn contract the limit; a streak of healthy observations gives  *)
(* one Lane back.  Dispatches that never started are themselves reported   *)
(* as host pressure, until one starts or so many fail that the Run ends.   *)
(* Ratios are in percent of their budget.                                  *)
(***************************************************************************)
EXTENDS Integers, SequencesExt, FiniteSetsExt

CONSTANTS
    Cap,         \* configured_lane_cap
    Static,      \* STATIC_SAFE_LANE_LIMIT
    Window,      \* OBSERVATION_WINDOW
    Cooling,     \* COOLDOWN_OBSERVATIONS
    Healthy,     \* HEALTHY_OBSERVATIONS
    RateAt,      \* RATE_LIMIT_THRESHOLD
    FullAt,      \* INTEGRATION_FULL_THRESHOLD
    FullAllowed, \* HEALTHY_INTEGRATION_FULL_ALLOWANCE
    Floor,       \* INTEGRATION_PRESSURE_FLOOR
    HighWater,   \* INTEGRATION_HIGH_WATER
    Repeated,    \* dispatch failures that show as host pressure
    Exhausted,   \* dispatch failures that end the Run
    Readings,    \* what the telemetry may read: [rate, credit, host]
    Calm,        \* the reading of an environment at rest
    Unknown,     \* a signal that cannot be read
    Work         \* bound: issues at a time

ASSUME ConcurrencyAssumption ==
    /\ Cap \in Nat \ {0} /\ Static \in Nat \ {0}
    /\ Window \in Nat \ {0} /\ Cooling \in Nat /\ Healthy \in Nat \ {0}
    /\ RateAt \in Nat \ {0} /\ FullAt \in Nat \ {0} /\ FullAllowed \in Nat /\ Floor \in Nat
    /\ HighWater \in Nat \ {0} /\ Repeated \in Nat \ {0} /\ Exhausted \in Nat \ {0}
    /\ Unknown \notin Nat /\ Work \in Nat /\ Calm \in Readings
    /\ Readings \subseteq [rate : Nat \cup {Unknown}, credit : Nat \cup {Unknown},
                           host : Nat \cup {Unknown}]

VARIABLES
    limit, window, since, streak,  \* ConcurrencyController
    failures, exhausted,           \* HostSetupPressure, and the driver's latch of it
    work, out, parked, admitted,   \* candidates; contributions by where they are
    settled,                       \* the environment is at rest from here on
    observable,                    \* host_load_observable, at the start of the Run
    over

controllerVars == <<limit, window, since, streak>>
pipelineVars == <<work, out, parked, admitted>>
vars == <<controllerVars, failures, exhausted, pipelineVars, settled, observable, over>>

Least(a, b) == IF a < b THEN a ELSE b
Most(a, b) == IF a < b THEN b ELSE a

\* Bound of since: no rule and no property tells longer times apart.
Saturate == Most(Cooling, Most(Window, Healthy))

Held == out + parked
Issues == work + out + parked + admitted

Init ==
    /\ observable \in BOOLEAN
    /\ limit = (IF observable THEN Cap ELSE Least(Cap, Static))
    /\ window = <<>> /\ since = Cooling /\ streak = 0
    /\ failures = 0 /\ exhausted = FALSE
    /\ work \in 0..Work /\ out = 0 /\ parked = 0 /\ admitted = 0
    /\ settled = FALSE /\ over = FALSE

-----------------------------------------------------------------------------
(* Observations *)

\* HostSetupPressure, just over HOST_PRESSURE_RATIO.
SetupPressure == IF failures < Repeated THEN Unknown ELSE 103

\* The maximum of the host readings there are.
HostPressure(read) ==
    IF SetupPressure = Unknown THEN read
    ELSE IF read = Unknown THEN SetupPressure ELSE Most(read, SetupPressure)

Sample(r) ==
    [rate |-> r.rate, credit |-> r.credit, host |-> HostPressure(r.host),
     full |-> admitted >= HighWater]

\* Sum of a signal over the window w, whose every sample has it.
Known(w, signal) == \A i \in DOMAIN w : w[i][signal] # Unknown
Total(w, signal) == FoldSeq(LAMBDA o, sum : o[signal] + sum, 0, w)
Fulls(w) == Cardinality({i \in DOMAIN w : w[i].full})

Sustained(w, signal, ratio) ==
    Known(w, signal) /\ Len(w) >= Window /\ Total(w, signal) > ratio * Len(w)

RatePressure(w) == Known(w, "rate") /\ Total(w, "rate") >= RateAt

IntegrationPressure(w) == Len(w) >= Window /\ Fulls(w) >= FullAt /\ parked > 0

\* Whether the latest observation of w shows slack.
IsHealthy(w) ==
    /\ Last(w).rate \in {0, Unknown} /\ parked = 0 /\ work > 0
    /\ Fulls(w) <= FullAllowed
    /\ Known(w, "host") => Total(w, "host") < 85 * Len(w)

\* A change is reported also when a limit of 0 is contracted to 0.
Contracts(w) ==
    /\ Held <= limit
    /\ \/ RatePressure(w)
       \/ IntegrationPressure(w) /\ limit > Floor
       \/ Sustained(w, "host", 102) \/ Sustained(w, "credit", 110)

\* The strongest reaction only.
Contracted(w) == Most(0, limit - (IF RatePressure(w) THEN 2 ELSE 1))

Ceiling(w) == IF observable /\ Known(w, "host") THEN Cap ELSE Least(Cap, Static)

\* Mutant: a host that can be read now may be used to its capacity.
RecoversToCap(w, s) == s >= Healthy /\ limit < Cap

\* Mutant: capacity is given back only to a Run that still holds some.
RecoversFromOne(w, s) == s >= Healthy /\ limit < Ceiling(w) /\ limit > 0

Recovers(w, s) == s >= Healthy /\ limit < Ceiling(w)

\* Mutant: the samples of the previous limit judge the next one too.
ChangeKeepingWindow(after, w) ==
    limit' = after /\ window' = w /\ since' = 0 /\ streak' = 0

\* Every rule is over observations of the current limit.
Change(after, w) ==
    limit' = after /\ window' = <<>> /\ since' = 0 /\ streak' = 0

\* observe, on the sampled reading r.  since and streak saturate.
Observe(r) ==
    /\ ~over /\ ~exhausted
    /\ settled => r = Calm
    /\ LET w == LET all == Append(window, Sample(r))
                IN  IF Len(all) > Window THEN Tail(all) ELSE all
           s == IF IsHealthy(w) THEN Least(streak + 1, Healthy) ELSE 0
           n == Least(since + 1, Saturate)
       IN  IF n >= Cooling /\ Contracts(w) THEN Change(Contracted(w), w)
           ELSE IF n >= Cooling /\ Recovers(w, s) THEN Change(limit + 1, w)
           ELSE window' = w /\ since' = n /\ streak' = s /\ UNCHANGED limit
    /\ UNCHANGED <<failures, exhausted, pipelineVars, settled, observable, over>>

-----------------------------------------------------------------------------
(* The refill and the pipeline *)

Refillable ==
    IF admitted >= HighWater THEN 0 ELSE Most(0, limit - Held)

Reserve ==
    LET n == Least(Refillable, work)
    IN  /\ ~over /\ ~exhausted /\ n > 0
        /\ work' = work - n /\ out' = out + n
        /\ UNCHANGED <<controllerVars, failures, exhausted, parked, admitted, settled,
                       observable, over>>

\* A contribution comes back: its dispatch had started, and it is admitted
\* or parked in its Lane.
Delivers ==
    /\ out > 0 /\ out' = out - 1 /\ failures' = 0
    /\ IF admitted < HighWater
       THEN admitted' = admitted + 1 /\ UNCHANGED parked
       ELSE parked' = parked + 1 /\ UNCHANGED admitted
    /\ UNCHANGED <<controllerVars, exhausted, work, settled, observable, over>>

\* A dispatch that never started, unless the environment is at rest; the
\* issue is offered again.
NeverStarts ==
    /\ out > 0 /\ ~settled
    /\ out' = out - 1 /\ work' = work + 1
    /\ failures' = failures + 1
    /\ exhausted' = (exhausted \/ failures' >= Exhausted)
    /\ UNCHANGED <<controllerVars, parked, admitted, settled, observable, over>>

\* Other endings that never reach Integration; a breach did start.
EndsEarly ==
    /\ out > 0 /\ out' = out - 1
    /\ failures' \in {failures, 0}
    /\ UNCHANGED <<controllerVars, exhausted, work, parked, admitted, settled, observable, over>>

\* finalize, and the oldest parked contribution takes the place.
Finalize ==
    /\ admitted > 0
    /\ IF parked > 0
       THEN parked' = parked - 1 /\ UNCHANGED admitted
       ELSE admitted' = admitted - 1 /\ UNCHANGED parked
    /\ UNCHANGED <<controllerVars, failures, exhausted, work, out, settled, observable, over>>

\* preflight_failed, once nothing is pending.
Ends ==
    /\ exhausted /\ ~over /\ Held = 0 /\ admitted = 0
    /\ over' = TRUE
    /\ UNCHANGED <<controllerVars, failures, exhausted, pipelineVars, settled, observable>>

-----------------------------------------------------------------------------
(* The environment *)

Arrives ==
    /\ ~over /\ Issues < Work /\ work' = work + 1
    /\ UNCHANGED <<controllerVars, failures, exhausted, out, parked, admitted, settled,
                   observable, over>>

\* Signals are calm and dispatches start from here on.
Settles ==
    /\ ~settled /\ settled' = TRUE
    /\ UNCHANGED <<controllerVars, failures, exhausted, pipelineVars, observable, over>>

Over == over /\ UNCHANGED vars

Returns == Delivers \/ EndsEarly \/ NeverStarts
Observes == \E r \in Readings : Observe(r)

Next ==
    \/ Observes \/ Reserve \/ Delivers \/ NeverStarts \/ EndsEarly \/ Finalize \/ Ends
    \/ Arrives \/ Settles \/ Over

Spec == Init /\ [][Next]_vars

\* Intervals elapse, the driver's turn comes, dispatched work comes back.
FairSpec ==
    Spec /\ WF_vars(Observes) /\ WF_vars(Reserve) /\ WF_vars(Returns)
         /\ WF_vars(Finalize) /\ WF_vars(Ends)

-----------------------------------------------------------------------------
(* Properties *)

\* A Run that could not see its host's load never leaves the safe limit.
TypeOK ==
    /\ limit \in 0..(IF observable THEN Cap ELSE Least(Cap, Static))
    /\ window \in Seq([rate : Nat \cup {Unknown}, credit : Nat \cup {Unknown},
                       host : Nat \cup {Unknown}, full : BOOLEAN])
    /\ Len(window) <= Window
    /\ since \in 0..Saturate /\ streak \in 0..Healthy
    /\ failures \in Nat /\ exhausted \in BOOLEAN
    /\ work \in 0..Work /\ out \in 0..Cap /\ parked \in 0..Cap /\ admitted \in 0..HighWater
    /\ Held <= Cap /\ settled \in BOOLEAN
    /\ observable \in BOOLEAN /\ over \in BOOLEAN

\* No limit is judged by evidence another limit produced, whatever order
\* contractions, recoveries and observations come in.
EvidenceIsCurrent == Len(window) <= since /\ streak <= since

\* Once the environment is at rest, a Run that has work and no Lane to do it
\* in is given one, unless it still holds the failures of its dispatches.
ZeroRecovers ==
    settled /\ limit = 0 /\ work > 0 /\ failures < Repeated ~> limit > 0 \/ over

\* A limit of zero recovers through the same healthy rule as any other.
ZeroIsLeft == settled /\ limit = 0 /\ work > 0 ~> limit > 0 \/ over
=============================================================================
