--------------------------- MODULE AccountProofs ---------------------------
(***************************************************************************)
(* For any number of Lanes, retries, units and candidates, any wait budget *)
(* and any delays a provider may ask for.                                  *)
(***************************************************************************)
EXTENDS AccountControl, FiniteSetTheorems, TLAPS

\* A new cooldown is paid for with a retry, and every wait out of the budget.
Budgeted ==
    /\ left + wait <= Budget
    /\ state = "cooldown" => retries > 0
    /\ state = "probing" /\ ~probeActive /\ ~interrupted => retries > 0

\* A provider's minimum that has not passed is a cooldown still to be slept,
\* or the end of admission.
Slept ==
    floor > 0 => state = "stopping" \/ (state = "cooldown" /\ floor <= left)

AccountInv ==
    /\ state \in {"open", "cooldown", "probing", "stopping"}
    /\ probeActive \in BOOLEAN /\ interrupted \in BOOLEAN /\ stopped \in BOOLEAN
    /\ retries \in 0..Retries /\ wait \in 0..Budget /\ left \in Overrun..Budget
    /\ floor \in Nat
    /\ error \in {"none", "rate", "hard"}
    /\ state = "stopping" => interrupted
    /\ Budgeted /\ Slept

Stages == {"free", "setup", "dispatch", "worker", "integrating", "recovery"}

\* Where the probe is nobody else can be, until it has ended.
SessionInv ==
    /\ driver \in {"turn", "peek", "asleep", "over"} /\ lane \in [Lanes -> Stages]
    /\ session \subseteq Holders /\ probe \subseteq session \cap Lanes /\ good \subseteq probe
    /\ \A l \in Lanes : l \in session <=> lane[l] \in {"worker", "recovery"}
    /\ \A x \in probe :
           /\ state # "open" /\ lane[x] = "worker"
           /\ \A l \in Lanes \ {x} : lane[l] = "free"
    /\ driver = "asleep" =>
           state \in {"cooldown", "stopping"} /\ \A l \in Lanes : lane[l] = "free"
    /\ driver = "peek" =>
           probe = {} /\ (state = "probing" => \A l \in Lanes : lane[l] = "free")
    /\ state = "probing" =>
           \A k, l \in Lanes : lane[k] # "free" /\ lane[l] # "free" => k = l

\* A candidate that is given back was taken before.
Setup == {l \in Lanes : lane[l] = "setup"}
WorkInv == units \in 0..Units /\ work \in Nat /\ work + Cardinality(Setup) <= Work

Inv == AccountInv /\ SessionInv /\ WorkInv

-----------------------------------------------------------------------------
(* AccountControl *)

\* A refusal closes admission: it begins, extends or ends the episode.
LEMMA RefuseKeeps ==
  ASSUME AccountInv, NEW r \in Refusals, Refuse(r[1], r[2]), UNCHANGED stopped
  PROVE  /\ AccountInv' /\ state' \in {"cooldown", "stopping"}
         /\ interrupted => interrupted'
         /\ state = "stopping" => state' = "stopping"
<1> DEFINE kind == r[1]
           d == r[2]
           extension == IF d = Missing THEN 0 ELSE Most(0, d - left)
<1>1. /\ kind \in {"rate", "hard"} /\ d \in Nat \cup {Missing, Invalid}
      /\ kind = "hard" => d = Missing
      /\ Missing \notin Nat /\ Invalid \notin Nat /\ Missing # Invalid
      /\ Retries \in Nat /\ Budget \in Nat
  <2>1. r \in {"rate"} \X Delays \/ r = <<"hard", Missing>>
    BY DEF Refusals
  <2>2. CASE r \in {"rate"} \X Delays
    <3>1. r[1] = "rate" /\ r[2] \in Delays
      BY <2>2
    <3> QED  BY <3>1, AccountAssumption
  <2>3. CASE r = <<"hard", Missing>>
    BY <2>3, AccountAssumption
  <2> QED  BY <2>1, <2>2, <2>3
<1>2. UNCHANGED <<probeActive, retries, stopped>>
  BY DEF Refuse
<1>3. floor' = IF kind = "rate" /\ d \in Nat THEN Most(floor, d) ELSE floor
  BY DEF Refuse
<1>4. floor' \in Nat
  BY <1>1, <1>3 DEF AccountInv, Most
<1> HIDE DEF kind, d
<1>5. CASE state = "stopping" /\ (error # "rate" \/ kind = "rate")
  <2>1. UNCHANGED <<state, interrupted, wait, left, error>>
    BY <1>5 DEF Refuse, kind
  <2> QED  BY <1>2, <1>4, <1>5, <2>1 DEF AccountInv, Budgeted, Slept
<1>6. CASE ~(state = "stopping" /\ (error # "rate" \/ kind = "rate"))
  <2>1. /\ error' = kind
        /\ \/ (kind = "hard" \/ d = Invalid) /\ Halt /\ UNCHANGED <<wait, left>>
           \/ /\ kind = "rate" /\ d # Invalid /\ state # "stopping"
              /\ IF state = "cooldown" THEN Extend(d) ELSE Begin(d)
    BY <1>1, <1>6 DEF Refuse, kind, d
  <2>2. CASE Halt /\ UNCHANGED <<wait, left>>
    BY <1>1, <1>2, <1>4, <2>1, <2>2 DEF Halt, AccountInv, Budgeted, Slept
  <2>3. CASE /\ kind = "rate" /\ d # Invalid /\ state = "cooldown" /\ Extend(d)
             /\ ~(Halt /\ UNCHANGED <<wait, left>>)
    <3>1. /\ extension <= wait /\ wait' = wait - extension /\ left' = left + extension
          /\ UNCHANGED <<state, interrupted>> /\ extension \in Nat
      BY <1>1, <2>3 DEF Extend, AccountInv, Most
    <3>2. left \in Int /\ Overrun \in Int /\ Overrun <= left
      BY <1>1 DEF AccountInv, Overrun
    <3>3. floor' <= left' \/ floor' = 0
      <4>1. d \in Nat => d <= left'
        BY <1>1, <3>1, <3>2 DEF Most
      <4>2. floor > 0 => floor <= left'
        BY <2>3, <3>1, <3>2 DEF AccountInv, Slept
      <4> QED  BY <1>1, <1>3, <4>1, <4>2 DEF AccountInv, Most
    <3> HIDE DEF extension
    <3>4. wait' \in 0..Budget /\ left' \in Overrun..Budget /\ left' + wait' <= Budget
      BY <1>1, <3>1, <3>2 DEF AccountInv, Budgeted
    <3> QED  BY <1>1, <1>2, <1>4, <2>1, <2>3, <3>1, <3>3, <3>4 DEF AccountInv, Budgeted, Slept
  <2>4. CASE /\ kind = "rate" /\ d # Invalid /\ state \in {"open", "probing"} /\ Begin(d)
             /\ ~(Halt /\ UNCHANGED <<wait, left>>)
    <3>1. Cooldown(d) \in Nat /\ (d \in Nat => d <= Cooldown(d))
      BY <1>1, <2>4 DEF Cooldown, Most
    <3>2. /\ retries # 0 /\ Cooldown(d) <= wait
          /\ state' = "cooldown" /\ UNCHANGED interrupted
          /\ wait' = wait - Cooldown(d) /\ left' = Cooldown(d)
      BY <2>4, <3>1 DEF Begin, AccountInv
    <3>3. floor' <= left'
      BY <1>1, <1>3, <2>4, <3>1, <3>2 DEF AccountInv, Slept, Most
    <3>4. wait' \in 0..Budget /\ left' \in Overrun..Budget /\ left' + wait' <= Budget
      BY <1>1, <3>1, <3>2 DEF AccountInv, Budgeted, Overrun
    <3> QED  BY <1>1, <1>2, <1>4, <2>1, <2>4, <3>2, <3>3, <3>4 DEF AccountInv, Budgeted, Slept
  <2> QED  BY <2>1, <2>2, <2>3, <2>4 DEF AccountInv
<1> QED  BY <1>5, <1>6

\* Only a probe reports, and only to an episode that nothing has interrupted.
LEMMA FinishedKeeps ==
  ASSUME AccountInv, NEW x, NEW successful \in BOOLEAN, Finished(x, successful),
         UNCHANGED stopped
  PROVE  /\ AccountInv' /\ (interrupted => interrupted')
         /\ \/ state' = state
            \/ x \in probe /\ state = "probing" /\ state' \in {"open", "stopping"}
         /\ state' = "open" => state = "open" \/ ~interrupted
<1>1. CASE x \notin probe \/ state # "probing"
  BY <1>1 DEF Finished, accountVars, AccountInv, Budgeted, Slept
<1>2. CASE ~(x \notin probe \/ state # "probing")
  <2>1. probeActive' = FALSE /\ UNCHANGED <<retries, wait, left, error, floor>>
    BY <1>2 DEF Finished
  <2>2. CASE ~successful
    BY <1>2, <2>1, <2>2 DEF Finished, Halt, AccountInv, Budgeted, Slept
  <2>3. CASE successful
    <3>1. state' = (IF interrupted THEN state ELSE "open") /\ UNCHANGED interrupted
      BY <1>2, <2>3 DEF Finished
    <3> QED  BY <1>2, <2>1, <3>1 DEF AccountInv, Budgeted, Slept
  <2> QED  BY <2>2, <2>3
<1> QED  BY <1>1, <1>2

\* A probe costs a retry; any other session enters an open account.
LEMMA EnterKeeps ==
  ASSUME AccountInv, NEW x, Admits(TRUE) \/ Admits(FALSE), Enter(x), UNCHANGED stopped
  PROVE  /\ AccountInv' /\ UNCHANGED <<state, interrupted, good>>
         /\ session' = session \cup {x} /\ floor = 0
         /\ \/ state = "open" /\ UNCHANGED probe
            \/ state = "probing" /\ probe' = probe \cup {x}
<1>1. state = "open" \/ (state = "probing" /\ ~interrupted /\ ~probeActive)
  BY DEF Admits
<1>2. /\ UNCHANGED <<good, state, wait, left, error, floor, interrupted>>
      /\ session' = session \cup {x}
  BY DEF Enter
<1>3. floor = 0
  BY <1>1 DEF AccountInv, Slept
<1>4. CASE state = "open"
  BY <1>2, <1>3, <1>4 DEF Enter, AccountInv, Budgeted, Slept
<1>5. CASE state = "probing"
  <2>1. probe' = probe \cup {x} /\ probeActive' = TRUE /\ retries' = retries - 1 /\ retries > 0
    BY <1>1, <1>5 DEF Enter, AccountInv, Budgeted
  <2>2. retries' \in 0..Retries
    BY <2>1, AccountAssumption DEF AccountInv
  <2> QED  BY <1>1, <1>2, <1>3, <1>5, <2>1, <2>2 DEF AccountInv, Budgeted, Slept
<1> QED  BY <1>1, <1>4, <1>5

-----------------------------------------------------------------------------
(* Candidates *)

LEMMA SetupIsFinite == IsFiniteSet(Setup) /\ Cardinality(Setup) \in Nat
<1>1. IsFiniteSet(Lanes) /\ Setup \in SUBSET Lanes
  BY AccountAssumption DEF Setup
<1> QED  BY <1>1, FS_Subset, FS_CardinalityType

\* A step that puts no Lane into setup.
LEMMA WorkKept ==
  ASSUME WorkInv, units' \in 0..Units, UNCHANGED work, Setup' \subseteq Setup
  PROVE  WorkInv'
<1>1. Setup' \in SUBSET Setup
  OBVIOUS
<1>2. IsFiniteSet(Setup') /\ Cardinality(Setup') <= Cardinality(Setup)
  BY <1>1, SetupIsFinite, FS_Subset
<1>3. Cardinality(Setup') \in Nat
  BY <1>2, FS_CardinalityType
<1> QED  BY <1>2, <1>3, SetupIsFinite, AccountAssumption DEF WorkInv

-----------------------------------------------------------------------------
(* Each step *)

LEMMA ReportsKeeps ==
  ASSUME Inv, NEW x \in Holders, Reports(x)
  PROVE  Inv'
<1> USE DEF Inv
<1>1. UNCHANGED <<stopped, driver, lane, session, probe, units, work>> /\ x \in session
  BY DEF Reports
<1>2. good' \subseteq probe'
  BY <1>1 DEF Reports, SessionInv
<1>3. AccountInv' /\ (state' = state \/ state' \in {"cooldown", "stopping"})
  <2>1. CASE \E r \in Refusals : Refuse(r[1], r[2])
    BY <1>1, <2>1, RefuseKeeps
  <2>2. CASE UNCHANGED <<accountVars, interrupted>>
    BY <1>1, <2>2 DEF accountVars, AccountInv, Budgeted, Slept
  <2> QED  BY <2>1, <2>2 DEF Reports
<1>4. SessionInv'
  BY <1>1, <1>2, <1>3 DEF SessionInv, Holders
<1>5. WorkInv'
  BY <1>1, WorkKept DEF Setup, WorkInv
<1> QED  BY <1>3, <1>4, <1>5

\* A session is over, however it came to that.
LEMMA StepsKeeps ==
  ASSUME Inv, NEW x \in Holders, Steps(x)
  PROVE  Inv'
<1> USE DEF Inv
<1>1. /\ UNCHANGED <<stopped, driver, units, work>> /\ x \in session /\ Leave(x) /\ Onward(x)
  BY DEF Steps, Ends, Fails
<1>2. /\ AccountInv'
      /\ \/ state' = state \/ state' \in {"cooldown", "stopping"}
         \/ x \in probe /\ state = "probing" /\ state' = "open"
  <2>1. CASE \E r \in Refusals : Refuse(r[1], r[2])
    BY <1>1, <2>1, RefuseKeeps
  <2>2. CASE \E successful \in BOOLEAN : Finished(x, successful)
    BY <1>1, <2>2, FinishedKeeps
  <2>3. \/ \E r \in Refusals : Refuse(r[1], r[2])
        \/ \E successful \in BOOLEAN : Finished(x, successful)
    <3>1. CASE Ends(x)
      <4>1. Finished(x, x \in good) /\ (x \in good) \in BOOLEAN
        BY <3>1 DEF Ends
      <4> QED  BY <4>1
    <3>2. CASE Fails(x)
      <4>1. FALSE \in BOOLEAN
        OBVIOUS
      <4> QED  BY <3>2, <4>1 DEF Fails
    <3> QED  BY <3>1, <3>2 DEF Steps
  <2> QED  BY <2>1, <2>2, <2>3
<1>3. \/ x = Prep /\ UNCHANGED lane
      \/ x \in Lanes /\ \E next \in {"integrating", "free"} : lane' = [lane EXCEPT ![x] = next]
  BY <1>1 DEF Onward, Holders
<1>4. /\ session' = session \ {x} /\ probe' = probe \ {x} /\ good' = good \ {x}
      /\ Prep \notin Lanes
  BY <1>1, AccountAssumption DEF Leave
<1>5. probe # {} /\ x \in Lanes => probe = {x}
  BY <1>1 DEF SessionInv
<1>6. SessionInv'
  <2>1. CASE x = Prep /\ UNCHANGED lane
    BY <1>1, <1>2, <1>4, <2>1 DEF SessionInv, Holders
  <2>2. CASE x \in Lanes /\ \E next \in {"integrating", "free"} : lane' = [lane EXCEPT ![x] = next]
    <3>1. probe' = {} /\ lane[x] \in {"worker", "recovery"}
      BY <1>1, <1>4, <1>5, <2>2 DEF SessionInv
    <3>2. \A l \in Lanes \ {x} : lane'[l] = lane[l]
      BY <2>2 DEF SessionInv
    <3>3. lane' \in [Lanes -> Stages] /\ lane'[x] \in {"integrating", "free"}
      BY <2>2 DEF SessionInv, Stages
    <3>4. driver # "asleep"
      BY <2>2, <3>1 DEF SessionInv
    <3> QED  BY <1>1, <1>2, <1>4, <2>2, <3>1, <3>2, <3>3, <3>4 DEF SessionInv, Holders
  <2> QED  BY <1>3, <2>1, <2>2
<1>7. Setup' \subseteq Setup
  BY <1>3 DEF Setup, SessionInv
<1>8. WorkInv'
  BY <1>1, <1>7, WorkKept DEF WorkInv
<1> QED  BY <1>2, <1>6, <1>8

LEMMA PrepareKeeps ==
  ASSUME Inv, Prepare
  PROVE  Inv'
<1> USE DEF Inv
<1>1. UNCHANGED <<stopped, driver, lane, units, work>> /\ Admits(FALSE) /\ Enter(Prep)
  BY DEF Prepare
<1>2. /\ AccountInv' /\ UNCHANGED <<state, interrupted, good, probe>>
      /\ session' = session \cup {Prep}
  <2>1. state = "open"
    BY <1>1 DEF Admits
  <2> QED  BY <1>1, <2>1, EnterKeeps
<1>3. SessionInv'
  BY <1>1, <1>2, AccountAssumption DEF SessionInv, Holders
<1>4. WorkInv'
  BY <1>1, WorkKept DEF WorkInv, Setup
<1> QED  BY <1>2, <1>3, <1>4

\* While the account probes the Lane that is dispatched is the only one.
LEMMA LaneStepsKeeps ==
  ASSUME Inv, NEW l \in Lanes, LaneSteps(l)
  PROVE  Inv'
<1> USE DEF Inv
<1>1. CASE Bind(l)
  <2>1. /\ UNCHANGED <<accountVars, interrupted, stopped, driver, sessionVars, units>>
        /\ lane[l] = "setup"
        /\ \E s \in {"free", "dispatch"} : lane' = [lane EXCEPT ![l] = s]
        /\ work' = work \/ work' = work + 1
    BY <1>1 DEF Bind
  <2>2. AccountInv'
    BY <2>1 DEF accountVars, AccountInv, Budgeted, Slept
  <2>3. SessionInv'
    BY <2>1 DEF accountVars, sessionVars, SessionInv, Stages
  <2>4. Setup' = Setup \ {l} /\ l \in Setup
    BY <2>1 DEF Setup, SessionInv
  <2>5. Cardinality(Setup') = Cardinality(Setup) - 1
    BY <2>4, SetupIsFinite, FS_RemoveElement
  <2>6. WorkInv'
    BY <2>1, <2>5, SetupIsFinite, AccountAssumption DEF WorkInv
  <2> QED  BY <2>2, <2>3, <2>6
<1>2. CASE /\ Dispatch(l) \/ Recover(l)
           /\ Admits(TRUE) \/ Admits(FALSE)
           /\ Enter(l)
  <2>1. /\ UNCHANGED <<stopped, driver, work>> /\ units' \in 0..Units
        /\ \/ lane[l] = "dispatch" /\ lane' = [lane EXCEPT ![l] = "worker"]
           \/ /\ lane[l] = "integrating" /\ lane' = [lane EXCEPT ![l] = "recovery"]
              /\ state = "open"
    <3>1. CASE Dispatch(l) /\ lane' = [lane EXCEPT ![l] = "worker"]
      BY <3>1, AccountAssumption DEF Dispatch, WorkInv, Most
    <3>2. CASE Recover(l) /\ state = "open"
      BY <3>2 DEF Recover, WorkInv
    <3>3. Dispatch(l) => lane' = [lane EXCEPT ![l] = "worker"]
      <4>1. l \notin session => l \in session'
        BY <1>2 DEF Enter
      <4> QED  BY <4>1, <1>2 DEF Dispatch, SessionInv, sessionVars
    <3>4. Recover(l) => state = "open"
      <4>1. l \notin session => l \in session'
        BY <1>2 DEF Enter
      <4> QED  BY <4>1, <1>2 DEF Recover, SessionInv, sessionVars
    <3> QED  BY <1>2, <3>1, <3>2, <3>3, <3>4
  <2>2. /\ AccountInv' /\ UNCHANGED <<state, interrupted, good>>
        /\ session' = session \cup {l}
        /\ \/ state = "open" /\ UNCHANGED probe
           \/ state = "probing" /\ probe' = probe \cup {l}
    BY <1>2, <2>1, EnterKeeps
  <2>3. \A k \in Lanes \ {l} : lane'[k] = lane[k]
    BY <2>1 DEF SessionInv
  <2>4. lane' \in [Lanes -> Stages] /\ lane'[l] \in {"worker", "recovery"}
    BY <2>1 DEF SessionInv, Stages
  <2>5. /\ \A k \in Lanes : k \in session' <=> lane'[k] \in {"worker", "recovery"}
        /\ session' \subseteq Holders /\ probe' \subseteq session' \cap Lanes
        /\ good' \subseteq probe'
    BY <2>2, <2>3, <2>4 DEF SessionInv, Holders
  <2>6. \A x \in probe' :
           /\ state' # "open" /\ lane'[x] = "worker"
           /\ \A k \in Lanes \ {x} : lane'[k] = "free"
    <3>1. CASE state = "open"
      BY <2>2, <3>1 DEF SessionInv
    <3>2. CASE state = "probing"
      <4>1. lane'[l] = "worker" /\ \A k \in Lanes \ {l} : lane[k] = "free"
        BY <2>1, <3>2 DEF SessionInv
      <4>2. probe' = {l}
        BY <2>1, <2>2, <3>2, <4>1 DEF SessionInv
      <4> QED  BY <2>2, <2>3, <3>2, <4>1, <4>2
    <3> QED  BY <2>2, <3>1, <3>2
  <2>7. SessionInv'
    <3>1. driver' # "asleep" /\ (driver' = "peek" => state = "open")
      BY <2>1, <2>2 DEF SessionInv
    <3>2. state' = "probing" =>
              \A j, k \in Lanes : lane'[j] # "free" /\ lane'[k] # "free" => j = k
      BY <2>1, <2>2, <2>3 DEF SessionInv
    <3>3. driver' = "peek" => probe' = {} /\ state' # "probing"
      BY <2>1, <2>2, <3>1 DEF SessionInv
    <3> QED  BY <2>1, <2>4, <2>5, <2>6, <3>1, <3>2, <3>3 DEF SessionInv
  <2>8. Setup' \subseteq Setup
    BY <2>1 DEF Setup, SessionInv
  <2> QED  BY <2>1, <2>2, <2>7, <2>8, WorkKept
<1>3. CASE /\ Dispatch(l) \/ Recover(l) \/ Integrated(l)
           /\ UNCHANGED <<accountVars, interrupted, sessionVars>>
           /\ lane' = [lane EXCEPT ![l] = "free"]
  <2>1. /\ UNCHANGED <<stopped, driver, work>> /\ units' \in 0..Units
        /\ lane[l] \in {"dispatch", "integrating"}
    <3>1. CASE Dispatch(l)
      BY <3>1, AccountAssumption DEF Dispatch, WorkInv, Most
    <3>2. CASE Recover(l) \/ Integrated(l)
      BY <3>2 DEF Recover, Integrated, WorkInv
    <3> QED  BY <1>3, <3>1, <3>2
  <2>2. AccountInv'
    BY <1>3, <2>1 DEF accountVars, AccountInv, Budgeted, Slept
  <2>3. SessionInv'
    BY <1>3, <2>1 DEF accountVars, sessionVars, SessionInv, Stages
  <2>4. Setup' \subseteq Setup
    BY <1>3 DEF Setup, SessionInv
  <2> QED  BY <2>1, <2>2, <2>3, <2>4, WorkKept
<1> QED  BY <1>1, <1>2, <1>3 DEF LaneSteps, Dispatch, Recover, Integrated, Admits

\* Time takes from what is left, so what fits the budget still does.
LEMMA Lowered ==
  \A a, b \in Int : \A c, d \in Nat : a <= b /\ b + c <= d => a + c <= d /\ a <= d
OBVIOUS

\* The driver sleeps and wakes with nothing pending, and a probe gets a Lane
\* to itself.
LEMMA DriverKeeps ==
  ASSUME Inv, DriverSteps \/ Tick \/ OperatorStop
  PROVE  Inv'
<1> USE DEF Inv
<1>1. CASE Reserve
  <2>1. /\ UNCHANGED <<accountVars, interrupted, stopped, sessionVars, units>>
        /\ driver = "peek" /\ driver' = "turn"
    BY <1>1 DEF Reserve, Reserved
  <2>2. PICK S \in SUBSET (Lanes \ Pending) :
             /\ Cardinality(S) <= Least(work, units)
             /\ state = "probing" => Cardinality(S) <= 1
             /\ lane' = [l \in Lanes |-> IF l \in S THEN "setup" ELSE lane[l]]
             /\ work' = work - Cardinality(S)
    BY <1>1 DEF Reserve, Reserved
  <2>3. IsFiniteSet(S) /\ Cardinality(S) \in Nat
    <3>1. S \in SUBSET Lanes /\ IsFiniteSet(Lanes)
      BY AccountAssumption
    <3> QED  BY <3>1, FS_Subset, FS_CardinalityType
  <2>4. AccountInv'
    BY <2>1 DEF accountVars, AccountInv, Budgeted, Slept
  <2>5. \A l \in S : l \in Lanes /\ lane[l] = "free"
    BY DEF Pending
  <2>6. state = "probing" => \A k, l \in S : k = l
    <3>1. Cardinality(S) = 0 => S = {}
      BY <2>3, FS_EmptySet
    <3>2. Cardinality(S) = 1 => \E l \in S : S = {l}
      BY <2>3, FS_Singleton
    <3> QED  BY <2>2, <2>3, <3>1, <3>2
  <2>7. SessionInv'
    <3>1. lane' \in [Lanes -> Stages]
      BY <2>2 DEF SessionInv, Stages
    <3>2. /\ \A l \in S : lane'[l] = "setup"
          /\ \A l \in Lanes \ S : lane'[l] = lane[l]
      BY <2>2, <2>5
    <3>3. state = "probing" => \A k, l \in Lanes : lane'[k] # "free" /\ lane'[l] # "free" => k = l
      BY <2>1, <2>6, <3>2 DEF SessionInv
    <3>4. probe = {}
      BY <2>1 DEF SessionInv
    <3> QED  BY <2>1, <2>5, <3>1, <3>2, <3>3, <3>4 DEF accountVars, sessionVars, SessionInv
  <2>8. Setup' = Setup \cup S /\ Setup \cap S = {}
    BY <2>2, <2>5 DEF Setup
  <2>9. Cardinality(Setup') = Cardinality(Setup) + Cardinality(S)
    <3>1. Cardinality(Setup \cup S) =
              Cardinality(Setup) + Cardinality(S) - Cardinality(Setup \cap S)
      BY <2>3, SetupIsFinite, FS_Union
    <3>2. Cardinality(Setup \cap S) = 0
      BY <2>8, FS_EmptySet
    <3> QED  BY <2>3, <2>8, <3>1, <3>2, SetupIsFinite
  <2>10. WorkInv'
    BY <2>1, <2>2, <2>3, <2>9, SetupIsFinite, AccountAssumption DEF WorkInv, Least
  <2> QED  BY <2>4, <2>7, <2>10
<1>2. CASE Check \/ Sleep \/ Wake
  <2>1. UNCHANGED <<interrupted, stopped, lane, sessionVars, units, work>>
    BY <1>2 DEF Check, Sleep, Wake
  <2>2. AccountInv'
    <3>1. CASE Check \/ Sleep
      BY <2>1, <3>1 DEF Check, Sleep, accountVars, AccountInv, Budgeted, Slept
    <3>2. CASE Wake
      <4>1. state \in {"cooldown", "stopping"} /\ ~interrupted /\ left <= 0
        BY <3>2 DEF Wake, SessionInv
      <4>2. state = "cooldown" /\ floor = 0 /\ retries > 0
        BY <4>1, AccountAssumption DEF AccountInv, Budgeted, Slept, Overrun
      <4>3. /\ state' = "probing" /\ probeActive' = FALSE
            /\ UNCHANGED <<retries, wait, left, error, floor, interrupted, stopped>>
        BY <2>1, <3>2 DEF Wake
      <4>4. Budgeted' /\ Slept'
        BY <4>2, <4>3 DEF AccountInv, Budgeted, Slept
      <4> QED  BY <4>3, <4>4 DEF AccountInv
    <3> QED  BY <1>2, <3>1, <3>2
  <2>3. SessionInv'
    <3>1. CASE Check
      BY <2>1, <3>1 DEF Check, Pending, accountVars, sessionVars, SessionInv
    <3>2. CASE Sleep \/ Wake
      <4>1. \A l \in Lanes : lane[l] = "free"
        BY <3>2 DEF Sleep, Wake, SessionInv, Pending
      <4>2. probe = {}
        BY <4>1 DEF SessionInv
      <4> QED  BY <2>1, <3>2, <4>1, <4>2 DEF Sleep, Wake, accountVars, sessionVars, SessionInv
    <3> QED  BY <1>2, <3>1, <3>2
  <2>4. WorkInv'
    BY <2>1 DEF WorkInv, Setup
  <2> QED  BY <2>2, <2>3, <2>4
<1>3. CASE Tick
  <2>1. /\ left' = left - 1 \/ left' = left
        /\ state = "cooldown" /\ left' # left => left > Overrun
        /\ state # "cooldown" /\ left' # left => left > 0
        /\ floor' = Most(0, floor - 1) /\ (floor > 0 /\ left > 0 => left' = left - 1)
        /\ UNCHANGED <<state, probeActive, retries, wait, error, interrupted, stopped, driver,
                       lane, sessionVars, units, work>>
    BY <1>3, AccountAssumption DEF Tick, AccountInv, Overrun
  <2>2. /\ left' \in Overrun..left /\ floor' \in Nat /\ (floor' > 0 => floor > 0)
        /\ floor' > 0 /\ floor <= left => floor' <= left'
    BY <2>1, AccountAssumption DEF AccountInv, Overrun, Most
  <2>3. left' \in Overrun..Budget /\ left' + wait' <= Budget
    <3>1. /\ Budget \in Nat /\ Overrun \in Int /\ left \in Overrun..Budget
          /\ left \in Int /\ wait \in Nat /\ wait' = wait /\ left + wait <= Budget
      BY <2>1, AccountAssumption DEF AccountInv, Budgeted, Overrun
    <3>2. left' \in Int /\ Overrun <= left' /\ left' <= left
      BY <2>2, <3>1
    <3>3. left' + wait <= Budget /\ left' <= Budget
      BY <3>1, <3>2, Lowered, Zenon
    <3>4. left' \in Overrun..Budget
      BY <3>1, <3>2, <3>3
    <3>5. left' + wait' <= Budget
      BY <3>1, <3>3, Zenon
    <3> QED  BY <3>4, <3>5
  <2>4. AccountInv'
    BY <2>1, <2>2, <2>3 DEF AccountInv, Budgeted, Slept
  <2> QED  BY <2>1, <2>4 DEF sessionVars, SessionInv, WorkInv, Setup
<1>4. CASE Refused \/ Finish \/ OperatorStop
  <2>1. /\ UNCHANGED <<probeActive, retries, wait, left, error, floor, lane, units, work>>
        /\ \/ UNCHANGED <<state, driver, session, probe, good>> /\ interrupted' = TRUE
                   /\ stopped' = TRUE
           \/ /\ driver' = "over" /\ Cancelled /\ UNCHANGED stopped
              /\ UNCHANGED <<state, interrupted>> \/ Halt
    BY <1>4 DEF Refused, Finish, OperatorStop, accountVars, sessionVars
  <2>2. AccountInv'
    BY <2>1 DEF Halt, AccountInv, Budgeted, Slept
  <2>3. SessionInv'
    <3>1. CASE UNCHANGED <<state, driver, session, probe, good>>
      BY <2>1, <3>1 DEF SessionInv
    <3>2. CASE driver' = "over" /\ Cancelled /\ (state' = state \/ state' = "stopping")
      BY <2>1, <3>2, AccountAssumption DEF Cancelled, Leave, SessionInv
    <3> QED  BY <2>1, <3>1, <3>2 DEF Halt
  <2> QED  BY <2>1, <2>2, <2>3 DEF WorkInv, Setup
<1> QED  BY <1>1, <1>2, <1>3, <1>4 DEF DriverSteps

-----------------------------------------------------------------------------
(* The theorems *)

\* The inductive invariant: the budgets, the sleep a provider's minimum is
\* owed, where the probe is, and which candidates are in setup.
THEOREM AccountHolds == Spec => []Inv
<1>1. Init => Inv
  <2> SUFFICES ASSUME Init PROVE Inv
    OBVIOUS
  <2>1. AccountInv
    <3>1. /\ retries \in 0..Retries /\ wait \in 0..Budget /\ left \in Overrun..Budget
          /\ floor \in Nat /\ left + wait <= Budget /\ ~(floor > 0)
      BY AccountAssumption DEF Init, Overrun
    <3>2. /\ probeActive \in BOOLEAN /\ interrupted \in BOOLEAN /\ stopped \in BOOLEAN
          /\ state = "open" /\ error = "none"
      BY DEF Init
    <3> QED  BY <3>1, <3>2 DEF AccountInv, Budgeted, Slept
  <2>2. SessionInv
    BY DEF Init, SessionInv, Stages
  <2>3. Setup = {}
    BY DEF Init, Setup
  <2>4. WorkInv
    BY <2>3, FS_EmptySet, AccountAssumption DEF Init, WorkInv
  <2> QED  BY <2>1, <2>2, <2>4 DEF Inv
<1>2. Inv /\ [Next]_vars => Inv'
  <2> SUFFICES ASSUME Inv, [Next]_vars PROVE Inv'
    OBVIOUS
  <2>1. CASE \E x \in Holders : Steps(x) \/ Reports(x)
    BY <2>1, StepsKeeps, ReportsKeeps
  <2>2. CASE \E l \in Lanes : LaneSteps(l)
    BY <2>2, LaneStepsKeeps
  <2>3. CASE DriverSteps \/ Tick \/ OperatorStop
    BY <2>3, DriverKeeps
  <2>4. CASE Prepare
    BY <2>4, PrepareKeeps
  <2>5. CASE UNCHANGED vars
    BY <2>5 DEF vars, accountVars, sessionVars, Inv, AccountInv, Budgeted, Slept, SessionInv,
                WorkInv, Setup
  <2> QED  BY <2>1, <2>2, <2>3, <2>4, <2>5 DEF Next, Over
<1> QED  BY <1>1, <1>2, PTL DEF Spec

\* The types; in particular neither retries nor waiting are ever overspent.
THEOREM TypeCorrect == Spec => []TypeOK
<1>1. Inv => TypeOK
  <2> SUFFICES ASSUME Inv PROVE TypeOK
    OBVIOUS
  <2>1. work \in 0..Work
    BY SetupIsFinite, AccountAssumption DEF Inv, WorkInv
  <2> QED  BY <2>1 DEF Inv, AccountInv, SessionInv, WorkInv, Stages, TypeOK
<1> QED  BY <1>1, AccountHolds, PTL

\* Nothing runs beside the session that probes the account.
THEOREM ProbeIsAloneHolds == Spec => []ProbeIsAlone
<1>1. Inv => ProbeIsAlone
  BY DEF Inv, SessionInv, ProbeIsAlone
<1> QED  BY <1>1, AccountHolds, PTL

\* Where a session is admitted the account is open or asks for a probe.
LEMMA AdmittedWhereOpen ==
  ASSUME Inv, [Next]_vars, Admitted
  PROVE  floor = 0 /\ (state = "open" \/ (state = "probing" /\ ~interrupted))
<1> USE DEF Inv
<1>1. PICK x \in Holders : x \notin session /\ x \in session'
  BY DEF Admitted
<1>2. Admits(TRUE) \/ Admits(FALSE)
  <2>1. CASE Prepare
    BY <2>1 DEF Prepare
  <2>2. ASSUME NEW l \in Lanes, LaneSteps(l) PROVE Admits(TRUE)
    BY <1>1, <2>2 DEF LaneSteps, Bind, Dispatch, Recover, Integrated, sessionVars, Admits
  <2>3. ~(\E y \in Holders : Steps(y) \/ Reports(y))
    BY <1>1 DEF Steps, Reports, Ends, Fails, Leave
  <2>4. ~(DriverSteps \/ Tick \/ OperatorStop \/ UNCHANGED vars)
    BY <1>1 DEF DriverSteps, Check, Reserve, Reserved, Sleep, Wake, Refused, Finish,
                Tick, OperatorStop, Cancelled, Leave, sessionVars, vars
  <2> QED  BY <2>1, <2>2, <2>3, <2>4 DEF Next, Over
<1>3. state = "open" \/ (state = "probing" /\ ~interrupted)
  BY <1>2 DEF Admits
<1> QED  BY <1>3 DEF AccountInv, Slept

\* No session of the Run is admitted before a provider's minimum has passed.
THEOREM NeverRetriedEarlyHolds == Spec => NeverRetriedEarly
<1>1. Inv /\ [Next]_vars => [Admitted => floor = 0]_vars
  BY AdmittedWhereOpen
<1> QED  BY <1>1, AccountHolds, PTL DEF Spec, NeverRetriedEarly

\* What has stopped stays closed.
THEOREM AdmissionStaysClosedHolds == Spec => AdmissionStaysClosed
<1> DEFINE Closed == state = "stopping" \/ (state # "open" /\ interrupted)
<1>1. Inv /\ [Next]_vars => [Closed => ~Admitted /\ state' # "open"]_vars
  <2> SUFFICES ASSUME Inv, [Next]_vars, Closed, ~UNCHANGED vars
               PROVE  ~Admitted /\ state' # "open"
    OBVIOUS
  <2> USE DEF Inv
  <2>1. interrupted /\ state # "open"
    BY DEF AccountInv
  <2>2. ~Admitted
    BY <2>1, AdmittedWhereOpen
  <2>3. state' # "open"
    <3>1. ASSUME NEW x \in Holders, Steps(x) \/ Reports(x) PROVE state' # "open"
      <4>1. UNCHANGED stopped
        BY <3>1 DEF Steps, Ends, Fails, Reports
      <4>2. ASSUME NEW r \in Refusals, Refuse(r[1], r[2]) PROVE state' # "open"
        BY <4>1, <4>2, RefuseKeeps
      <4>3. ASSUME NEW successful \in BOOLEAN, Finished(x, successful) PROVE state' # "open"
        BY <2>1, <4>1, <4>3, FinishedKeeps
      <4>4. CASE Ends(x)
        <5>1. Finished(x, x \in good) /\ (x \in good) \in BOOLEAN
          BY <4>4 DEF Ends
        <5> QED  BY <5>1, <4>3
      <4>5. CASE Fails(x)
        BY <4>2, <4>3, <4>5 DEF Fails
      <4>6. CASE Reports(x)
        BY <2>1, <4>2, <4>6 DEF Reports, accountVars
      <4> QED  BY <3>1, <4>4, <4>5, <4>6 DEF Steps
    <3>2. ASSUME NEW l \in Lanes, LaneSteps(l) PROVE UNCHANGED state
      BY <3>2 DEF LaneSteps, Bind, Dispatch, Recover, Integrated, Enter, accountVars
    <3>3. Prepare \/ Tick \/ OperatorStop => UNCHANGED state
      BY DEF Prepare, Enter, Tick, OperatorStop, accountVars
    <3>4. DriverSteps => state' # "open"
      BY <2>1 DEF DriverSteps, Check, Reserve, Reserved, Sleep, Wake, Refused, Finish,
                  Halt, accountVars
    <3> QED  BY <2>1, <3>1, <3>2, <3>3, <3>4 DEF Next, Over
  <2> QED  BY <2>2, <2>3
<1> QED  BY <1>1, AccountHolds, PTL DEF Spec, AdmissionStaysClosed

-----------------------------------------------------------------------------
(* Episodes are budgeted: the safety part of EpisodeEnds *)

\* What a step may do to what the Run has left: waiting that is over and
\* waiting that is still owed never grow together, retries never come back,
\* a session becomes the probe for a retry only, and every cooldown that
\* begins takes something off the wait budget.
Spends ==
    /\ Most(0, left') + wait' <= Most(0, left) + wait
    /\ retries' <= retries
    /\ probe' \subseteq probe \/ retries' < retries
    /\ state # "cooldown" /\ state' = "cooldown" => wait' < wait

EpisodesAreBudgeted == [][Spends]_vars

LEMMA RefuseSpends ==
  ASSUME AccountInv, NEW r \in Refusals, Refuse(r[1], r[2])
  PROVE  /\ Most(0, left') + wait' <= Most(0, left) + wait /\ UNCHANGED retries
         /\ state # "cooldown" /\ state' = "cooldown" => wait' < wait
<1> DEFINE kind == r[1]
           d == r[2]
<1>1. d \in Nat \cup {Missing, Invalid} /\ Missing \notin Nat
  <2>1. CASE r \in {"rate"} \X Delays
    BY <2>1, AccountAssumption
  <2>2. CASE r = <<"hard", Missing>>
    BY <2>2, AccountAssumption
  <2> QED  BY <2>1, <2>2 DEF Refusals
<1>2. UNCHANGED retries
  BY DEF Refuse
<1>3. left \in Int /\ wait \in Nat
  BY AccountAssumption DEF AccountInv, Overrun
<1> HIDE DEF kind, d
<1>4. \/ UNCHANGED <<state, wait, left>>
      \/ Halt /\ UNCHANGED <<wait, left>>
      \/ d # Invalid /\ state = "cooldown" /\ Extend(d)
      \/ d # Invalid /\ state # "cooldown" /\ Begin(d)
  BY DEF Refuse, kind, d
<1>5. CASE UNCHANGED <<state, wait, left>>
  BY <1>2, <1>3, <1>5 DEF Most
<1>6. CASE Halt /\ UNCHANGED <<wait, left>>
  BY <1>2, <1>3, <1>6 DEF Halt, Most
<1>7. CASE d # Invalid /\ state = "cooldown" /\ Extend(d)
  <2>1. PICK e \in Nat : e = IF d = Missing THEN 0 ELSE Most(0, d - left)
    BY <1>1, <1>3, <1>7 DEF Most
  <2>2. CASE UNCHANGED <<wait, left>>
    BY <1>2, <1>3, <1>7, <2>2 DEF Most
  <2>3. CASE wait' = wait - e /\ left' = left + e
    BY <1>2, <1>3, <1>7, <2>1, <2>3 DEF Most
  <2> QED  BY <1>7, <2>1, <2>2, <2>3 DEF Extend
<1>8. CASE d # Invalid /\ state # "cooldown" /\ Begin(d)
  <2>1. Cooldown(d) \in Nat \ {0}
    BY <1>1, <1>8 DEF Cooldown, Most
  <2>2. \/ Halt /\ UNCHANGED <<wait, left>>
        \/ state' = "cooldown" /\ wait' = wait - Cooldown(d) /\ left' = Cooldown(d)
    BY <1>8 DEF Begin
  <2> QED  BY <1>2, <1>3, <2>1, <2>2 DEF Halt, Most
<1> QED  BY <1>4, <1>5, <1>6, <1>7, <1>8

\* Once nothing but the sessions and the driver moves, nothing is spent.
LEMMA UnspentSpends ==
  ASSUME AccountInv, UNCHANGED <<left, wait, retries>>, probe' \subseteq probe,
         state' # "cooldown" \/ state = "cooldown"
  PROVE  Spends
BY AccountAssumption DEF AccountInv, Overrun, Most, Spends

LEMMA EnterSpends ==
  ASSUME AccountInv, NEW x, Enter(x)
  PROVE  Spends
<1>1. left \in Int /\ wait \in Nat /\ retries \in Nat
  BY AccountAssumption DEF AccountInv, Overrun
<1>2. UNCHANGED <<left, wait, state>> /\ (UNCHANGED <<probe, retries>> \/ retries' = retries - 1)
  BY DEF Enter
<1> QED  BY <1>1, <1>2 DEF Spends, Most

LEMMA StepSpends ==
  ASSUME Inv, [Next]_vars
  PROVE  Spends
<1> USE DEF Inv
<1>1. ASSUME NEW x \in Holders, Steps(x) \/ Reports(x) PROVE Spends
  <2>1. probe' \subseteq probe
    BY <1>1 DEF Steps, Ends, Fails, Reports, Leave
  <2>2. CASE \E r \in Refusals : Refuse(r[1], r[2])
    <3>1. PICK r \in Refusals : Refuse(r[1], r[2])
      BY <2>2
    <3>2. /\ Most(0, left') + wait' <= Most(0, left) + wait /\ UNCHANGED retries
          /\ state # "cooldown" /\ state' = "cooldown" => wait' < wait
      BY <3>1, RefuseSpends
    <3>3. retries \in Nat
      BY AccountAssumption DEF AccountInv
    <3> QED  BY <2>1, <3>2, <3>3 DEF Spends
  <2>3. CASE \E successful \in BOOLEAN : Finished(x, successful)
    <3>1. UNCHANGED <<left, wait, retries>> /\ (state' # "cooldown" \/ state = "cooldown")
      BY <2>3 DEF Finished, Halt, accountVars
    <3> QED  BY <2>1, <3>1, UnspentSpends
  <2>4. CASE UNCHANGED accountVars
    BY <2>1, <2>4, UnspentSpends DEF accountVars
  <2>5. CASE Ends(x)
    <3>1. Finished(x, x \in good) /\ (x \in good) \in BOOLEAN
      BY <2>5 DEF Ends
    <3> QED  BY <3>1, <2>3
  <2>6. CASE Fails(x)
    <3>1. FALSE \in BOOLEAN
      OBVIOUS
    <3> QED  BY <3>1, <2>2, <2>3, <2>6 DEF Fails
  <2>7. CASE Reports(x)
    BY <2>2, <2>4, <2>7 DEF Reports
  <2> QED  BY <1>1, <2>5, <2>6, <2>7 DEF Steps
<1>2. ASSUME NEW l \in Lanes, LaneSteps(l) PROVE Spends
  <2>1. CASE Enter(l)
    BY <2>1, EnterSpends
  <2>2. CASE UNCHANGED <<accountVars, sessionVars>>
    BY <2>2, UnspentSpends DEF accountVars, sessionVars
  <2> QED  BY <1>2, <2>1, <2>2 DEF LaneSteps, Bind, Dispatch, Recover, Integrated
<1>3. CASE Prepare
  BY <1>3, EnterSpends DEF Prepare
<1>4. CASE Tick
  <2>1. /\ left \in Int /\ wait \in Nat /\ retries \in Nat
        /\ left' = left - 1 \/ left' = left
        /\ UNCHANGED <<wait, retries, probe, state>>
    BY <1>4, AccountAssumption DEF Tick, AccountInv, Overrun, sessionVars
  <2>2. Most(0, left') <= Most(0, left)
    BY <2>1 DEF Most
  <2> QED  BY <2>1, <2>2 DEF Spends, Most
<1>5. CASE DriverSteps \/ OperatorStop
  <2>1. /\ UNCHANGED <<left, wait, retries>> /\ probe' \subseteq probe
        /\ state' # "cooldown" \/ state = "cooldown"
    BY <1>5 DEF DriverSteps, Check, Reserve, Reserved, Sleep, Wake, Refused, Finish,
                OperatorStop, Cancelled,
                Leave, Halt, accountVars, sessionVars
  <2> QED  BY <2>1, UnspentSpends
<1>6. CASE UNCHANGED vars
  BY <1>6, UnspentSpends DEF vars, accountVars, sessionVars
<1> QED  BY <1>1, <1>2, <1>3, <1>4, <1>5, <1>6 DEF Next, Over

\* The refusals of a Run lead to finitely many cooldowns and probes: each
\* takes away from a wait or a retry budget that nothing refills.
THEOREM EpisodesAreBudgetedHolds == Spec => EpisodesAreBudgeted
<1>1. Inv /\ [Next]_vars => Spends
  BY StepSpends
<1> QED  BY <1>1, AccountHolds, PTL DEF Spec, EpisodesAreBudgeted
=============================================================================
