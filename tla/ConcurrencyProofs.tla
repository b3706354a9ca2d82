------------------------- MODULE ConcurrencyProofs -------------------------
(***************************************************************************)
(* For every cap, window, cooldown and streak, any readings and any number *)
(* of dispatches that never start.                                         *)
(***************************************************************************)
EXTENDS Concurrency, SequenceTheorems, TLAPS

Samples == [rate : Nat \cup {Unknown}, credit : Nat \cup {Unknown},
            host : Nat \cup {Unknown}, full : BOOLEAN]

\* An issue that is offered again is one of those there may be.
Bounded == Issues <= Work

ConcurrencyInv == TypeOK /\ Bounded /\ EvidenceIsCurrent

-----------------------------------------------------------------------------
(* The operators *)

LEMMA SaturateBounds ==
    /\ Saturate \in Nat
    /\ Cooling <= Saturate /\ Window <= Saturate /\ Healthy <= Saturate
BY ConcurrencyAssumption DEF Saturate, Most

LEMMA SampleType ==
  ASSUME NEW r \in Readings, failures \in Nat
  PROVE  Sample(r) \in Samples
<1>1. r \in [rate : Nat \cup {Unknown}, credit : Nat \cup {Unknown}, host : Nat \cup {Unknown}]
  BY ConcurrencyAssumption
<1>2. HostPressure(r.host) \in Nat \cup {Unknown}
  BY <1>1 DEF HostPressure, SetupPressure, Most
<1> QED  BY <1>1, <1>2 DEF Sample, Samples

\* The window of the next observation.
LEMMA NextWindow ==
  ASSUME NEW o \in Samples, window \in Seq(Samples), Len(window) <= Window,
         NEW w, w = LET all == Append(window, o)
                    IN  IF Len(all) > Window THEN Tail(all) ELSE all
  PROVE  /\ w \in Seq(Samples)
         /\ Len(w) <= Window /\ Len(w) <= Len(window) + 1
<1>1. Window \in Nat \ {0}
  BY ConcurrencyAssumption
<1>2. /\ Append(window, o) \in Seq(Samples) /\ Len(Append(window, o)) = Len(window) + 1
      /\ Len(window) \in Nat
  BY AppendProperties, LenProperties
<1>3. CASE Len(Append(window, o)) > Window
  <2>1. w = Tail(Append(window, o)) /\ Append(window, o) # <<>>
    BY <1>2, <1>3
  <2>2. w \in Seq(Samples) /\ Len(w) = Len(Append(window, o)) - 1
    BY <2>1, <1>2, HeadTailProperties
  <2> QED  BY <2>2, <1>1, <1>2
<1>4. CASE ~(Len(Append(window, o)) > Window)
  BY <1>1, <1>2, <1>4
<1> QED  BY <1>3, <1>4

LEMMA HeldBounds ==
  ASSUME TypeOK
  PROVE  /\ Held \in Nat /\ limit \in Nat
         /\ limit <= (IF observable THEN Cap ELSE Least(Cap, Static))
         /\ limit <= Cap
BY ConcurrencyAssumption DEF TypeOK, Held, Least

-----------------------------------------------------------------------------
(* The controller *)

\* A contraction stays at or above zero; a recovery stays within what the
\* Run may use with the host it can see.
LEMMA ObserveKeepsInv ==
  ASSUME ConcurrencyInv, NEW r \in Readings, Observe(r)
  PROVE  ConcurrencyInv'
<1> DEFINE all == Append(window, Sample(r))
           w == IF Len(all) > Window THEN Tail(all) ELSE all
           s == IF IsHealthy(w) THEN Least(streak + 1, Healthy) ELSE 0
           n == Least(since + 1, Saturate)
           top == IF observable THEN Cap ELSE Least(Cap, Static)
<1>1. /\ UNCHANGED <<failures, exhausted, work, out, parked, admitted, settled, observable, over>>
      /\ failures \in Nat /\ since \in 0..Saturate /\ streak \in 0..Healthy
      /\ limit \in 0..top /\ top \in Nat
      /\ Len(window) <= since /\ streak <= since
  BY ConcurrencyAssumption
     DEF ConcurrencyInv, TypeOK, Observe, pipelineVars, EvidenceIsCurrent, Least
<1>2. w \in Seq(Samples) /\ Len(w) <= Window /\ Len(w) <= Len(window) + 1
  <2>1. Sample(r) \in Samples /\ window \in Seq(Samples) /\ Len(window) <= Window
    BY <1>1, SampleType DEF ConcurrencyInv, TypeOK, Samples
  <2> HIDE DEF Samples
  <2> QED  BY <2>1, NextWindow
<1>3. Len(w) \in Nat /\ Len(window) \in Nat
  BY <1>2, LenProperties DEF ConcurrencyInv, TypeOK
<1>4. n \in 0..Saturate /\ n <= since + 1 /\ (n = since + 1 \/ n = Saturate)
  BY <1>1, SaturateBounds DEF Least
<1>5. s \in 0..Healthy /\ s <= streak + 1
  BY <1>1, ConcurrencyAssumption DEF Least
<1>6. \/ /\ limit' \in 0..top /\ window' = <<>> /\ since' = 0 /\ streak' = 0
      \/ limit' = limit /\ window' = w /\ since' = n /\ streak' = s
  <2> HIDE DEF s, n
  <2>1. CASE n >= Cooling /\ Contracts(w)
    <3>1. Change(Contracted(w), w)
      BY <2>1 DEF Observe, s, n
    <3>2. Contracted(w) \in 0..top
      BY <1>1 DEF Contracted, Most
    <3> QED  BY <3>1, <3>2 DEF Change
  <2>2. CASE ~(n >= Cooling /\ Contracts(w)) /\ n >= Cooling /\ Recovers(w, s)
    <3>1. Change(limit + 1, w)
      BY <2>2 DEF Observe, s, n
    <3>2. limit < Ceiling(w) /\ Ceiling(w) <= top /\ Ceiling(w) \in Nat
      BY <2>2, ConcurrencyAssumption DEF Recovers, Ceiling, Least
    <3>3. limit + 1 \in 0..top
      BY <3>2, <1>1
    <3> QED  BY <3>1, <3>3 DEF Change
  <2>3. CASE ~(n >= Cooling /\ Contracts(w)) /\ ~(n >= Cooling /\ Recovers(w, s))
    BY <2>3 DEF Observe, s, n
  <2> QED  BY <2>1, <2>2, <2>3
<1>7. /\ limit' \in 0..top /\ window' \in Seq(Samples) /\ Len(window') <= Window
      /\ since' \in 0..Saturate /\ streak' \in 0..Healthy
      /\ Len(window') <= since' /\ streak' <= since'
  <2> HIDE DEF w, s, n, top
  <2>1. CASE window' = <<>> /\ limit' \in 0..top /\ since' = 0 /\ streak' = 0
    <3>1. window' \in Seq(Samples) /\ Len(window') = 0
      BY <2>1, EmptySeq
    <3> QED  BY <2>1, <3>1, SaturateBounds, ConcurrencyAssumption
  <2>2. CASE limit' = limit /\ window' = w /\ since' = n /\ streak' = s
    <3>1. Len(w) <= n
      BY <1>1, <1>2, <1>3, <1>4, SaturateBounds, ConcurrencyAssumption
    <3>2. s <= n
      BY <1>1, <1>4, <1>5, SaturateBounds, ConcurrencyAssumption
    <3> QED  BY <2>2, <3>1, <3>2, <1>1, <1>2, <1>4, <1>5
  <2> QED  BY <1>6, <2>1, <2>2
<1>8. TypeOK'
  BY <1>1, <1>7 DEF ConcurrencyInv, TypeOK, Samples, Held
<1> QED  BY <1>1, <1>7, <1>8 DEF ConcurrencyInv, Bounded, Issues, EvidenceIsCurrent

-----------------------------------------------------------------------------
(* The pipeline *)

\* What the controller keeps is untouched; the contributions move.
PipelineStep ==
    Reserve \/ Delivers \/ NeverStarts \/ EndsEarly \/ Finalize \/ Ends \/ Arrives \/ Settles

LEMMA PipelineKeepsInv ==
  ASSUME ConcurrencyInv, PipelineStep
  PROVE  ConcurrencyInv'
<1>1. UNCHANGED <<limit, window, since, streak, observable>>
  BY DEF PipelineStep, Reserve, Delivers, NeverStarts, EndsEarly, Finalize, Ends, Arrives,
         Settles, controllerVars
<1>2. /\ failures \in Nat /\ exhausted \in BOOLEAN /\ settled \in BOOLEAN /\ over \in BOOLEAN
      /\ work \in 0..Work /\ out \in 0..Cap /\ parked \in 0..Cap /\ admitted \in 0..HighWater
      /\ out + parked <= Cap /\ work + (out + parked) + admitted <= Work
      /\ limit \in Nat /\ limit <= Cap /\ Work \in Nat /\ Cap \in Nat /\ HighWater \in Nat
  BY HeldBounds, ConcurrencyAssumption DEF ConcurrencyInv, TypeOK, Bounded, Issues, Held
<1>3. /\ failures' \in Nat /\ exhausted' \in BOOLEAN /\ settled' \in BOOLEAN /\ over' \in BOOLEAN
      /\ work' \in 0..Work /\ out' \in 0..Cap /\ parked' \in 0..Cap
      /\ admitted' \in 0..HighWater /\ out' + parked' <= Cap
      /\ work' + (out' + parked') + admitted' <= Work
  <2>1. CASE Reserve
    <3>1. PICK n : /\ n = Least(Refillable, work) /\ n > 0
                   /\ work' = work - n /\ out' = out + n
                   /\ UNCHANGED <<failures, exhausted, parked, admitted, settled, over>>
      BY <2>1 DEF Reserve
    <3>2. n \in Nat /\ n <= work /\ n <= limit - (out + parked)
      BY <1>2, <3>1 DEF Least, Refillable, Most, Held
    <3> QED  BY <1>2, <3>1, <3>2
  <2>2. CASE Delivers
    BY <2>2, <1>2 DEF Delivers
  <2>3. CASE NeverStarts
    BY <2>3, <1>2 DEF NeverStarts
  <2>4. CASE EndsEarly
    BY <2>4, <1>2 DEF EndsEarly
  <2>5. CASE Finalize
    BY <2>5, <1>2 DEF Finalize
  <2>6. CASE Ends \/ Settles
    BY <2>6, <1>2 DEF Ends, Settles, pipelineVars
  <2>7. CASE Arrives
    BY <2>7, <1>2 DEF Arrives, Issues, Held
  <2> QED  BY <2>1, <2>2, <2>3, <2>4, <2>5, <2>6, <2>7 DEF PipelineStep
<1>4. TypeOK'
  BY <1>1, <1>3 DEF ConcurrencyInv, TypeOK, Held
<1> QED  BY <1>1, <1>3, <1>4 DEF ConcurrencyInv, Bounded, Issues, Held, EvidenceIsCurrent

-----------------------------------------------------------------------------
(* The theorems *)

\* The inductive invariant: the types, that every issue has a place, and
\* that evidence is no older than the limit it judges.
THEOREM ConcurrencyHolds == Spec => []ConcurrencyInv
<1>1. Init => ConcurrencyInv
  <2> SUFFICES ASSUME Init PROVE ConcurrencyInv
    OBVIOUS
  <2>1. window \in Seq(Samples) /\ Len(window) = 0
    BY EmptySeq DEF Init
  <2>2. TypeOK
    <3>1. limit \in 0..(IF observable THEN Cap ELSE Least(Cap, Static))
      BY ConcurrencyAssumption DEF Init, Least
    <3>2. since \in 0..Saturate /\ streak \in 0..Healthy
      BY SaturateBounds, ConcurrencyAssumption DEF Init
    <3>3. window \in Seq(Samples) /\ Len(window) <= Window
      BY <2>1, ConcurrencyAssumption
    <3>4. /\ failures \in Nat /\ work \in 0..Work /\ out \in 0..Cap /\ parked \in 0..Cap
          /\ admitted \in 0..HighWater /\ Held <= Cap
      BY ConcurrencyAssumption DEF Init, Held
    <3>5. /\ exhausted \in BOOLEAN /\ settled \in BOOLEAN
          /\ observable \in BOOLEAN /\ over \in BOOLEAN
      BY DEF Init
    <3> QED  BY <3>1, <3>2, <3>3, <3>4, <3>5 DEF TypeOK, Samples
  <2>3. Bounded /\ EvidenceIsCurrent
    BY <2>1, ConcurrencyAssumption DEF Init, Bounded, Issues, Held, EvidenceIsCurrent
  <2> QED  BY <2>2, <2>3 DEF ConcurrencyInv
<1>2. ConcurrencyInv /\ [Next]_vars => ConcurrencyInv'
  <2> SUFFICES ASSUME ConcurrencyInv, [Next]_vars PROVE ConcurrencyInv'
    OBVIOUS
  <2>1. CASE Observes
    BY <2>1, ObserveKeepsInv DEF Observes
  <2>2. CASE PipelineStep
    BY <2>2, PipelineKeepsInv
  <2>3. CASE UNCHANGED vars
    BY <2>3 DEF vars, controllerVars, pipelineVars, ConcurrencyInv, TypeOK, Held, Bounded,
                Issues, EvidenceIsCurrent
  <2> QED  BY <2>1, <2>2, <2>3 DEF Next, Over, PipelineStep
<1> QED  BY <1>1, <1>2, PTL DEF Spec

\* The limit stays within the cap, and within the safe limit where the host
\* cannot be seen; no more Lanes are ever held than the cap allows.
THEOREM TypeCorrect == Spec => []TypeOK
<1>1. ConcurrencyInv => TypeOK
  BY DEF ConcurrencyInv
<1> QED  BY <1>1, ConcurrencyHolds, PTL

\* Every rule is over observations that the limit in force produced.
THEOREM EvidenceIsCurrentHolds == Spec => []EvidenceIsCurrent
<1>1. ConcurrencyInv => EvidenceIsCurrent
  BY DEF ConcurrencyInv
<1> QED  BY <1>1, ConcurrencyHolds, PTL

-----------------------------------------------------------------------------
(* The limit does not flap *)

\* A change of the limit is one reaction to observations of that limit alone:
\* a contraction by at most two, after the cooldown and with the contraction
\* before it drained; a recovery by one, behind an unbroken healthy streak.
LimitNeverFlaps ==
    [][limit' # limit =>
           /\ since + 1 >= Cooling /\ since' = 0
           /\ IF limit' < limit
              THEN limit - limit' <= 2 /\ Held <= limit
              ELSE limit' = limit + 1 /\ streak + 1 >= Healthy /\ since + 1 >= Healthy]_vars

LEMMA LimitStep ==
  ASSUME ConcurrencyInv, [Next]_vars, limit' # limit
  PROVE  /\ since + 1 >= Cooling /\ since' = 0
         /\ IF limit' < limit
            THEN limit - limit' <= 2 /\ Held <= limit
            ELSE limit' = limit + 1 /\ streak + 1 >= Healthy /\ since + 1 >= Healthy
<1>1. PICK r \in Readings : Observe(r)
  <2>1. ~PipelineStep
    BY DEF PipelineStep, Reserve, Delivers, NeverStarts, EndsEarly, Finalize, Ends, Arrives,
           Settles, controllerVars
  <2>2. ~(Over \/ UNCHANGED vars)
    BY DEF Over, vars, controllerVars
  <2> QED  BY <2>1, <2>2 DEF Next, PipelineStep, Observes
<1> DEFINE all == Append(window, Sample(r))
           w == IF Len(all) > Window THEN Tail(all) ELSE all
           s == IF IsHealthy(w) THEN Least(streak + 1, Healthy) ELSE 0
           n == Least(since + 1, Saturate)
<1>2. since \in Nat /\ streak \in Nat /\ limit \in Nat /\ streak <= since /\ Healthy \in Nat \ {0}
  BY ConcurrencyAssumption, SaturateBounds, HeldBounds
     DEF ConcurrencyInv, TypeOK, EvidenceIsCurrent
<1>3. n <= since + 1 /\ n \in Nat
  BY <1>2, SaturateBounds DEF Least
<1>4. s <= streak + 1 /\ s \in Nat
  BY <1>2 DEF Least
<1>5. \/ n >= Cooling /\ Contracts(w) /\ Change(Contracted(w), w)
      \/ n >= Cooling /\ Recovers(w, s) /\ Change(limit + 1, w)
  <2> HIDE DEF w, s, n
  <2> QED  BY <1>1 DEF Observe, w, s, n
<1> HIDE DEF w, s, n
<1>6. n >= Cooling => since + 1 >= Cooling
  BY <1>2, <1>3, ConcurrencyAssumption
<1>7. CASE Contracts(w) /\ Change(Contracted(w), w) /\ n >= Cooling
  <2>1. limit' = Contracted(w) /\ since' = 0 /\ Held <= limit
    BY <1>7 DEF Change, Contracts
  <2>2. Contracted(w) <= limit /\ limit - Contracted(w) <= 2 /\ Contracted(w) \in Nat
    BY <1>2 DEF Contracted, Most
  <2> QED  BY <1>2, <1>6, <1>7, <2>1, <2>2
<1>8. CASE Recovers(w, s) /\ Change(limit + 1, w) /\ n >= Cooling
  BY <1>2, <1>4, <1>6, <1>8 DEF Recovers, Change
<1> QED  BY <1>5, <1>7, <1>8

\* No two changes of the limit are closer than the cooldown, and no recovery
\* follows a change before a full healthy streak, in any environment.
THEOREM LimitNeverFlapsHolds == Spec => LimitNeverFlaps
<1>1. ConcurrencyInv /\ [Next]_vars =>
        [limit' # limit =>
           /\ since + 1 >= Cooling /\ since' = 0
           /\ IF limit' < limit
              THEN limit - limit' <= 2 /\ Held <= limit
              ELSE limit' = limit + 1 /\ streak + 1 >= Healthy /\ since + 1 >= Healthy]_vars
  BY LimitStep
<1> QED  BY <1>1, ConcurrencyHolds, PTL DEF Spec, LimitNeverFlaps
=============================================================================
