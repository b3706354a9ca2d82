---------------------------- MODULE RollingProofs -----------------------------
(***************************************************************************)
(* Theorems about RollingDispatch, for every set of issues, Lane cap,       *)
(* Iteration cap, limit policy and combination of faults.                   *)
(***************************************************************************)
EXTENDS RollingDispatch, FiniteSetTheorems, WellFoundedInduction, TLAPS

-----------------------------------------------------------------------------
(* Finite sets of slots, and the least of one.                             *)

LEMMA SlotsFinite ==
  /\ IsFiniteSet(Slots)
  /\ Cardinality(Slots) = LaneCap + HighWater
  /\ Slots \subseteq Nat
<1>1. LaneCap + HighWater \in Int /\ LaneCap + HighWater >= 1
  BY CapAssumption DEF HighWater
<1>2. /\ IsFiniteSet(1..(LaneCap + HighWater))
      /\ Cardinality(1..(LaneCap + HighWater)) = LaneCap + HighWater
  BY <1>1, FS_Interval
<1> QED BY <1>1, <1>2 DEF Slots

LEMMA SlotSets ==
  ASSUME NEW S, S \subseteq Slots
  PROVE  /\ IsFiniteSet(S)
         /\ Cardinality(S) \in Nat
         /\ Cardinality(S) <= LaneCap + HighWater
         /\ Cardinality(S) = 0 <=> S = {}
<1>1. S \in SUBSET Slots OBVIOUS
<1>2. IsFiniteSet(S) BY <1>1, SlotsFinite, FS_Subset
<1>3. Cardinality(S) <= LaneCap + HighWater BY <1>1, SlotsFinite, FS_Subset
<1>4. Cardinality(S) = 0 <=> S = {} BY <1>2, FS_EmptySet
<1> QED BY <1>2, <1>3, <1>4, FS_CardinalityType

LEMMA IssueSets ==
  ASSUME NEW S, S \subseteq Issues
  PROVE  IsFiniteSet(S) /\ Cardinality(S) \in Nat
<1>1. S \in SUBSET Issues OBVIOUS
<1> QED BY <1>1, IssuesAssumption, FS_Subset, FS_CardinalityType

\* The set that results from a step has one element more or less, or shrinks.
LEMMA SlotSetSizes ==
  ASSUME NEW S, S \subseteq Slots, NEW s \in Slots, NEW T, T \subseteq S
  PROVE  /\ Cardinality(T) <= Cardinality(S)
         /\ s \notin S => Cardinality(S \cup {s}) = Cardinality(S) + 1
         /\ Cardinality(S \cup {s}) <= Cardinality(S) + 1
         /\ s \in S => Cardinality(S \ {s}) = Cardinality(S) - 1
<1>1. IsFiniteSet(S) /\ Cardinality(S) \in Nat BY SlotSets
<1>2. T \in SUBSET S OBVIOUS
<1>3. Cardinality(T) <= Cardinality(S) BY <1>1, <1>2, FS_Subset
<1>4. Cardinality(S \cup {s}) = IF s \in S THEN Cardinality(S) ELSE Cardinality(S) + 1
  BY <1>1, FS_AddElement
<1>5. Cardinality(S \ {s}) = IF s \in S THEN Cardinality(S) - 1 ELSE Cardinality(S)
  BY <1>1, FS_RemoveElement
<1> QED BY <1>1, <1>3, <1>4, <1>5

LEMMA IssueSetSizes ==
  ASSUME NEW S, S \subseteq Issues, NEW i
  PROVE  /\ Cardinality(S \cup {i}) <= Cardinality(S) + 1
         /\ i \in S => Cardinality(S \ {i}) = Cardinality(S) - 1
         /\ i \notin S => Cardinality(S \ {i}) = Cardinality(S)
<1>1. IsFiniteSet(S) /\ Cardinality(S) \in Nat BY IssueSets
<1>2. Cardinality(S \cup {i}) = IF i \in S THEN Cardinality(S) ELSE Cardinality(S) + 1
  BY <1>1, FS_AddElement
<1>3. Cardinality(S \ {i}) = IF i \in S THEN Cardinality(S) - 1 ELSE Cardinality(S)
  BY <1>1, FS_RemoveElement
<1> QED BY <1>1, <1>2, <1>3

LEMMA LowestIn ==
  ASSUME NEW S, S \subseteq Nat, S # {}
  PROVE  Lowest(S) \in S /\ \A y \in S : Lowest(S) <= y
<1> DEFINE R == {p \in Nat \X Nat : p[1] < p[2]}
<1>1. IsWellFoundedOn(R, Nat)
  BY NatLessThanWellFounded, Zenon DEF OpToRel
<1>2. PICK x \in S : \A y \in S : <<y, x>> \notin R
  <2> HIDE DEF R
  <2> QED BY <1>1, WFMin, Zenon
<1>3. ASSUME NEW y \in S PROVE x <= y
  <2>1. <<y, x>> \in Nat \X Nat OBVIOUS
  <2>2. <<y, x>> \notin R BY <1>2
  <2>3. ~(y < x) BY <2>1, <2>2
  <2> QED BY <2>3
<1> QED BY <1>3 DEF Lowest

LEMMA RefImage ==
  ASSUME NEW S, S \subseteq Slots, NEW f
  PROVE  Cardinality({f[s] : s \in S}) <= Cardinality(S)
<1> DEFINE I == {f[s] : s \in S}
           g == [s \in S |-> f[s]]
<1>1. g \in Surjection(S, I) BY DEF Surjection
<1>2. IsFiniteSet(S) BY SlotSets
<1> HIDE DEF I, g
<1>3. Cardinality(I) <= Cardinality(S) BY <1>1, <1>2, FS_Surjection
<1> QED BY <1>3 DEF I

-----------------------------------------------------------------------------
(* The scheduler: who owns what, and the bounds it keeps.                   *)

\* Which sets a slot may be in at once.
Ownership ==
  /\ held \cup open = {s \in Slots : ref[s] # NoIssue}
  /\ inSetup = {ref[s] : s \in held \ open}
  /\ admitted \subseteq open /\ admitted \cap held = {}
  /\ open \subseteq admitted \cup held
  /\ ParkedSlots \subseteq held \cap open
  /\ \A p, q \in parked : p.slot = q.slot => p = q
  /\ OneOwner
  /\ \A s \in open : ref[s] \in worked

\* Every bound.  A unit was spent for each open contribution, so a host that
\* gives one back never drives the count below zero.
Bounds ==
  /\ Cardinality(held) <= LaneCap
  /\ Cardinality(admitted) <= HighWater
  /\ parked # {} => Cardinality(admitted) = HighWater
  /\ Cardinality(open) <= unitsSpent
  /\ UnitsNeverOverspent

SchedInv == SchedTypeOK /\ Ownership /\ Bounds

LEMMA SchedInitInv == SchedInit => SchedInv
<1> SUFFICES ASSUME SchedInit PROVE SchedInv OBVIOUS
<1>1. SchedTypeOK
  <2>1. ref \in [Slots -> Issues \cup {NoIssue}] BY DEF SchedInit
  <2>2. 0 \in 0..MaxIterations BY CapAssumption
  <2> QED BY <2>1, <2>2 DEF SchedInit, SchedTypeOK
<1>2. Ownership BY DEF SchedInit, Ownership, OneOwner, ParkedSlots, NoIssue
<1>3. Cardinality({}) = 0 BY FS_EmptySet
<1>4. Bounds
  BY <1>3, CapAssumption DEF SchedInit, Bounds, UnitsNeverOverspent, HighWater
<1> QED BY <1>1, <1>2, <1>4 DEF SchedInv

\* Refillable leaves room for one more Lane and one more unit.
LEMMA RefillableRoom ==
  ASSUME SchedInv, NEW l \in Limits, Refillable(l) > 0
  PROVE  /\ Cardinality(held) < l
         /\ l <= LaneCap
         /\ unitsSpent + Cardinality(held) < MaxIterations
         /\ Cardinality(admitted) < HighWater
         /\ ~stopLatched
<1>1. Cardinality(held) \in Nat /\ Cardinality(admitted) \in Nat
  BY SlotSets DEF SchedInv, SchedTypeOK
<1>2. l \in Int /\ l <= LaneCap /\ LaneCap \in Int
  BY LimitsAssumption, CapAssumption
<1>3. unitsSpent \in Int /\ MaxIterations \in Int
  BY CapAssumption DEF SchedInv, SchedTypeOK
<1> QED BY <1>1, <1>2, <1>3 DEF Refillable, Remaining, HighWater

\* What Refillable counts is a number of Lanes.
LEMMA RefillableTyped ==
  ASSUME SchedInv, NEW l \in Limits PROVE Refillable(l) \in 0..LaneCap
<1>1. Cardinality(held) \in Nat BY SlotSets DEF SchedInv, SchedTypeOK
<1>2. l \in Int /\ l <= LaneCap /\ LaneCap \in Nat
  BY LimitsAssumption, CapAssumption
<1>3. unitsSpent \in Int /\ MaxIterations \in Int
  BY CapAssumption DEF SchedInv, SchedTypeOK
<1> QED BY <1>1, <1>2, <1>3 DEF Refillable, Remaining

LEMMA ReserveInv ==
  ASSUME SchedInv, NEW s \in Slots, NEW i \in Issues, Reserve(s, i),
         ref[s] = NoIssue, ~Owns(i),
         Cardinality(held) < LaneCap,
         unitsSpent + Cardinality(held) < MaxIterations
  PROVE  SchedInv'
<1> USE DEF SchedInv
<1>1. SchedTypeOK' BY DEF SchedTypeOK, Reserve
<1>2. i # NoIssue BY IssuesAssumption
<1>3. s \notin held \cup open BY DEF Ownership
<1>4. Ownership'
  <2> USE DEF Reserve, Ownership, SchedTypeOK
  <2>1. (held \cup open = {u \in Slots : ref[u] # NoIssue})' BY <1>2
  <2>2. (inSetup = {ref[u] : u \in held \ open})' BY <1>3
  <2>3. (/\ admitted \subseteq open /\ admitted \cap held = {}
         /\ open \subseteq admitted \cup held
         /\ ParkedSlots \subseteq held \cap open
         /\ \A p, q \in parked : p.slot = q.slot => p = q)'
    BY <1>3 DEF ParkedSlots
  <2>4. \A u \in Slots : ref[u] # i
    BY <1>2 DEF Owns
  <2>5. OneOwner' BY <2>4 DEF OneOwner
  <2>6. (\A u \in open : ref[u] \in worked)' BY <1>3
  <2> QED BY <2>1, <2>2, <2>3, <2>5, <2>6
<1>5. Bounds'
  <2>1. Cardinality(held \cup {s}) <= Cardinality(held) + 1
    BY SlotSetSizes DEF SchedTypeOK
  <2>2. Cardinality(inSetup \cup {i}) <= Cardinality(inSetup) + 1
    BY IssueSetSizes DEF SchedTypeOK
  <2>3. Cardinality(inSetup) <= Cardinality(held)
    <3>1. Cardinality(inSetup) <= Cardinality(held \ open)
      BY RefImage DEF Ownership, SchedTypeOK
    <3>2. Cardinality(held \ open) <= Cardinality(held)
      BY SlotSetSizes DEF SchedTypeOK
    <3>3. /\ Cardinality(held \ open) \in Nat /\ Cardinality(held) \in Nat
          /\ Cardinality(inSetup) \in Nat
      BY SlotSets, IssueSets DEF SchedTypeOK
    <3> QED BY <3>1, <3>2, <3>3
  <2>4. /\ Cardinality(held) \in Nat /\ Cardinality(inSetup) \in Nat
        /\ Cardinality(held \cup {s}) \in Nat
        /\ Cardinality(inSetup \cup {i}) \in Nat
    BY SlotSets, IssueSets DEF SchedTypeOK
  <2>5. unitsSpent \in Int /\ MaxIterations \in Int /\ LaneCap \in Int
    BY CapAssumption DEF SchedTypeOK
  <2> QED
    BY <2>1, <2>2, <2>3, <2>4, <2>5 DEF Bounds, UnitsNeverOverspent, Reserve
<1> QED BY <1>1, <1>4, <1>5

LEMMA ReleaseInv ==
  ASSUME SchedInv, NEW s \in held \ open, Release(s)
  PROVE  SchedInv'
<1> USE DEF SchedInv
<1>0. s \in Slots /\ ref[s] # NoIssue /\ ref[s] \in inSetup
  BY DEF SchedTypeOK, Ownership
<1>1. SchedTypeOK' BY <1>0 DEF SchedTypeOK, Release
<1>2. s \notin admitted /\ s \notin ParkedSlots BY DEF Ownership
<1>3. Ownership'
  <2> USE DEF Release, Ownership, SchedTypeOK
  <2>1. (held \cup open = {u \in Slots : ref[u] # NoIssue})' BY <1>0
  <2>2. (inSetup = {ref[u] : u \in held \ open})'
    <3>1. \A u \in held \ open : u # s => ref[u] # ref[s]
      BY <1>0 DEF OneOwner
    <3> QED BY <3>1, <1>0
  <2>3. (/\ admitted \subseteq open /\ admitted \cap held = {}
         /\ open \subseteq admitted \cup held
         /\ ParkedSlots \subseteq held \cap open
         /\ \A p, q \in parked : p.slot = q.slot => p = q)'
    BY <1>2 DEF ParkedSlots
  <2>4. OneOwner' BY <1>0 DEF OneOwner
  <2>5. (\A u \in open : ref[u] \in worked)' BY <1>0
  <2> QED BY <2>1, <2>2, <2>3, <2>4, <2>5
<1>4. Bounds'
  <2>1. Cardinality(held \ {s}) = Cardinality(held) - 1
    BY <1>0, SlotSetSizes DEF SchedTypeOK
  <2>2. Cardinality(inSetup \ {ref[s]}) = Cardinality(inSetup) - 1
    BY <1>0, IssueSetSizes DEF SchedTypeOK
  <2>3. Cardinality(held) \in Nat /\ Cardinality(inSetup) \in Nat
    BY SlotSets, IssueSets DEF SchedTypeOK
  <2>4. unitsSpent \in Int /\ MaxIterations \in Int /\ LaneCap \in Int
    BY CapAssumption DEF SchedTypeOK
  <2> QED BY <2>1, <2>2, <2>3, <2>4 DEF Bounds, UnitsNeverOverspent, Release
<1> QED BY <1>1, <1>3, <1>4

LEMMA StartSessionInv ==
  ASSUME SchedInv, NEW s \in held \ open, StartSession(s)
  PROVE  SchedInv'
<1> USE DEF SchedInv
<1>0. /\ s \in Slots /\ ref[s] # NoIssue /\ ref[s] \in inSetup
      /\ ref[s] \in Issues
  BY DEF SchedTypeOK, Ownership
<1>1. s \notin admitted /\ s \notin ParkedSlots BY DEF Ownership
<1>2. Bounds' /\ unitsSpent' \in 0..MaxIterations
  <2>1. Cardinality(open \cup {s}) = Cardinality(open) + 1
    BY <1>0, SlotSetSizes DEF SchedTypeOK
  <2>2. Cardinality(inSetup \ {ref[s]}) = Cardinality(inSetup) - 1
    BY <1>0, IssueSetSizes DEF SchedTypeOK
  <2>3. Cardinality(open) \in Nat /\ Cardinality(inSetup) \in Nat
        /\ Cardinality(inSetup \ {ref[s]}) \in Nat
    <3>1. inSetup \ {ref[s]} \subseteq Issues BY DEF SchedTypeOK
    <3> QED BY <3>1, SlotSets, IssueSets DEF SchedTypeOK
  <2>4. unitsSpent \in Nat /\ MaxIterations \in Int
    BY CapAssumption DEF SchedTypeOK
  <2> QED
    BY <2>1, <2>2, <2>3, <2>4 DEF Bounds, UnitsNeverOverspent, StartSession
<1>3. SchedTypeOK' BY <1>0, <1>2 DEF SchedTypeOK, StartSession
<1>4. Ownership'
  <2> USE DEF StartSession, Ownership, SchedTypeOK
  <2>1. (held \cup open = {u \in Slots : ref[u] # NoIssue})' BY <1>0
  <2>2. (inSetup = {ref[u] : u \in held \ open})'
    <3>1. \A u \in held \ open : u # s => ref[u] # ref[s]
      BY <1>0 DEF OneOwner
    <3> QED BY <3>1, <1>0
  <2>3. (/\ admitted \subseteq open /\ admitted \cap held = {}
         /\ open \subseteq admitted \cup held
         /\ ParkedSlots \subseteq held \cap open
         /\ \A p, q \in parked : p.slot = q.slot => p = q)'
    BY <1>1 DEF ParkedSlots
  <2>4. OneOwner' BY DEF OneOwner
  <2>5. (\A u \in open : ref[u] \in worked)' BY <1>0
  <2> QED BY <2>1, <2>2, <2>3, <2>4, <2>5
<1> QED BY <1>2, <1>3, <1>4

LEMMA FinishAdmittedInv ==
  ASSUME SchedInv, NEW s \in (held \cap open) \ ParkedSlots, FinishAdmitted(s)
  PROVE  SchedInv'
<1> USE DEF SchedInv
<1>0. s \in Slots /\ s \notin admitted BY DEF SchedTypeOK, Ownership
<1>1. SchedTypeOK' BY <1>0 DEF SchedTypeOK, FinishAdmitted
<1>2. Cardinality(held) \in Nat /\ Cardinality(admitted) \in Nat
  BY SlotSets DEF SchedTypeOK
<1>3. parked = {}
  BY <1>2 DEF FinishAdmitted, Bounds, HighWater
<1>4. Ownership'
  BY <1>0, <1>3 DEF FinishAdmitted, Ownership, SchedTypeOK, ParkedSlots, OneOwner
<1>5. Bounds'
  <2>1. Cardinality(held \ {s}) <= Cardinality(held)
    BY SlotSetSizes DEF SchedTypeOK
  <2>2. Cardinality(admitted \cup {s}) = Cardinality(admitted) + 1
    BY <1>0, SlotSetSizes DEF SchedTypeOK
  <2>3. Cardinality(held \ {s}) \in Nat
    <3>1. held \ {s} \subseteq Slots BY DEF SchedTypeOK
    <3> QED BY <3>1, SlotSets
  <2>4. LaneCap \in Int BY CapAssumption
  <2> QED
    BY <1>2, <1>3, <2>1, <2>2, <2>3, <2>4
    DEF Bounds, UnitsNeverOverspent, FinishAdmitted, HighWater
<1> QED BY <1>1, <1>4, <1>5

LEMMA FinishParkedInv ==
  ASSUME SchedInv, NEW s \in (held \cap open) \ ParkedSlots, FinishParked(s)
  PROVE  SchedInv'
<1> USE DEF SchedInv
<1>0. s \in Slots BY DEF SchedTypeOK
<1>1. SchedTypeOK' BY <1>0 DEF SchedTypeOK, FinishParked
<1>2. Ownership'
  <2> USE DEF FinishParked, Ownership, SchedTypeOK, ParkedSlots
  <2>1. (ParkedSlots \subseteq held \cap open)' OBVIOUS
  <2>2. (\A p, q \in parked : p.slot = q.slot => p = q)' OBVIOUS
  <2> QED BY <2>1, <2>2 DEF OneOwner
<1>3. Cardinality(admitted) \in Nat BY SlotSets DEF SchedTypeOK
<1>4. Bounds'
  BY <1>3 DEF Bounds, UnitsNeverOverspent, FinishParked, HighWater
<1> QED BY <1>1, <1>2, <1>4

LEMMA FinishTerminalInv ==
  ASSUME SchedInv, NEW s \in (held \cap open) \ ParkedSlots,
         NEW reoffer \in BOOLEAN, NEW strike \in BOOLEAN,
         FinishTerminal(s, reoffer, strike)
  PROVE  SchedInv'
<1> USE DEF SchedInv
<1>0. /\ s \in Slots /\ s \notin admitted /\ ref[s] # NoIssue
  BY DEF SchedTypeOK, Ownership
<1>1. admitted' = admitted /\ parked' = parked
  BY <1>0 DEF FinishTerminal, ParkedSlots
<1>2. worked' \subseteq worked /\ worked \ {ref[s]} \subseteq worked'
  BY DEF FinishTerminal, ReleaseAttempt
<1>3. Bounds' /\ unitsSpent' \in 0..MaxIterations
  <2>1. Cardinality(held \ {s}) <= Cardinality(held)
    BY SlotSetSizes DEF SchedTypeOK
  <2>2. Cardinality(open \ {s}) = Cardinality(open) - 1
    BY <1>0, SlotSetSizes DEF SchedTypeOK
  <2>3. Cardinality(held \ {s}) \in Nat /\ Cardinality(open \ {s}) \in Nat
    <3>1. held \ {s} \subseteq Slots /\ open \ {s} \subseteq Slots
      BY DEF SchedTypeOK
    <3> QED BY <3>1, SlotSets
  <2>4. LaneCap \in Int /\ unitsSpent \in Nat /\ MaxIterations \in Int
    BY CapAssumption DEF SchedTypeOK
  <2>5. /\ Cardinality(inSetup) \in Nat /\ Cardinality(held) \in Nat
        /\ Cardinality(open) \in Nat /\ Cardinality(admitted) \in Nat
    BY SlotSets, IssueSets DEF SchedTypeOK
  <2>6. unitsSpent' \in {unitsSpent, unitsSpent - 1}
    BY DEF FinishTerminal
  <2>7. /\ held' = held \ {s} /\ open' = open \ {s} /\ inSetup' = inSetup
    BY DEF FinishTerminal
  <2> QED
    BY <1>1, <2>1, <2>2, <2>3, <2>4, <2>5, <2>6, <2>7
    DEF Bounds, UnitsNeverOverspent, HighWater, SchedTypeOK
<1>4. SchedTypeOK'
  BY <1>0, <1>1, <1>2, <1>3 DEF SchedTypeOK, FinishTerminal
<1>5. Ownership'
  <2> USE DEF FinishTerminal, Ownership, SchedTypeOK
  <2>1. (held \cup open = {u \in Slots : ref[u] # NoIssue})' BY <1>0
  <2>2. (inSetup = {ref[u] : u \in held \ open})' BY <1>0
  <2>3. (/\ admitted \subseteq open /\ admitted \cap held = {}
         /\ open \subseteq admitted \cup held
         /\ ParkedSlots \subseteq held \cap open
         /\ \A p, q \in parked : p.slot = q.slot => p = q)'
    BY <1>0, <1>1 DEF ParkedSlots
  <2>4. OneOwner' BY <1>0 DEF OneOwner
  <2>5. (\A u \in open : ref[u] \in worked)'
    <3>1. \A u \in open : u # s => ref[u] # ref[s]
      BY <1>0 DEF OneOwner
    <3> QED BY <3>1, <1>0, <1>2
  <2> QED BY <2>1, <2>2, <2>3, <2>4, <2>5
<1> QED BY <1>3, <1>4, <1>5

LEMMA ReclaimAllInv ==
  ASSUME SchedInv, NEW strikeSlots, ReclaimAll(strikeSlots)
  PROVE  SchedInv' /\ open' = {}
<1> USE DEF SchedInv
<1>1. open' = {} /\ admitted' = {} /\ parked' = {}
  <2>1. \A p \in parked : p.slot \in open BY DEF Ownership, ParkedSlots
  <2> QED BY <2>1 DEF ReclaimAll, Ownership
<1>2. SchedTypeOK' BY <1>1 DEF SchedTypeOK, ReclaimAll
<1>3. Ownership'
  <2> USE DEF ReclaimAll, Ownership, SchedTypeOK
  <2>1. (held \cup open = {u \in Slots : ref[u] # NoIssue})' BY <1>1
  <2>2. (inSetup = {ref[u] : u \in held \ open})' BY <1>1
  <2>3. OneOwner' BY DEF OneOwner
  <2>4. ParkedSlots' = {} BY <1>1 DEF ParkedSlots
  <2> QED BY <1>1, <2>1, <2>2, <2>3, <2>4
<1>4. Bounds'
  <2>1. Cardinality(held \ open) <= Cardinality(held)
    BY SlotSetSizes DEF SchedTypeOK
  <2>2. Cardinality(held \ open) \in Nat /\ Cardinality(held) \in Nat
    BY SlotSets DEF SchedTypeOK
  <2>3. Cardinality({}) = 0 BY FS_EmptySet
  <2>4. LaneCap \in Int /\ unitsSpent \in Nat
    BY CapAssumption DEF SchedTypeOK
  <2> QED
    BY <1>1, <2>1, <2>2, <2>3, <2>4
    DEF Bounds, UnitsNeverOverspent, HighWater, ReclaimAll
<1> QED BY <1>1, <1>2, <1>3, <1>4

-----------------------------------------------------------------------------
(* Admission from the parked FIFO.                                         *)

LEMMA ParkedTyped ==
  ASSUME SchedInv, NEW p \in parked
  PROVE  /\ p.turn \in Nat /\ p.slot \in held \cap open
         /\ p.slot \in Slots /\ ref[p.slot] \in Nat \ {NoIssue}
         /\ p.slot \in ParkedSlots
  BY IssuesAssumption
  DEF SchedInv, SchedTypeOK, Ownership, ParkedSlots

LEMMA AheadIsTotal ==
  ASSUME SchedInv, NEW p \in parked, NEW q \in parked, p # q
  PROVE  Ahead(p, q) <=> ~Ahead(q, p)
<1>1. /\ p.turn \in Nat /\ q.turn \in Nat
      /\ ref[p.slot] \in Nat /\ ref[q.slot] \in Nat
  BY ParkedTyped
<1>2. ref[p.slot] # ref[q.slot]
  <2>1. p.slot # q.slot BY DEF SchedInv, Ownership
  <2>2. p.slot \in Slots /\ q.slot \in Slots /\ ref[p.slot] # NoIssue
    BY ParkedTyped
  <2> QED BY <2>1, <2>2 DEF SchedInv, Ownership, OneOwner
<1> QED BY <1>1, <1>2 DEF Ahead

LEMMA ParkedFinite ==
  ASSUME SchedInv
  PROVE  \A S \in SUBSET parked : /\ IsFiniteSet(S) /\ Cardinality(S) \in Nat
                                  /\ Cardinality(S) = 0 <=> S = {}
<1> DEFINE f == [p \in parked |-> p.slot]
<1>1. f \in Injection(parked, Slots)
  <2>1. f \in [parked -> Slots] BY ParkedTyped
  <2>2. \A p, q \in parked : f[p] = f[q] => p = q
    BY DEF SchedInv, Ownership
  <2> HIDE DEF f
  <2> QED BY <2>1, <2>2 DEF Injection, IsInjective
<1> HIDE DEF f
<1>2. IsFiniteSet(parked) BY <1>1, SlotsFinite, FS_Injection
<1>3. TAKE S \in SUBSET parked
<1>4. IsFiniteSet(S) BY <1>2, FS_Subset
<1> QED BY <1>4, FS_CardinalityType, FS_EmptySet

\* Something parked has nothing parked ahead of it.
LEMMA FirstParked ==
  ASSUME SchedInv, parked # {}
  PROVE  \E p \in parked : \A q \in parked : ~Ahead(q, p)
<1> DEFINE turns == {p.turn : p \in parked}
           first == {p \in parked : p.turn = Lowest(turns)}
           refs == {ref[p.slot] : p \in first}
<1>1. turns \subseteq Nat /\ turns # {} BY ParkedTyped
<1>2. Lowest(turns) \in turns /\ \A t \in turns : Lowest(turns) <= t
  <2> HIDE DEF turns
  <2> QED BY <1>1, LowestIn
<1>3. first # {} BY <1>2
<1>4. refs \subseteq Nat /\ refs # {} BY <1>3, ParkedTyped
<1>5. Lowest(refs) \in refs /\ \A r \in refs : Lowest(refs) <= r
  <2> HIDE DEF refs
  <2> QED BY <1>4, LowestIn
<1>6. PICK p \in first : ref[p.slot] = Lowest(refs) BY <1>5
<1>7. ASSUME NEW q \in parked, Ahead(q, p) PROVE FALSE
  <2>1. /\ p.turn = Lowest(turns) /\ Lowest(turns) <= q.turn
        /\ p.turn \in Nat /\ q.turn \in Nat
        /\ ref[p.slot] \in Nat /\ ref[q.slot] \in Nat
    BY <1>2, ParkedTyped
  <2>2. q.turn = p.turn /\ ref[q.slot] < ref[p.slot]
    BY <2>1, <1>7 DEF Ahead
  <2>3. ref[q.slot] \in refs BY <2>1, <2>2
  <2>4. ref[p.slot] <= ref[q.slot] BY <2>3, <1>5, <1>6
  <2> QED BY <2>1, <2>2, <2>4
<1>8. p \in parked OBVIOUS
<1> QED BY <1>7, <1>8

\* The place one finalized contribution frees goes to the first parked, alone.
LEMMA DrainedIsFirst ==
  ASSUME SchedInv, NEW s \in admitted
  PROVE  /\ parked = {} => Drained(admitted \ {s}) = {}
         /\ parked # {} => \E p \in parked :
              /\ Drained(admitted \ {s}) = {p}
              /\ \A q \in parked : q # p => Ahead(p, q)
         /\ Cardinality(admitted \ {s}) = Cardinality(admitted) - 1
<1>1. s \in Slots /\ admitted \subseteq Slots BY DEF SchedInv, SchedTypeOK
<1>2. Cardinality(admitted \ {s}) = Cardinality(admitted) - 1
  BY <1>1, SlotSetSizes
<1>3. parked = {} => Drained(admitted \ {s}) = {} BY DEF Drained
<1>4. ASSUME parked # {}
      PROVE  \E p \in parked :
               /\ Drained(admitted \ {s}) = {p}
               /\ \A q \in parked : q # p => Ahead(p, q)
  <2>1. Cardinality(admitted \ {s}) = HighWater - 1
    BY <1>2, <1>4 DEF SchedInv, Bounds
  <2>2. \A p \in parked :
          p \in Drained(admitted \ {s}) <=> \A q \in parked : ~Ahead(q, p)
    <3>1. TAKE p \in parked
    <3> DEFINE Q == {q \in parked : Ahead(q, p)}
    <3>2. Cardinality(Q) \in Nat /\ (Cardinality(Q) = 0 <=> Q = {})
      <4>1. Q \in SUBSET parked OBVIOUS
      <4> HIDE DEF Q
      <4> QED BY <4>1, ParkedFinite
    <3>3. p \in Drained(admitted \ {s}) <=> Cardinality(Q) + (HighWater - 1) < HighWater
      BY <2>1 DEF Drained
    <3>4. p \in Drained(admitted \ {s}) <=> Q = {}
      <4> HIDE DEF Q
      <4> QED BY <3>2, <3>3 DEF HighWater
    <3> QED BY <3>4
  <2>3. PICK p \in parked : \A q \in parked : ~Ahead(q, p) BY <1>4, FirstParked
  <2>4. \A q \in parked : q # p => Ahead(p, q) BY <2>3, AheadIsTotal
  <2>5. Drained(admitted \ {s}) = {p}
    BY <2>2, <2>3, <2>4 DEF Drained
  <2> QED BY <2>4, <2>5
<1> QED BY <1>2, <1>3, <1>4

LEMMA FinalizeInv ==
  ASSUME SchedInv, NEW s \in admitted,
         NEW published \in BOOLEAN, NEW strike \in BOOLEAN,
         Finalize(s, published, strike)
  PROVE  SchedInv'
<1> USE DEF SchedInv
<1> DEFINE newly == Drained(admitted \ {s})
           moved == {p.slot : p \in newly}
<1>0. /\ s \in Slots /\ s \in open /\ s \notin held /\ ref[s] # NoIssue
      /\ ref[s] \in Issues
  BY DEF SchedTypeOK, Ownership
<1>1. /\ ref' = [ref EXCEPT ![s] = NoIssue]
      /\ open' = open \ {s}
      /\ admitted' = (admitted \ {s}) \cup moved
      /\ parked' = parked \ newly
      /\ held' = held \ ({s} \cup moved)
      /\ serialLatched' = (serialLatched \/ ~published)
      /\ turn' = turn + 1
      /\ UNCHANGED <<inSetup, unitsSpent, stopLatched, phase>>
  BY DEF Finalize
<1>2. worked' \subseteq worked /\ worked \ {ref[s]} \subseteq worked'
  BY DEF Finalize, ReleaseAttempt
<1>3. newly \subseteq parked BY DEF Drained
<1>4. moved \subseteq held \cap open /\ s \notin moved
  BY <1>0, <1>3, ParkedTyped
<1>5. ParkedSlots' \cap moved = {}
  <2>1. \A p \in newly, q \in parked : p.slot = q.slot => p = q
    BY <1>3 DEF Ownership
  <2>2. \A q \in parked' : q \in parked /\ q \notin newly BY <1>1
  <2> HIDE DEF newly
  <2> QED BY <2>1, <2>2 DEF ParkedSlots
<1>6. \A u \in open : u # s => ref[u] # ref[s]
  BY <1>0 DEF OneOwner, Ownership, SchedTypeOK
<1>7. Bounds'
  <2>1. Cardinality(held') <= Cardinality(held)
    BY <1>1, SlotSetSizes DEF SchedTypeOK
  <2>2. Cardinality(open') = Cardinality(open) - 1
    BY <1>0, <1>1, SlotSetSizes DEF SchedTypeOK
  <2>3. /\ Cardinality(admitted') = Cardinality(admitted) - 1
            \/ Cardinality(admitted') = Cardinality(admitted)
        /\ parked' # {} => Cardinality(admitted') = Cardinality(admitted)
    <3>1. CASE parked = {}
      <4>1. newly = {} BY <3>1, DrainedIsFirst
      <4> HIDE DEF newly
      <4>2. admitted' = admitted \ {s} BY <1>1, <4>1
      <4> QED BY <1>1, <3>1, <4>2, DrainedIsFirst
    <3>2. CASE parked # {}
      <4>1. PICK p \in parked : newly = {p} BY <3>2, DrainedIsFirst
      <4> HIDE DEF newly
      <4>2. p.slot \in Slots /\ p.slot \notin admitted
        BY ParkedTyped DEF Ownership
      <4>3. admitted' = (admitted \ {s}) \cup {p.slot} BY <1>1, <4>1
      <4>4. admitted \ {s} \subseteq Slots BY DEF SchedTypeOK
      <4>5. Cardinality(admitted') = Cardinality(admitted \ {s}) + 1
        BY <4>2, <4>3, <4>4, SlotSetSizes
      <4>6. Cardinality(admitted) \in Nat BY SlotSets DEF SchedTypeOK
      <4>7. Cardinality(admitted \ {s}) = Cardinality(admitted) - 1
        BY DrainedIsFirst
      <4> QED BY <4>5, <4>6, <4>7
    <3> QED BY <3>1, <3>2
  <2>4. /\ Cardinality(held) \in Nat /\ Cardinality(held') \in Nat
        /\ Cardinality(open) \in Nat /\ Cardinality(admitted) \in Nat
    <3>1. held' \subseteq Slots BY <1>1 DEF SchedTypeOK
    <3> QED BY <3>1, SlotSets DEF SchedTypeOK
  <2>5. LaneCap \in Int /\ unitsSpent \in Nat
    BY CapAssumption DEF SchedTypeOK
  <2>6. parked' # {} => parked # {} BY <1>1
  <2>7. UnitsNeverOverspent' = UnitsNeverOverspent
    BY <1>1 DEF UnitsNeverOverspent
  <2> HIDE DEF newly
  <2> QED
    BY <1>1, <2>1, <2>2, <2>3, <2>4, <2>5, <2>6, <2>7 DEF Bounds, HighWater
<1> HIDE DEF newly
<1>8. SchedTypeOK'
  BY <1>0, <1>1, <1>2, <1>3, <1>4 DEF SchedTypeOK
<1>9. Ownership'
  <2> USE DEF Ownership, SchedTypeOK
  <2> HIDE DEF moved
  <2>1. (held \cup open = {u \in Slots : ref[u] # NoIssue})'
    BY <1>0, <1>1, <1>4
  <2>2. (inSetup = {ref[u] : u \in held \ open})' BY <1>0, <1>1, <1>4
  <2>3. (/\ admitted \subseteq open /\ admitted \cap held = {}
         /\ open \subseteq admitted \cup held)'
    BY <1>0, <1>1, <1>4
  <2>4. ParkedSlots' \subseteq ParkedSlots BY <1>1 DEF ParkedSlots
  <2>5. s \notin ParkedSlots BY <1>0
  <2>6. (/\ ParkedSlots \subseteq held \cap open
         /\ \A p, q \in parked : p.slot = q.slot => p = q)'
    BY <1>0, <1>1, <1>5, <2>4, <2>5
  <2>7. OneOwner' BY <1>0, <1>1 DEF OneOwner
  <2>8. (\A u \in open : ref[u] \in worked)' BY <1>0, <1>1, <1>2, <1>6
  <2> QED BY <2>1, <2>2, <2>3, <2>6, <2>7, <2>8
<1> QED BY <1>7, <1>8, <1>9

-----------------------------------------------------------------------------
(* The Lane tasks.                                                         *)

Reserving == {"begin", "classify"}

\* Where each task stands says what its slot is.
TaskPhase(t) ==
  /\ pc[t] \in Reserving => at[t] \in held \ open
  /\ pc[t] = "session" => at[t] \in (held \cap open) \ ParkedSlots
  /\ pc[t] \in Reserving \cup {"session"} =>
       ref[at[t]] = issue[t] /\ strikes[issue[t]] < MaxStrikes
  /\ pc[t] = "gate" => at[t] \in admitted

Separate == \A t, u \in Live : at[t] = at[u] => t = u

\* Where the driver is suspended while Lane tasks run.
Waiting == {"priority", "await", "drain"}

\* _integration_lock is held or awaited by exactly the tasks in their gate.
Queue ==
  ~cancelling =>
    /\ \A t \in Tasks : pc[t] = "gate" => \E k \in 1..Len(line) : line[k] = t
    /\ \A k \in 1..Len(line) : pc[line[k]] = "gate"
    /\ \A j, k \in 1..Len(line) : line[j] = line[k] => j = k

TaskInv == (\A t \in Tasks : TaskPhase(t)) /\ Separate /\ Queue

DriverInv ==
  /\ driver \in {"serial", "lastlook"} => Quiescent /\ Remaining > 0
  /\ driver \in {"poll", "over"} => NonePending
  /\ cancelling => driver \in {"drain", "over"}
  /\ crash => returned \/ driver \in {"turn", "drain", "over"}

\* Unless the Run is coming to an end, whatever a slot stands for is parked or
\* the business of a task.
Covered ==
  driver \notin {"drain", "over"} /\ ~crash =>
    \A s \in Slots : ref[s] # NoIssue /\ s \notin ParkedSlots =>
      \E t \in Live : at[t] = s

DispatchInv == TypeOK /\ Ownership /\ Bounds /\ TaskInv /\ DriverInv /\ Covered

LEMMA DispatchSched == DispatchInv => SchedInv
  BY DEF DispatchInv, TypeOK, SchedInv

LEMMA LiveMeans ==
  ASSUME TypeOK, NEW t \in Tasks
  PROVE  t \in Live <=> pc[t] \in Reserving \cup {"session", "gate"}
  BY DEF Live, TypeOK, Reserving

\* The slot of a live task stands for something, and for nothing parked.
LEMMA LiveSlot ==
  ASSUME DispatchInv, NEW t \in Live
  PROVE  /\ at[t] \in held \cup open /\ at[t] \notin ParkedSlots
         /\ at[t] \in Slots /\ ref[at[t]] \in Issues
<1>1. t \in Tasks BY DEF Live
<1>2. TaskPhase(t) /\ TypeOK BY <1>1 DEF DispatchInv, TaskInv
<1>3. pc[t] \in Reserving \cup {"session", "gate"} BY <1>1, <1>2, LiveMeans
<1>4. at[t] \in held \cup open /\ at[t] \notin ParkedSlots
  BY <1>2, <1>3 DEF TaskPhase, DispatchInv, Ownership
<1> QED
  BY <1>1, <1>2, <1>4 DEF DispatchInv, Ownership, TypeOK, SchedTypeOK

\* A step that leaves every slot outside S as it is.
Untouched(S) ==
  \A s \in Slots \ S :
    /\ ref'[s] = ref[s]
    /\ s \in held' <=> s \in held
    /\ s \in open' <=> s \in open
    /\ s \in admitted' <=> s \in admitted
    /\ s \in ParkedSlots' <=> s \in ParkedSlots

\* What a task does to its own slot, and to parked ones, is nothing to others.
LEMMA OtherTasks ==
  ASSUME DispatchInv, NEW t \in Live,
         NEW S, S \subseteq {at[t]} \cup ParkedSlots, Untouched(S),
         \A u \in Tasks \ {t} :
           pc'[u] = pc[u] /\ issue'[u] = issue[u] /\ at'[u] = at[u],
         \A i \in Issues : (i = issue[t] /\ pc[t] = "session") \/ strikes'[i] = strikes[i]
  PROVE  /\ \A u \in Tasks \ {t} : TaskPhase(u)'
         /\ \A u \in Live \ {t} : u \in Live' /\ at'[u] \notin S
         /\ \A u, v \in Live' \ {t} : at'[u] = at'[v] => u = v
         /\ Covered => (driver \notin {"drain", "over"} /\ ~crash =>
              \A s \in Slots \ (S \cup {at[t]}) :
                ref'[s] # NoIssue /\ s \notin ParkedSlots' =>
                  \E u \in Live' \ {t} : at'[u] = s)
<1> USE DEF DispatchInv, TaskInv
<1>0. t \in Tasks /\ TypeOK BY DEF Live
<1>1. \A u \in Live \ {t} : at[u] \notin S
  BY LiveSlot DEF Separate
<1>2. \A u \in Tasks \ {t} : u \in Live' <=> u \in Live
  BY DEF Live
<1>3. ASSUME NEW u \in Tasks \ {t} PROVE TaskPhase(u)'
  <2>1. CASE u \notin Live
    <3>1. pc[u] \notin Reserving \cup {"session", "gate"}
      BY <1>0, <2>1, LiveMeans
    <3> QED BY <3>1 DEF TaskPhase, Reserving
  <2>2. CASE u \in Live
    <3>1. at[u] \in Slots \ S /\ at'[u] = at[u] /\ pc'[u] = pc[u]
          /\ issue'[u] = issue[u] /\ TaskPhase(u)
      BY <1>1, <2>2, LiveSlot
    <3>2. ASSUME pc[u] \in Reserving \cup {"session"}
          PROVE  strikes'[issue[u]] = strikes[issue[u]]
      <4>1. issue[u] = ref[at[u]] /\ issue[u] \in Issues
        BY <3>1, <3>2, <2>2, LiveSlot DEF TaskPhase
      <4>2. pc[t] = "session" => issue[t] = ref[at[t]]
        BY <1>0 DEF TaskPhase
      <4>3. at[u] # at[t] BY <2>2 DEF Separate
      <4>4. ref[at[u]] # ref[at[t]]
        BY <2>2, <4>3, LiveSlot, IssuesAssumption DEF Ownership, OneOwner
      <4> QED BY <4>1, <4>2, <4>4
    <3> QED BY <3>1, <3>2 DEF TaskPhase, Untouched
  <2> QED BY <2>1, <2>2
<1>4. \A u \in Live \ {t} : u \in Live' /\ at'[u] \notin S
  BY <1>1, <1>2 DEF Live
<1>5. \A u, v \in Live' \ {t} : at'[u] = at'[v] => u = v
  BY <1>2 DEF Separate, Live
<1>6. ASSUME Covered, driver \notin {"drain", "over"} /\ ~crash,
             NEW s \in Slots \ S, ref'[s] # NoIssue, s \notin ParkedSlots',
             s # at[t]
      PROVE  \E u \in Live' \ {t} : at'[u] = s
  <2>1. ref[s] # NoIssue /\ s \notin ParkedSlots BY <1>6 DEF Untouched
  <2>2. PICK u \in Live : at[u] = s BY <1>6, <2>1 DEF Covered
  <2>3. u \in Tasks \ {t} BY <1>6, <2>2 DEF Live
  <2> QED BY <1>2, <2>2, <2>3
<1> QED BY <1>3, <1>4, <1>5, <1>6

\* The queue for the lock while tasks enter it, leave it and go to its back.
LEMMA QueueKept ==
  ASSUME DispatchInv, NEW t \in Tasks, pc[t] # "gate", pc'[t] # "gate",
         \A u \in Tasks \ {t} : pc'[u] = pc[u],
         line' = line, cancelling' = cancelling
  PROVE  Queue'
<1> USE DEF DispatchInv, TaskInv
<1>1. \A k \in 1..Len(line) : line[k] \in Tasks BY DEF TypeOK
<1> QED BY <1>1 DEF Queue

LEMMA QueueJoined ==
  ASSUME DispatchInv, NEW t \in Tasks, pc[t] # "gate", pc'[t] = "gate",
         \A u \in Tasks \ {t} : pc'[u] = pc[u],
         line' = Append(line, t), cancelling' = cancelling
  PROVE  Queue'
<1> USE DEF DispatchInv, TaskInv
<1>1. line \in Seq(Tasks) /\ Len(line) \in Nat BY DEF TypeOK
<1>2. /\ Len(line') = Len(line) + 1
      /\ \A k \in 1..Len(line) : line'[k] = line[k] /\ line[k] \in Tasks
      /\ line'[Len(line) + 1] = t
  BY <1>1
<1>3. \A k \in 1..Len(line') : k \in 1..Len(line) \/ k = Len(line) + 1
  BY <1>1, <1>2
<1>4. 1..Len(line) \subseteq 1..Len(line') /\ Len(line) + 1 \in 1..Len(line')
  BY <1>1, <1>2
<1> QED BY <1>2, <1>3, <1>4 DEF Queue

LEMMA TailOfLine ==
  ASSUME TypeOK, line # <<>>
  PROVE  /\ Tail(line) \in Seq(Tasks) /\ Len(line) \in Nat
         /\ Head(line) = line[1] /\ 1 \in 1..Len(line)
         /\ Len(Tail(line)) = Len(line) - 1
         /\ \A k \in 1..(Len(line) - 1) : Tail(line)[k] = line[k + 1]
  BY DEF TypeOK

LEMMA QueueLeft ==
  ASSUME DispatchInv, NEW t \in Tasks, pc[t] = "gate", Head(line) = t,
         pc'[t] # "gate", \A u \in Tasks \ {t} : pc'[u] = pc[u],
         line' = Tail(line), cancelling' = cancelling, ~cancelling
  PROVE  Queue' /\ line' \in Seq(Tasks)
<1> USE DEF DispatchInv, TaskInv
<1>1. line \in Seq(Tasks) /\ Len(line) \in Nat BY DEF TypeOK
<1>2. PICK k \in 1..Len(line) : line[k] = t BY DEF Queue
<1>3. line # <<>> BY <1>1, <1>2
<1>4. /\ Tail(line) \in Seq(Tasks)
      /\ Len(line') = Len(line) - 1 /\ line[1] = t
      /\ \A j \in 1..(Len(line) - 1) : line'[j] = line[j + 1]
  BY <1>3, TailOfLine
<1>5. \A j \in 1..Len(line') : j + 1 \in 1..Len(line) /\ j + 1 # 1
  BY <1>1, <1>4
<1>6. \A j \in 1..Len(line') : line'[j] # t /\ line'[j] \in Tasks
  BY <1>1, <1>4, <1>5 DEF Queue
<1>7. ASSUME NEW u \in Tasks, pc'[u] = "gate"
      PROVE  \E j \in 1..Len(line') : line'[j] = u
  <2>1. u # t /\ pc[u] = "gate" BY <1>7
  <2>2. PICK j \in 1..Len(line) : line[j] = u BY <2>1 DEF Queue
  <2>3. j # 1 BY <1>4, <2>1, <2>2
  <2>4. j - 1 \in 1..Len(line') /\ line'[j - 1] = line[j]
    BY <1>1, <1>4, <2>3
  <2> QED BY <2>2, <2>4
<1>8. \A j \in 1..Len(line') : pc'[line'[j]] = "gate"
  BY <1>4, <1>5, <1>6 DEF Queue
<1>9. \A i, j \in 1..Len(line') : line'[i] = line'[j] => i = j
  BY <1>1, <1>4, <1>5 DEF Queue
<1> QED BY <1>4, <1>7, <1>8, <1>9 DEF Queue

LEMMA QueueRejoined ==
  ASSUME DispatchInv, NEW t \in Tasks, pc[t] = "gate", Head(line) = t,
         pc' = pc, line' = Append(Tail(line), t), cancelling' = cancelling,
         ~cancelling
  PROVE  Queue' /\ line' \in Seq(Tasks)
<1> USE DEF DispatchInv, TaskInv
<1>1. line \in Seq(Tasks) /\ Len(line) \in Nat BY DEF TypeOK
<1>2. PICK k \in 1..Len(line) : line[k] = t BY DEF Queue
<1>3. line # <<>> BY <1>1, <1>2
<1> DEFINE n == Len(line)
<1>4. /\ Tail(line) \in Seq(Tasks) /\ line[1] = t /\ n >= 1
      /\ Len(Tail(line)) = n - 1
      /\ \A j \in 1..(n - 1) : Tail(line)[j] = line[j + 1]
  BY <1>1, <1>2, <1>3, TailOfLine
<1>5. /\ line' \in Seq(Tasks) /\ Len(line') = n /\ line'[n] = t
      /\ \A j \in 1..(n - 1) : line'[j] = line[j + 1]
  BY <1>1, <1>4
<1>6. \A j \in 1..n : j = n \/ (j \in 1..(n - 1) /\ j + 1 \in 1..n /\ j + 1 # 1)
  BY <1>1
<1>7. ASSUME NEW u \in Tasks, pc'[u] = "gate"
      PROVE  \E j \in 1..Len(line') : line'[j] = u
  <2>1. CASE u = t
    <3>1. n \in 1..n BY <1>1, <1>4
    <3> QED BY <1>5, <2>1, <3>1
  <2>2. CASE u # t
    <3>1. PICK j \in 1..n : line[j] = u BY <1>7 DEF Queue
    <3>2. j # 1 BY <1>4, <2>2, <3>1
    <3>3. j - 1 \in 1..(n - 1) /\ j - 1 \in 1..n /\ (j - 1) + 1 = j
      BY <1>1, <3>2
    <3> QED BY <1>5, <3>1, <3>3
  <2> QED BY <2>1, <2>2
<1>8. ASSUME NEW j \in 1..n PROVE pc'[line'[j]] = "gate"
  <2>1. CASE j = n BY <1>5, <2>1
  <2>2. CASE j \in 1..(n - 1) /\ j + 1 \in 1..n
    <3>1. pc[line[j + 1]] = "gate" BY <2>2 DEF Queue
    <3> QED BY <1>5, <2>2, <3>1
  <2> QED BY <1>6, <2>1, <2>2
<1>9. ASSUME NEW i \in 1..n, NEW j \in 1..n, line'[i] = line'[j]
      PROVE  i = j
  <2>1. 1 \in 1..n BY <1>1, <1>4
  <2>2. \A m \in 1..(n - 1) : line'[m] # t
    BY <1>1, <1>4, <1>5, <2>1 DEF Queue
  <2>3. CASE i = n \/ j = n BY <1>5, <1>6, <1>9, <2>2, <2>3
  <2>4. CASE i \in 1..(n - 1) /\ j \in 1..(n - 1)
    <3>1. i + 1 \in 1..n /\ j + 1 \in 1..n /\ line[i + 1] = line[j + 1]
      BY <1>1, <1>5, <1>9, <2>4
    <3>2. i + 1 = j + 1 BY <3>1 DEF Queue
    <3> QED BY <2>4, <3>2
  <2> QED BY <1>6, <2>3, <2>4
<1>10. Len(line') = n BY <1>5
<1> HIDE DEF n
<1>11. Queue' BY <1>7, <1>8, <1>9, <1>10 DEF Queue
<1> QED BY <1>5, <1>11

\* A Lane task acts only while the driver awaits capacity or the Run's end.
LEMMA LaneRuns ==
  ASSUME DispatchInv, NEW t \in Tasks,
         NEW where \in Reserving \cup {"session", "gate"}, Runs(t, where)
  PROVE  /\ t \in Live /\ driver \in Waiting /\ ~cancelling
         /\ pc[t] = where
<1>1. t \in Live BY LiveMeans DEF Runs, DispatchInv
<1>2. ~Quiescent
  BY <1>1, LiveSlot DEF Quiescent
<1> QED
  BY <1>1, <1>2 DEF Runs, Suspended, Waiting, DispatchInv, DriverInv, NonePending

\* A step in which task t ends.
LEMMA TaskEnds ==
  ASSUME DispatchInv, NEW t \in Live, driver \in Waiting,
         NEW S, S \subseteq {at[t]} \cup ParkedSlots, Untouched(S),
         S \subseteq {at[t]} \/ crash',
         \A i \in Issues : (i = issue[t] /\ pc[t] = "session") \/ strikes'[i] = strikes[i],
         EndTask(t), driver' = driver, cancelling' = cancelling, crash => crash',
         TypeOK', SchedInv', Queue',
         \/ ref'[at[t]] = NoIssue \/ at[t] \in ParkedSlots'
         \/ crash' \/ driver = "drain"
  PROVE  DispatchInv'
<1>0. t \in Tasks /\ pc \in [Tasks -> {"none", "begin", "classify", "session", "gate"}]
  BY DEF Live, DispatchInv, TypeOK
<1>1. /\ pc'[t] = "none" /\ returned' = TRUE
      /\ \A u \in Tasks \ {t} :
           pc'[u] = pc[u] /\ issue'[u] = issue[u] /\ at'[u] = at[u]
  BY <1>0 DEF EndTask
<1>2. /\ \A u \in Tasks \ {t} : TaskPhase(u)'
      /\ \A u, v \in Live' \ {t} : at'[u] = at'[v] => u = v
      /\ driver \notin {"drain", "over"} /\ ~crash =>
           \A s \in Slots \ (S \cup {at[t]}) :
             ref'[s] # NoIssue /\ s \notin ParkedSlots' =>
               \E u \in Live' \ {t} : at'[u] = s
  BY <1>1, OtherTasks DEF DispatchInv
<1>3. TaskPhase(t)' BY <1>1 DEF TaskPhase, Reserving
<1>4. t \notin Live' BY <1>1 DEF Live
<1>5. TaskInv' BY <1>2, <1>3, <1>4 DEF TaskInv, Separate
<1>6. DriverInv'
  BY <1>1 DEF DispatchInv, DriverInv, Waiting
<1>7. Covered' BY <1>2 DEF Covered
<1> QED BY <1>5, <1>6, <1>7 DEF DispatchInv, SchedInv

\* A step in which task t goes on, in its slot or in one it takes over.
LEMMA TaskGoesOn ==
  ASSUME DispatchInv, NEW t \in Live, driver \in Waiting,
         NEW S, S \subseteq {at[t]} \cup ParkedSlots, at[t] \in S, Untouched(S),
         \A u \in Tasks \ {t} :
           pc'[u] = pc[u] /\ issue'[u] = issue[u] /\ at'[u] = at[u],
         \A i \in Issues : (i = issue[t] /\ pc[t] = "session") \/ strikes'[i] = strikes[i],
         UNCHANGED <<driver, cancelling, crash, returned>>,
         TypeOK', SchedInv', Queue', TaskPhase(t)', t \in Live', at'[t] \in S,
         \A s \in S : ref'[s] = NoIssue \/ s \in ParkedSlots' \/ s = at'[t]
  PROVE  DispatchInv'
<1>1. /\ \A u \in Tasks \ {t} : TaskPhase(u)'
      /\ \A u \in Live \ {t} : u \in Live' /\ at'[u] \notin S
      /\ \A u, v \in Live' \ {t} : at'[u] = at'[v] => u = v
      /\ driver \notin {"drain", "over"} /\ ~crash =>
           \A s \in Slots \ (S \cup {at[t]}) :
             ref'[s] # NoIssue /\ s \notin ParkedSlots' =>
               \E u \in Live' \ {t} : at'[u] = s
  BY OtherTasks DEF DispatchInv
<1>2. \A u \in Live' \ {t} : u \in Live \ {t}
  BY DEF Live
<1>3. TaskInv' BY <1>1, <1>2 DEF TaskInv, Separate
<1>4. DriverInv'
  BY DEF DispatchInv, DriverInv, Waiting
<1>5. Covered' BY <1>1 DEF Covered
<1> QED BY <1>3, <1>4, <1>5 DEF DispatchInv, SchedInv

-----------------------------------------------------------------------------
(* Every step of a Lane task keeps the invariant.                          *)

\* What the task of a reservation or a session stands on.
LEMMA OwnSlot ==
  ASSUME DispatchInv, NEW t \in Live
  PROVE  /\ t \in Tasks /\ at[t] \in Slots
         /\ pc[t] \in Reserving => at[t] \in held \ open
         /\ pc[t] = "session" => at[t] \in (held \cap open) \ ParkedSlots
         /\ pc[t] \in Reserving \cup {"session"} =>
              /\ ref[at[t]] = issue[t] /\ issue[t] \in Issues
              /\ strikes[issue[t]] < MaxStrikes
         /\ pc[t] = "gate" => at[t] \in admitted
  BY LiveSlot DEF DispatchInv, TaskInv, TaskPhase, Live

LEMMA PcEnds ==
  ASSUME TypeOK, NEW t \in Tasks, EndTask(t)
  PROVE  /\ pc' \in [Tasks -> {"none", "begin", "classify", "session", "gate"}]
         /\ pc'[t] = "none" /\ returned' = TRUE
         /\ issue' \in [Tasks -> Issues \cup {NoIssue}] /\ at' \in [Tasks -> Slots]
         /\ \A u \in Tasks \ {t} :
              pc'[u] = pc[u] /\ issue'[u] = issue[u] /\ at'[u] = at[u]
  BY DEF TypeOK, EndTask, Tasks

LEMMA NetKeepsLeases ==
  ASSUME NEW t, NEW remain, remain \subseteq Issues, NEW stillOpen
  PROVE  LeaseNet(t, remain, stillOpen) \subseteq Issues
  BY DEF LeaseNet

\* A reservation that is released, by a refusal or a setup that fails.
LEMMA ReleasedReservation ==
  ASSUME DispatchInv, NEW t \in Live, driver \in Waiting,
         pc[t] \in Reserving, ~cancelling,
         Release(at[t]), EndTask(t),
         refused' \subseteq Issues, leases' \subseteq Issues,
         UNCHANGED <<driverVars, line, charged, strikes, tracked, endVars>>
  PROVE  DispatchInv'
<1> USE DEF Reserving
<1>1. at[t] \in held \ open /\ t \in Tasks BY OwnSlot
<1>2. SchedInv' BY <1>1, ReleaseInv, DispatchSched
<1>3. TypeOK'
  BY <1>1, <1>2, PcEnds DEF DispatchInv, TypeOK, SchedInv, driverVars, endVars
<1>4. Queue' BY <1>1, PcEnds, QueueKept DEF endVars, DispatchInv
<1>5. Untouched({at[t]})
  BY <1>1 DEF Untouched, Release, ParkedSlots, DispatchInv, TypeOK, SchedTypeOK
<1>6. ref'[at[t]] = NoIssue
  BY <1>1, OwnSlot DEF Release, DispatchInv, TypeOK, SchedTypeOK
<1> QED
  BY <1>2, <1>3, <1>4, <1>5, <1>6, TaskEnds DEF driverVars, endVars

LEMMA LaneRefusedInv ==
  ASSUME DispatchInv, NEW t \in Tasks, LaneRefused(t) PROVE DispatchInv'
<1>1. /\ t \in Live /\ driver \in Waiting /\ ~cancelling
      /\ pc[t] \in Reserving
  BY LaneRuns DEF LaneRefused, Reserving
<1>2. leases \subseteq Issues /\ refused \subseteq Issues /\ issue[t] \in Issues
  BY <1>1, OwnSlot DEF DispatchInv, TypeOK
<1>3. refused' \subseteq Issues /\ leases' \subseteq Issues
  BY <1>2, NetKeepsLeases DEF LaneRefused
<1> QED BY <1>1, <1>3, ReleasedReservation DEF LaneRefused

LEMMA LaneSetupFailsInv ==
  ASSUME DispatchInv, NEW t \in Tasks, NEW refuse \in BOOLEAN,
         LaneSetupFails(t, refuse)
  PROVE  DispatchInv'
<1>1. /\ t \in Live /\ driver \in Waiting /\ ~cancelling
      /\ pc[t] \in Reserving
  BY LaneRuns DEF LaneSetupFails, Reserving
<1>2. leases \subseteq Issues /\ refused \subseteq Issues /\ issue[t] \in Issues
  BY <1>1, OwnSlot DEF DispatchInv, TypeOK
<1>3. refused' \subseteq Issues /\ leases' \subseteq Issues
  BY <1>2, NetKeepsLeases DEF LaneSetupFails
<1> QED BY <1>1, <1>3, ReleasedReservation DEF LaneSetupFails

LEMMA SameSched ==
  ASSUME SchedInv, UNCHANGED schedVars
  PROVE  SchedInv' /\ Untouched({}) /\ ParkedSlots' = ParkedSlots
<1>1. /\ ref' = ref /\ held' = held /\ inSetup' = inSetup /\ open' = open
      /\ admitted' = admitted /\ parked' = parked /\ worked' = worked
      /\ unitsSpent' = unitsSpent /\ turn' = turn /\ phase' = phase
      /\ serialLatched' = serialLatched /\ stopLatched' = stopLatched
  BY DEF schedVars
<1>2. ParkedSlots' = ParkedSlots BY <1>1 DEF ParkedSlots
<1>3. SchedTypeOK' BY <1>1 DEF SchedInv, SchedTypeOK
<1>4. Ownership' BY <1>1, <1>2 DEF SchedInv, Ownership, OneOwner
<1>5. Bounds' BY <1>1 DEF SchedInv, Bounds, UnitsNeverOverspent
<1> QED BY <1>1, <1>2, <1>3, <1>4, <1>5 DEF Untouched, SchedInv

LEMMA LaneTakesLeaseInv ==
  ASSUME DispatchInv, NEW t \in Tasks, LaneTakesLease(t) PROVE DispatchInv'
<1>1. /\ t \in Live /\ driver \in Waiting /\ pc[t] = "begin"
      /\ pc[t] \in Reserving
  BY LaneRuns DEF LaneTakesLease, Reserving
<1>2. /\ issue[t] \in Issues /\ ref[at[t]] = issue[t] /\ at[t] \in held \ open
      /\ strikes[issue[t]] < MaxStrikes /\ at[t] \in Slots
  BY <1>1, OwnSlot
<1>3. SchedInv' /\ UNCHANGED schedVars
  BY SameSched, DispatchSched DEF LaneTakesLease
<1>4. /\ pc'[t] = "classify" /\ \A u \in Tasks \ {t} : pc'[u] = pc[u]
      /\ pc' \in [Tasks -> {"none", "begin", "classify", "session", "gate"}]
  BY DEF LaneTakesLease, DispatchInv, TypeOK
<1>5. TypeOK'
  BY <1>2, <1>3, <1>4
  DEF DispatchInv, TypeOK, SchedInv, LaneTakesLease, driverVars, endVars
<1>6. Queue' BY <1>1, <1>4, QueueKept DEF LaneTakesLease, endVars
<1>7. Untouched({at[t]})
  BY <1>3, SameSched, DispatchSched DEF Untouched
<1>8. TaskPhase(t)'
  BY <1>2, <1>3, <1>4 DEF TaskPhase, Reserving, LaneTakesLease, schedVars
<1>9. t \in Live' BY <1>4 DEF Live
<1> QED
  BY <1>1, <1>3, <1>4, <1>5, <1>6, <1>7, <1>8, <1>9, TaskGoesOn
  DEF LaneTakesLease, driverVars, endVars

LEMMA LaneStartsInv ==
  ASSUME DispatchInv, NEW t \in Tasks, LaneStarts(t) PROVE DispatchInv'
<1>1. /\ t \in Live /\ driver \in Waiting /\ pc[t] = "classify"
      /\ pc[t] \in Reserving
  BY LaneRuns DEF LaneStarts, Reserving
<1>2. /\ issue[t] \in Issues /\ ref[at[t]] = issue[t] /\ at[t] \in held \ open
      /\ strikes[issue[t]] < MaxStrikes /\ at[t] \in Slots
  BY <1>1, OwnSlot
<1>3. SchedInv' BY <1>2, StartSessionInv, DispatchSched DEF LaneStarts
<1>4. /\ pc'[t] = "session" /\ \A u \in Tasks \ {t} : pc'[u] = pc[u]
      /\ pc' \in [Tasks -> {"none", "begin", "classify", "session", "gate"}]
  BY DEF LaneStarts, DispatchInv, TypeOK
<1>5. TypeOK'
  BY <1>3, <1>4
  DEF DispatchInv, TypeOK, SchedInv, LaneStarts, driverVars, ledgerVars, endVars
<1>6. Queue' BY <1>1, <1>4, QueueKept DEF LaneStarts, endVars
<1>7. Untouched({at[t]})
  BY DEF Untouched, LaneStarts, StartSession, ParkedSlots
<1>8. TaskPhase(t)'
  BY <1>1, <1>2, <1>4, LiveSlot
  DEF TaskPhase, Reserving, LaneStarts, StartSession, ledgerVars, ParkedSlots
<1>9. t \in Live' BY <1>4 DEF Live
<1> QED
  BY <1>1, <1>3, <1>4, <1>5, <1>6, <1>7, <1>8, <1>9, TaskGoesOn
  DEF LaneStarts, driverVars, ledgerVars, endVars

LEMMA ChargeTyped ==
  ASSUME strikes \in [Issues -> 0..MaxStrikes], NEW i \in Issues,
         strikes[i] < MaxStrikes, NEW strike \in BOOLEAN, Charge(i, strike)
  PROVE  /\ strikes' \in [Issues -> 0..MaxStrikes]
         /\ \A j \in Issues : j = i \/ strikes'[j] = strikes[j]
<1>1. strikes[i] + 1 \in 0..MaxStrikes BY StrikesAssumption
<1> QED BY <1>1 DEF Charge

LEMMA SessionClosesInv ==
  ASSUME DispatchInv, NEW t \in Tasks, NEW reoffer \in BOOLEAN,
         NEW strike \in BOOLEAN, NEW gaveUp \in BOOLEAN,
         SessionCloses(t, reoffer, strike, gaveUp)
  PROVE  DispatchInv'
<1>1. t \in Live /\ driver \in Waiting /\ pc[t] = "session"
  BY LaneRuns DEF SessionCloses
<1>2. /\ issue[t] \in Issues /\ ref[at[t]] = issue[t] /\ at[t] \in Slots
      /\ at[t] \in (held \cap open) \ ParkedSlots
      /\ strikes[issue[t]] < MaxStrikes
  BY <1>1, OwnSlot
<1>3. FinishTerminal(at[t], reoffer, strike) /\ EndTask(t)
  BY DEF SessionCloses
<1>4. SchedInv' BY <1>2, <1>3, FinishTerminalInv, DispatchSched
<1>5. leases' \subseteq Issues
  BY <1>2, NetKeepsLeases DEF SessionCloses, DispatchInv, TypeOK
<1>6. /\ strikes' \in [Issues -> 0..MaxStrikes]
      /\ \A j \in Issues : j = issue[t] \/ strikes'[j] = strikes[j]
  BY <1>2, ChargeTyped DEF SessionCloses, DispatchInv, TypeOK
<1>7. TypeOK'
  BY <1>3, <1>4, <1>5, <1>6, PcEnds
  DEF DispatchInv, TypeOK, SchedInv, SessionCloses, driverVars
<1>8. Queue' BY <1>1, <1>3, PcEnds, QueueKept DEF SessionCloses, DispatchInv
<1>9. Untouched({at[t]})
  BY <1>2, <1>3
  DEF Untouched, FinishTerminal, ParkedSlots, DispatchInv, TypeOK, SchedTypeOK
<1>10. ref'[at[t]] = NoIssue
  BY <1>2, <1>3 DEF FinishTerminal, DispatchInv, TypeOK, SchedTypeOK
<1> QED
  BY <1>1, <1>3, <1>4, <1>6, <1>7, <1>8, <1>9, <1>10, TaskEnds
  DEF SessionCloses, driverVars

LEMMA SessionAdmittedInv ==
  ASSUME DispatchInv, NEW t \in Tasks, NEW strike \in BOOLEAN,
         SessionAdmitted(t, strike)
  PROVE  DispatchInv'
<1>1. t \in Live /\ driver \in Waiting /\ pc[t] = "session"
  BY LaneRuns DEF SessionAdmitted
<1>2. /\ issue[t] \in Issues /\ at[t] \in Slots
      /\ at[t] \in (held \cap open) \ ParkedSlots
      /\ strikes[issue[t]] < MaxStrikes
  BY <1>1, OwnSlot
<1>3. FinishAdmitted(at[t]) BY DEF SessionAdmitted
<1>4. SchedInv' BY <1>2, <1>3, FinishAdmittedInv, DispatchSched
<1>5. /\ strikes' \in [Issues -> 0..MaxStrikes]
      /\ \A j \in Issues : j = issue[t] \/ strikes'[j] = strikes[j]
  BY <1>2, ChargeTyped DEF SessionAdmitted, DispatchInv, TypeOK
<1>6. /\ pc'[t] = "gate" /\ \A u \in Tasks \ {t} : pc'[u] = pc[u]
      /\ pc' \in [Tasks -> {"none", "begin", "classify", "session", "gate"}]
  BY DEF SessionAdmitted, DispatchInv, TypeOK
<1>7. line' \in Seq(Tasks) BY DEF SessionAdmitted, DispatchInv, TypeOK
<1>8. TypeOK'
  BY <1>2, <1>4, <1>5, <1>6, <1>7
  DEF DispatchInv, TypeOK, SchedInv, SessionAdmitted, SignalCapacity, endVars
<1>9. Queue' BY <1>1, <1>6, QueueJoined DEF SessionAdmitted, endVars
<1>10. Untouched({at[t]})
  BY <1>3 DEF Untouched, FinishAdmitted, ParkedSlots
<1>11. TaskPhase(t)'
  BY <1>3, <1>6 DEF TaskPhase, Reserving, FinishAdmitted, SessionAdmitted
<1>12. t \in Live' BY <1>6 DEF Live
<1> QED
  BY <1>1, <1>4, <1>5, <1>6, <1>8, <1>9, <1>10, <1>11, <1>12, TaskGoesOn
  DEF SessionAdmitted, endVars

LEMMA SessionParkedInv ==
  ASSUME DispatchInv, NEW t \in Tasks, NEW strike \in BOOLEAN,
         SessionParked(t, strike)
  PROVE  DispatchInv'
<1>1. t \in Live /\ driver \in Waiting /\ pc[t] = "session"
  BY LaneRuns DEF SessionParked
<1>2. /\ issue[t] \in Issues /\ at[t] \in Slots
      /\ at[t] \in (held \cap open) \ ParkedSlots
      /\ strikes[issue[t]] < MaxStrikes
  BY <1>1, OwnSlot
<1>3. FinishParked(at[t]) /\ EndTask(t) BY DEF SessionParked
<1>4. SchedInv' BY <1>2, <1>3, FinishParkedInv, DispatchSched
<1>5. /\ strikes' \in [Issues -> 0..MaxStrikes]
      /\ \A j \in Issues : j = issue[t] \/ strikes'[j] = strikes[j]
  BY <1>2, ChargeTyped DEF SessionParked, DispatchInv, TypeOK
<1>6. leases' \subseteq Issues
  BY <1>2, NetKeepsLeases DEF SessionParked, DispatchInv, TypeOK
<1>7. TypeOK'
  BY <1>2, <1>3, <1>4, <1>5, <1>6, PcEnds
  DEF DispatchInv, TypeOK, SchedInv, SessionParked, driverVars, endVars
<1>8. Queue' BY <1>1, <1>3, PcEnds, QueueKept DEF SessionParked, DispatchInv, endVars
<1>9. /\ at[t] \in ParkedSlots'
      /\ \A s \in Slots \ {at[t]} : s \in ParkedSlots' <=> s \in ParkedSlots
  <2> DEFINE p == [turn |-> turn, slot |-> at[t]]
  <2>1. parked' = parked \cup {p} /\ p.slot = at[t] BY <1>3 DEF FinishParked
  <2> HIDE DEF p
  <2> QED BY <2>1 DEF ParkedSlots
<1>10. Untouched({at[t]})
  BY <1>3, <1>9 DEF Untouched, FinishParked
<1> QED
  BY <1>1, <1>3, <1>4, <1>5, <1>7, <1>8, <1>9, <1>10, TaskEnds
  DEF SessionParked, driverVars, endVars

\* What finalize touches: the slot it closes and the ones it admits.
LEMMA FinalizeTouches ==
  ASSUME SchedInv, NEW s \in admitted, NEW published, NEW strike,
         Finalize(s, published, strike)
  PROVE  LET moved == {p.slot : p \in Drained(admitted \ {s})}
         IN  /\ Untouched({s} \cup moved)
             /\ moved \subseteq ParkedSlots /\ moved \subseteq admitted'
             /\ ref'[s] = NoIssue /\ s \in Slots
             /\ moved = {} \/ \E u \in moved : moved = {u}
<1> DEFINE newly == Drained(admitted \ {s})
           moved == {p.slot : p \in newly}
<1> USE DEF SchedInv
<1>1. /\ ref' = [ref EXCEPT ![s] = NoIssue]
      /\ open' = open \ {s}
      /\ admitted' = (admitted \ {s}) \cup moved
      /\ parked' = parked \ newly
      /\ held' = held \ ({s} \cup moved)
  BY DEF Finalize
<1>2. s \in Slots /\ newly \subseteq parked
  BY DEF Drained, SchedTypeOK
<1>3. moved = {} \/ \E u \in moved : moved = {u}
  <2>1. newly = {} \/ \E p \in newly : newly = {p}
    <3>1. CASE parked = {} BY <3>1, DrainedIsFirst
    <3>2. CASE parked # {} BY <3>2, DrainedIsFirst
    <3> QED BY <3>1, <3>2
  <2> HIDE DEF newly
  <2> QED BY <2>1
<1> HIDE DEF newly
<1>4. moved \subseteq ParkedSlots BY <1>2 DEF ParkedSlots
<1>5. ASSUME NEW u \in Slots \ ({s} \cup moved)
      PROVE  u \in ParkedSlots' <=> u \in ParkedSlots
  BY <1>1, <1>2 DEF ParkedSlots
<1>6. ref'[s] = NoIssue BY <1>1, <1>2 DEF SchedTypeOK
<1>7. Untouched({s} \cup moved)
  BY <1>1, <1>5 DEF Untouched, SchedTypeOK
<1> QED BY <1>1, <1>2, <1>3, <1>4, <1>6, <1>7 DEF newly

LEMMA IntegrationEndsInv ==
  ASSUME DispatchInv, NEW t \in Tasks, NEW published \in BOOLEAN,
         NEW closes \in BOOLEAN, IntegrationEnds(t, published, closes)
  PROVE  DispatchInv'
<1> DEFINE s == at[t]
           newly == {p.slot : p \in Drained(admitted \ {s})}
<1>1. /\ t \in Live /\ driver \in Waiting /\ pc[t] = "gate"
      /\ ~cancelling /\ Head(line) = t
  BY LaneRuns DEF IntegrationEnds
<1>2. s \in admitted BY <1>1, OwnSlot
<1>3. (s \in charged) \in BOOLEAN OBVIOUS
<1>4. Finalize(s, published, s \in charged) BY DEF IntegrationEnds
<1>5. SchedInv' BY <1>2, <1>3, <1>4, FinalizeInv, DispatchSched
<1>6. /\ Untouched({s} \cup newly) /\ newly \subseteq ParkedSlots
      /\ newly \subseteq admitted' /\ ref'[s] = NoIssue /\ s \in Slots
      /\ newly = {} \/ \E u \in newly : newly = {u}
  BY <1>2, <1>4, FinalizeTouches, DispatchSched
<1>7. /\ charged' \subseteq Slots /\ tracked' \subseteq Issues
      /\ capacityFreed' \in BOOLEAN /\ strikes' = strikes
      /\ UNCHANGED <<driver, limit, halfSeen, unclaimed, refused, crash, exhausted,
                     cancelling>>
      /\ ContinueWith(t, newly)
  BY DEF IntegrationEnds, SignalCapacity, DispatchInv, TypeOK, endVars
<1>8. leases' \subseteq Issues
  <2>1. leases \ {ref[s]} \subseteq Issues BY DEF DispatchInv, TypeOK
  <2> QED BY <2>1, NetKeepsLeases DEF IntegrationEnds
<1> HIDE DEF newly
<1>9. CASE newly = {}
  <2>1. EndTask(t) /\ line' = Tail(line) BY <1>7, <1>9 DEF ContinueWith
  <2>2. Queue' /\ line' \in Seq(Tasks)
    BY <1>1, <1>7, <2>1, PcEnds, QueueLeft DEF DispatchInv
  <2>3. TypeOK'
    BY <1>5, <1>7, <1>8, <2>1, <2>2, PcEnds DEF DispatchInv, TypeOK, SchedInv
  <2> QED
    BY <1>1, <1>5, <1>6, <1>7, <1>9, <2>1, <2>2, <2>3, TaskEnds
<1>10. CASE newly # {}
  <2>1. PICK u \in newly : newly = {u} BY <1>6, <1>10
  <2>2. u \in Slots /\ u # s
    BY <1>1, <1>6, <2>1, LiveSlot DEF DispatchInv, Ownership, TypeOK, SchedTypeOK
  <2>3. Lowest(newly) = u
    <3>1. newly \subseteq Nat /\ newly # {} BY <2>1, <2>2, SlotsFinite
    <3> QED BY <2>1, <3>1, LowestIn
  <2>4. /\ at' = [at EXCEPT ![t] = u] /\ line' = Append(Tail(line), t)
        /\ pc' = pc /\ issue' = issue /\ returned' = returned
    BY <1>7, <1>10, <2>3 DEF ContinueWith
  <2>5. Queue' /\ line' \in Seq(Tasks)
    BY <1>1, <1>7, <2>4, QueueRejoined
  <2>6. TypeOK'
    BY <1>5, <1>7, <1>8, <2>2, <2>4, <2>5 DEF DispatchInv, TypeOK, SchedInv
  <2>7. at'[t] = u BY <2>4 DEF DispatchInv, TypeOK
  <2>8. TaskPhase(t)'
    BY <1>1, <1>6, <2>1, <2>4, <2>7 DEF TaskPhase, Reserving
  <2>9. t \in Live' BY <1>1, <2>4 DEF Live
  <2>10. \A v \in Tasks \ {t} :
           pc'[v] = pc[v] /\ issue'[v] = issue[v] /\ at'[v] = at[v]
    BY <2>4 DEF DispatchInv, TypeOK
  <2>11. \A v \in {s} \cup newly :
           ref'[v] = NoIssue \/ v \in ParkedSlots' \/ v = at'[t]
    BY <1>6, <2>1, <2>7
  <2> QED
    BY <1>1, <1>5, <1>6, <1>7, <2>1, <2>4, <2>5, <2>6, <2>7, <2>8, <2>9, <2>10,
       <2>11, TaskGoesOn
<1> QED BY <1>9, <1>10

LEMMA PublicationPendingInv ==
  ASSUME DispatchInv, NEW t \in Tasks, NEW published \in BOOLEAN,
         PublicationPending(t, published)
  PROVE  DispatchInv'
<1> DEFINE s == at[t]
           newly == {p.slot : p \in Drained(admitted \ {s})}
<1>1. /\ t \in Live /\ driver \in Waiting /\ pc[t] = "gate"
      /\ ~cancelling /\ Head(line) = t
  BY LaneRuns DEF PublicationPending
<1>2. s \in admitted BY <1>1, OwnSlot
<1>3. (s \in charged) \in BOOLEAN OBVIOUS
<1>4. Finalize(s, published, s \in charged) /\ EndTask(t) /\ line' = Tail(line)
  BY DEF PublicationPending
<1>5. SchedInv' BY <1>2, <1>3, <1>4, FinalizeInv, DispatchSched
<1>6. Untouched({s} \cup newly) /\ newly \subseteq ParkedSlots
  BY <1>2, <1>4, FinalizeTouches, DispatchSched
<1>7. leases' \subseteq Issues
  <2>1. leases \ {ref[s]} \subseteq Issues BY DEF DispatchInv, TypeOK
  <2> QED BY <2>1, NetKeepsLeases DEF PublicationPending
<1>8. /\ crash' = TRUE /\ strikes' = strikes /\ charged' \subseteq Slots
      /\ UNCHANGED <<driver, limit, halfSeen, capacityFreed, unclaimed, refused, tracked,
                     exhausted, cancelling>>
  BY DEF PublicationPending, driverVars, DispatchInv, TypeOK
<1>9. Queue' /\ line' \in Seq(Tasks)
  BY <1>1, <1>4, <1>8, PcEnds, QueueLeft DEF DispatchInv
<1>10. TypeOK'
  BY <1>4, <1>5, <1>7, <1>8, <1>9, PcEnds DEF DispatchInv, TypeOK, SchedInv
<1> HIDE DEF newly
<1> QED
  BY <1>1, <1>4, <1>5, <1>6, <1>8, <1>9, <1>10, TaskEnds

LEMMA LaneRaisesInv ==
  ASSUME DispatchInv, NEW t \in Tasks, LaneRaises(t) PROVE DispatchInv'
<1>1. /\ t \in Live /\ driver \in Waiting /\ ~cancelling
      /\ \/ pc[t] # "gate" /\ line' = line
         \/ pc[t] = "gate" /\ Head(line) = t /\ line' = Tail(line)
  BY LaneRuns DEF LaneRaises, Reserving
<1>2. EndTask(t) /\ crash' = TRUE /\ strikes' = strikes /\ UNCHANGED schedVars
      /\ UNCHANGED <<driver, limit, halfSeen, capacityFreed, unclaimed, refused, tracked,
                     charged, exhausted, cancelling>>
  BY DEF LaneRaises, driverVars
<1>3. SchedInv' /\ Untouched({}) BY <1>2, SameSched, DispatchSched
<1>4. leases' \subseteq Issues
  BY NetKeepsLeases DEF LaneRaises, DispatchInv, TypeOK
<1>5. Queue' /\ line' \in Seq(Tasks)
  <2>1. CASE pc[t] # "gate" /\ line' = line
    BY <1>2, <2>1, PcEnds, QueueKept DEF DispatchInv, TypeOK
  <2>2. CASE pc[t] = "gate" /\ Head(line) = t /\ line' = Tail(line)
    BY <1>1, <1>2, <2>2, PcEnds, QueueLeft DEF DispatchInv
  <2> QED BY <1>1, <2>1, <2>2
<1>6. TypeOK'
  BY <1>2, <1>3, <1>4, <1>5, PcEnds DEF DispatchInv, TypeOK, SchedInv
<1> QED BY <1>1, <1>2, <1>3, <1>5, <1>6, TaskEnds

LEMMA LaneCancelledInv ==
  ASSUME DispatchInv, NEW t \in Tasks, LaneCancelled(t) PROVE DispatchInv'
<1>1. /\ t \in Live /\ driver = "drain" /\ cancelling /\ cancelling'
      /\ EndTask(t) /\ strikes' = strikes /\ UNCHANGED schedVars
      /\ UNCHANGED <<driver, limit, halfSeen, capacityFreed, unclaimed, refused, tracked,
                     charged, crash, exhausted, cancelling>>
  BY DEF LaneCancelled, driverVars, endVars
<1>2. SchedInv' /\ Untouched({}) BY <1>1, SameSched, DispatchSched
<1>3. leases' \subseteq Issues
  BY NetKeepsLeases DEF LaneCancelled, DispatchInv, TypeOK
<1>4. line' \in Seq(Tasks)
  <2>1. line \in Seq(Tasks) /\ Len(line) \in Nat BY DEF DispatchInv, TypeOK
  <2>2. ASSUME NEW k \in DOMAIN line
        PROVE  SubSeq(line, 1, k - 1) \o SubSeq(line, k + 1, Len(line)) \in Seq(Tasks)
    <3>1. k \in 1..Len(line) BY <2>1
    <3>2. SubSeq(line, 1, k - 1) \in Seq(Tasks) BY <2>1, <3>1
    <3>3. SubSeq(line, k + 1, Len(line)) \in Seq(Tasks) BY <2>1, <3>1
    <3> QED BY <3>2, <3>3
  <2> QED BY <2>1, <2>2 DEF LaneCancelled, LeavesLock
<1>5. Queue' BY <1>1 DEF Queue
<1>6. TypeOK'
  <2>1. /\ pc' \in [Tasks -> {"none", "begin", "classify", "session", "gate"}]
        /\ issue' \in [Tasks -> Issues \cup {NoIssue}] /\ at' \in [Tasks -> Slots]
        /\ returned' \in BOOLEAN
    BY <1>1, PcEnds DEF DispatchInv
  <2> QED BY <1>1, <1>2, <1>3, <1>4, <2>1 DEF DispatchInv, TypeOK, SchedInv
<1> QED BY <1>1, <1>2, <1>5, <1>6, TaskEnds DEF Waiting

-----------------------------------------------------------------------------
(* Every step of the driver keeps the invariant.                           *)

\* Parts of the invariant that read nothing of the driver.
LEMMA TasksKept ==
  ASSUME DispatchInv, UNCHANGED <<schedVars, taskVars, strikes>>,
         cancelling => cancelling'
  PROVE  TaskInv' /\ SchedInv' /\ Live' = Live /\ NonePending' = NonePending
         /\ Quiescent' = Quiescent /\ Remaining' = Remaining
<1>1. SchedInv' /\ ParkedSlots' = ParkedSlots
  BY SameSched, DispatchSched
<1>2. /\ \A t \in Tasks : TaskPhase(t)'
  BY <1>1 DEF DispatchInv, TaskInv, TaskPhase, schedVars, taskVars
<1>3. Live' = Live /\ NonePending' = NonePending
  BY DEF Live, NonePending, taskVars
<1>4. Separate' /\ Queue'
  BY <1>3 DEF DispatchInv, TaskInv, Separate, Queue, taskVars
<1> QED
  BY <1>1, <1>2, <1>3, <1>4 DEF TaskInv, schedVars, Quiescent, Remaining

\* A step of the driver that only moves it along.
LEMMA DriverMoves ==
  ASSUME DispatchInv, UNCHANGED <<schedVars, taskVars, ledgerVars, crash, exhausted>>,
         TypeOK', DriverInv', driver \notin {"drain", "over"}, ~cancelling
  PROVE  DispatchInv'
<1>1. TaskInv' /\ SchedInv' /\ Live' = Live /\ ParkedSlots' = ParkedSlots
  BY TasksKept, SameSched, DispatchSched DEF ledgerVars
<1>2. Covered'
  BY <1>1 DEF DispatchInv, Covered, schedVars, taskVars
<1> QED BY <1>1, <1>2 DEF DispatchInv, SchedInv

LEMMA TurnEndsInv == ASSUME DispatchInv, TurnEnds PROVE DispatchInv'
<1>1. TypeOK'
  BY DispatchSched, SameSched
  DEF TurnEnds, DispatchInv, TypeOK, SchedInv, taskVars, ledgerVars, Suspended
<1>2. DriverInv' BY DEF TurnEnds, DriverInv
<1>3. ~cancelling BY DEF TurnEnds, DispatchInv, DriverInv
<1> QED BY <1>1, <1>2, <1>3, DriverMoves DEF TurnEnds

LEMMA TurnWaitsOutInv == ASSUME DispatchInv, TurnWaitsOut PROVE DispatchInv'
<1>1. TypeOK'
  BY DispatchSched, SameSched
  DEF TurnWaitsOut, DispatchInv, TypeOK, SchedInv, taskVars, ledgerVars,
      endVars, Suspended
<1>2. DriverInv' BY DEF TurnWaitsOut, DriverInv, DispatchInv, endVars
<1>3. ~cancelling BY DEF TurnWaitsOut, DispatchInv, DriverInv
<1> QED BY <1>1, <1>2, <1>3, DriverMoves DEF TurnWaitsOut, endVars

LEMMA TurnDispatchesInv ==
  ASSUME DispatchInv, NEW looks \in BOOLEAN, TurnDispatches(looks) PROVE DispatchInv'
<1>1. TypeOK'
  BY DispatchSched, SameSched
  DEF TurnDispatches, DispatchInv, TypeOK, SchedInv, taskVars, ledgerVars, endVars,
      Suspended
<1>3. DriverInv'
  BY DEF TurnDispatches, DriverInv, DispatchInv, endVars, schedVars
<1>4. ~cancelling BY DEF TurnDispatches, DispatchInv, DriverInv
<1> QED BY <1>1, <1>3, <1>4, DriverMoves DEF TurnDispatches, endVars

LEMMA PriorityLookedInv == ASSUME DispatchInv, PriorityLooked PROVE DispatchInv'
<1>1. TypeOK'
  BY DispatchSched, SameSched
  DEF PriorityLooked, DispatchInv, TypeOK, SchedInv, taskVars, ledgerVars, endVars
<1>2. DriverInv'
  BY DEF PriorityLooked, DriverInv, DispatchInv, endVars, taskVars
<1>3. ~cancelling BY DEF PriorityLooked, DispatchInv, DriverInv
<1> QED BY <1>1, <1>2, <1>3, DriverMoves DEF PriorityLooked, endVars

LEMMA AwaitCapacityInv == ASSUME DispatchInv, AwaitCapacity PROVE DispatchInv'
<1>1. TypeOK'
  BY DispatchSched, SameSched
  DEF AwaitCapacity, DispatchInv, TypeOK, SchedInv, taskVars, ledgerVars,
      endVars, Suspended
<1>2. DriverInv' BY DEF AwaitCapacity, DriverInv, DispatchInv, endVars, taskVars
<1>3. ~cancelling BY DEF AwaitCapacity, DispatchInv, DriverInv
<1> QED BY <1>1, <1>2, <1>3, DriverMoves DEF AwaitCapacity, endVars

LEMMA PollInv == ASSUME DispatchInv, Poll PROVE DispatchInv'
<1>1. TypeOK'
  BY DispatchSched, SameSched
  DEF Poll, DispatchInv, TypeOK, SchedInv, taskVars, ledgerVars, endVars
<1>3. DriverInv' BY DEF Poll, DriverInv, DispatchInv, endVars
<1>4. ~cancelling BY DEF Poll, DispatchInv, DriverInv
<1> QED BY <1>1, <1>3, <1>4, DriverMoves DEF Poll, endVars

\* With no task pending nothing is reserved, open, parked or in the backlog.
LEMMA IdleIsQuiescent ==
  ASSUME DispatchInv, driver \notin {"drain", "over"}, ~crash, Live = {}
  PROVE  Quiescent
<1>1. \A s \in Slots : ref[s] = NoIssue \/ s \in ParkedSlots
  BY DEF DispatchInv, Covered
<1>2. admitted = {}
  BY <1>1 DEF DispatchInv, Ownership, TypeOK, SchedTypeOK
<1>3. parked = {}
  <2>1. Cardinality(admitted) = 0 BY <1>2, FS_EmptySet
  <2> QED BY <2>1 DEF DispatchInv, Bounds, HighWater
<1>4. held \cup open = {}
  BY <1>1, <1>3 DEF ParkedSlots, DispatchInv, Ownership
<1> QED BY <1>2, <1>3, <1>4 DEF Quiescent

LEMMA IdleDrains ==
  ASSUME DispatchInv, NEW outcome, Idle(outcome) PROVE ~crash /\ Quiescent
<1>1. ~crash BY DEF Idle, DispatchInv, DriverInv, NonePending
<1> QED BY <1>1, IdleIsQuiescent DEF Idle, NonePending

LEMMA IdleInv ==
  ASSUME DispatchInv, NEW outcome \in {"none", "empty_pool", "refused"}, Idle(outcome)
  PROVE  DispatchInv'
<1>1. driver' \in {"drain", "poll", "lastlook"}
  BY DEF Idle
<1>2. TypeOK'
  <2>1. 0 \in 0..LaneCap BY CapAssumption
  <2>2. SchedInv' BY DispatchSched, SameSched DEF Idle
  <2>3. /\ halfSeen' = FALSE /\ unclaimed' = 0
        /\ UNCHANGED <<limit, capacityFreed, taskVars, ledgerVars, endVars>>
    BY DEF Idle
  <2> QED
    BY <1>1, <2>1, <2>2, <2>3
    DEF DispatchInv, TypeOK, SchedInv, taskVars, ledgerVars, endVars, Suspended
<1>3. ~cancelling /\ ~crash BY IdleDrains DEF Idle, DispatchInv, DriverInv
<1>4. Quiescent BY IdleDrains
<1>5. driver' = "lastlook" => Remaining > 0
  <2>1. driver' = "lastlook" => unitsSpent = 0 BY DEF Idle
  <2> QED BY <2>1, CapAssumption DEF Remaining
<1>6. /\ NonePending' = NonePending /\ Quiescent' = Quiescent
      /\ Remaining' = Remaining
  BY TasksKept DEF Idle, ledgerVars, endVars
<1>7. DriverInv'
  BY <1>1, <1>3, <1>4, <1>5, <1>6 DEF DriverInv, Idle, endVars
<1> QED BY <1>2, <1>3, <1>7, DriverMoves DEF Idle, endVars

\* Latching demand, a Stop or a phase leaves what is owned as it was.
LEMMA SameOwnership ==
  ASSUME SchedInv,
         UNCHANGED <<ref, held, inSetup, open, admitted, parked, worked, unitsSpent, turn>>,
         serialLatched' \in BOOLEAN, stopLatched' \in BOOLEAN,
         phase' \in {"rolling", "serial_ownership", "refill_turn"}
  PROVE  SchedInv' /\ ParkedSlots' = ParkedSlots
<1>1. ParkedSlots' = ParkedSlots BY DEF ParkedSlots
<1>2. SchedTypeOK' BY DEF SchedInv, SchedTypeOK
<1>3. Ownership' BY <1>1 DEF SchedInv, Ownership, OneOwner
<1>4. Bounds' BY DEF SchedInv, Bounds, UnitsNeverOverspent
<1> QED BY <1>1, <1>2, <1>3, <1>4 DEF SchedInv

LEMMA TasksAndOwnershipKept ==
  ASSUME DispatchInv, UNCHANGED <<ref, held, open, admitted, parked, taskVars, strikes,
                                  crash, cancelling>>,
         driver \notin {"drain", "over"} \/ driver' \in {"drain", "over"}
  PROVE  TaskInv' /\ Covered' /\ Live' = Live /\ NonePending' = NonePending
         /\ Quiescent' = Quiescent
<1>1. ParkedSlots' = ParkedSlots BY DEF ParkedSlots
<1>2. \A t \in Tasks : TaskPhase(t)'
  BY <1>1 DEF DispatchInv, TaskInv, TaskPhase, taskVars
<1>3. Live' = Live /\ NonePending' = NonePending
  BY DEF Live, NonePending, taskVars
<1>4. Separate' /\ Queue'
  BY <1>3 DEF DispatchInv, TaskInv, Separate, Queue, taskVars
<1>5. Covered'
  BY <1>1, <1>3 DEF DispatchInv, Covered, taskVars
<1> QED BY <1>2, <1>3, <1>4, <1>5 DEF TaskInv, Quiescent

LEMMA ReserveEndsInv == ASSUME DispatchInv, ReserveEnds PROVE DispatchInv'
<1> USE DEF ReserveEnds, SpendRefillTurn, taskVars, ledgerVars, endVars
<1>1. SchedInv'
  BY SameOwnership, DispatchSched DEF DispatchInv, TypeOK, SchedTypeOK
<1>2. TypeOK'
  BY <1>1, RefillableTyped, DispatchSched DEF DispatchInv, TypeOK, SchedInv
<1>3. TaskInv' /\ Covered' /\ NonePending' = NonePending BY TasksAndOwnershipKept
<1>4. DriverInv' BY <1>3 DEF DispatchInv, DriverInv
<1> QED BY <1>1, <1>2, <1>3, <1>4 DEF DispatchInv, SchedInv

LEMMA PeekInv ==
  ASSUME DispatchInv, NEW demand \in BOOLEAN, NEW complete \in BOOLEAN,
         Peek(demand, complete)
  PROVE  DispatchInv'
<1> USE DEF Peek, RequestSerial, taskVars, ledgerVars, endVars
<1>1. SchedInv'
  BY SameOwnership, DispatchSched DEF DispatchInv, TypeOK, SchedTypeOK
<1>2. TypeOK' BY <1>1 DEF DispatchInv, TypeOK, SchedInv
<1>3. TaskInv' /\ Covered' /\ NonePending' = NonePending BY TasksAndOwnershipKept
<1>4. DriverInv' BY <1>3 DEF DispatchInv, DriverInv
<1> QED BY <1>1, <1>2, <1>3, <1>4 DEF DispatchInv, SchedInv

LEMMA GrantSerialInv == ASSUME DispatchInv, GrantSerial PROVE DispatchInv'
<1> USE DEF GrantSerial, SerialTurn, taskVars, ledgerVars, endVars
<1>1. SchedInv'
  BY SameOwnership, DispatchSched DEF DispatchInv, TypeOK, SchedTypeOK
<1>2. TypeOK'
  <2>1. 0 \in 0..LaneCap BY CapAssumption
  <2> QED BY <1>1, <2>1 DEF DispatchInv, TypeOK, SchedInv, Suspended
<1>3. TaskInv' /\ Covered' /\ NonePending' = NonePending /\ Quiescent' = Quiescent
  BY TasksAndOwnershipKept
<1>4. Remaining' = Remaining BY DEF Remaining
<1>5. DriverInv' BY <1>3, <1>4 DEF DispatchInv, DriverInv, SerialReady
<1> QED BY <1>1, <1>2, <1>3, <1>5 DEF DispatchInv, SchedInv

LEMMA RequestStopInv == ASSUME DispatchInv, RequestStop PROVE DispatchInv'
<1> USE DEF RequestStop, RequestStopDrain, taskVars, ledgerVars, driverVars, endVars
<1>1. SchedInv'
  BY SameOwnership, DispatchSched DEF DispatchInv, TypeOK, SchedTypeOK
<1>2. TypeOK' BY <1>1 DEF DispatchInv, TypeOK, SchedInv
<1>3. /\ TaskInv' /\ Covered' /\ NonePending' = NonePending /\ Quiescent' = Quiescent
  BY TasksAndOwnershipKept
<1>4. Remaining' = Remaining BY DEF Remaining
<1>5. DriverInv' BY <1>3, <1>4 DEF DispatchInv, DriverInv, Suspended
<1> QED BY <1>1, <1>2, <1>3, <1>5 DEF DispatchInv, SchedInv

LEMMA WakeInv == ASSUME DispatchInv, Wake PROVE DispatchInv'
<1>1. SchedInv' /\ ParkedSlots' = ParkedSlots
  BY SameSched, DispatchSched DEF Wake
<1>2. TypeOK'
  <2>1. /\ driver' = "turn" /\ returned' = FALSE /\ unclaimed' = 0
        /\ UNCHANGED <<limit, halfSeen, capacityFreed, pc, issue, at, line, leases,
                       charged, strikes, refused, tracked, crash, exhausted, cancelling>>
    BY DEF Wake, ledgerVars, endVars
  <2>2. 0 \in 0..LaneCap BY CapAssumption
  <2> QED BY <1>1, <2>1, <2>2 DEF DispatchInv, TypeOK, SchedInv
<1>3. Live' = Live BY DEF Wake, Live
<1>4. \A t \in Tasks : TaskPhase(t)'
  BY <1>1 DEF DispatchInv, TaskInv, TaskPhase, Wake, schedVars, ledgerVars
<1>5. Separate' /\ Queue'
  BY <1>3 DEF DispatchInv, TaskInv, Separate, Queue, Wake, endVars
<1>6. DriverInv' BY DEF Wake, DispatchInv, DriverInv, endVars
<1>7. Covered'
  BY <1>1, <1>3 DEF DispatchInv, Covered, Wake, schedVars, endVars
<1> QED BY <1>1, <1>2, <1>4, <1>5, <1>6, <1>7 DEF DispatchInv, SchedInv, TaskInv

LEMMA SerialEndsInv ==
  ASSUME DispatchInv, NEW i \in Issues, NEW closes \in BOOLEAN,
         NEW strike \in BOOLEAN, NEW resumes \in BOOLEAN,
         SerialEnds(i, closes, strike, resumes)
  PROVE  DispatchInv'
<1>1. /\ Quiescent /\ Remaining > 0 /\ ~cancelling
  BY DEF SerialEnds, DispatchInv, DriverInv
<1>2. Live = {} BY <1>1, LiveSlot DEF Quiescent
<1>3. \A t \in Tasks : pc[t] = "none" BY <1>1, <1>2 DEF Live
<1>4. /\ UNCHANGED <<ref, held, inSetup, open, admitted, parked, turn,
                     serialLatched, stopLatched>>
      /\ unitsSpent' = unitsSpent + 1 /\ worked' \subseteq worked
      /\ phase' \in {"rolling", "serial_ownership", "refill_turn"}
  BY DEF SerialEnds, SerialFinished, ReleaseAttempt, DispatchInv, TypeOK, SchedTypeOK
<1>5. /\ UNCHANGED <<limit, halfSeen, capacityFreed, unclaimed, pc, issue, at, line,
                     returned, leases, charged, refused, crash, exhausted, cancelling>>
      /\ driver' \in {"turn", "drain"}
  BY DEF SerialEnds, taskVars, endVars
<1>6. tracked' \subseteq Issues /\ strikes' \in [Issues -> 0..MaxStrikes]
  <2>1. strike => strikes[i] + 1 \in 0..MaxStrikes
    BY StrikesAssumption DEF SerialEnds, DispatchInv, TypeOK
  <2> QED BY <2>1 DEF SerialEnds, DispatchInv, TypeOK
<1>7. inSetup = {}
  BY <1>1 DEF DispatchInv, Ownership, Quiescent
<1>8. SchedTypeOK'
  BY <1>1, <1>4, CapAssumption DEF DispatchInv, TypeOK, SchedTypeOK, Remaining
<1>9. Ownership'
  BY <1>1, <1>4 DEF DispatchInv, Ownership, OneOwner, ParkedSlots, Quiescent
<1>10. Bounds'
  <2>1. Cardinality({}) = 0 BY FS_EmptySet
  <2>2. unitsSpent \in Nat /\ MaxIterations \in Nat /\ LaneCap \in Nat
    BY CapAssumption DEF DispatchInv, TypeOK, SchedTypeOK
  <2> QED
    BY <1>1, <1>4, <1>7, <2>1, <2>2
    DEF Bounds, UnitsNeverOverspent, Quiescent, HighWater, Remaining
<1>11. TypeOK' BY <1>5, <1>6, <1>8 DEF DispatchInv, TypeOK, Suspended
<1>12. TaskInv'
  BY <1>3, <1>5 DEF DispatchInv, TaskInv, TaskPhase, Reserving, Separate, Queue,
     Live
<1>13. DriverInv'
  BY <1>1, <1>5 DEF DriverInv
<1>14. Covered'
  BY <1>1, <1>4 DEF Covered, Quiescent, DispatchInv, Ownership, TypeOK, SchedTypeOK
<1> QED BY <1>9, <1>10, <1>11, <1>12, <1>13, <1>14 DEF DispatchInv

LEMMA ExitReclaimsInv == ASSUME DispatchInv, ExitReclaims PROVE DispatchInv'
<1>1. SchedInv' BY ReclaimAllInv, DispatchSched DEF ExitReclaims
<1>2. \A t \in Tasks : pc'[t] = "none" BY DEF ExitReclaims, Live
<1>3. TypeOK'
  BY <1>1 DEF ExitReclaims, DispatchInv, TypeOK, SchedInv, endVars, Tasks
<1>4. \A t \in Tasks : pc[t] # "gate"
  BY LiveMeans DEF ExitReclaims, DispatchInv
<1>5. Queue'
  <2>1. \A k \in 1..Len(line) : line[k] \in Tasks BY DEF DispatchInv, TypeOK
  <2> QED
    BY <1>2, <1>4, <2>1 DEF ExitReclaims, DispatchInv, TaskInv, Queue, endVars
<1>6. TaskInv'
  BY <1>2, <1>5 DEF TaskInv, TaskPhase, Reserving, Separate, Live
<1>7. DriverInv'
  BY <1>2 DEF ExitReclaims, DriverInv, NonePending, Live
<1>8. Covered' BY DEF Covered, ExitReclaims
<1> QED BY <1>1, <1>3, <1>6, <1>7, <1>8 DEF DispatchInv, SchedInv

\* The slot and the task that reserve takes exist: a host runs no more than
\* LaneCap contributions and the backlog holds fewer than HighWater.
LEMMA RoomToReserve ==
  ASSUME DispatchInv, driver = "reserve", Refillable(limit) > 0
  PROVE  FreeSlots # {} /\ FreeTasks # {}
<1> DEFINE used == held \cup open
<1>1. used \subseteq Slots /\ used \subseteq held \cup admitted
      /\ held \subseteq Slots /\ admitted \subseteq Slots
  BY DEF DispatchInv, TypeOK, SchedTypeOK, Ownership
<1>2. /\ Cardinality(held) < limit /\ limit <= LaneCap
      /\ Cardinality(admitted) < HighWater
  BY RefillableRoom, DispatchSched DEF DispatchInv, TypeOK
<1>3. Cardinality(used) < Cardinality(Slots)
  <2>1. /\ IsFiniteSet(held) /\ IsFiniteSet(admitted) /\ IsFiniteSet(used)
        /\ Cardinality(held) \in Nat /\ Cardinality(admitted) \in Nat
        /\ Cardinality(used) \in Nat
    BY <1>1, SlotSets
  <2>2. /\ IsFiniteSet(held \cup admitted)
        /\ Cardinality(held \cup admitted) \in Nat
        /\ Cardinality(held \cap admitted) \in Nat
    <3>1. held \cup admitted \subseteq Slots /\ held \cap admitted \subseteq Slots
      BY <1>1
    <3> QED BY <3>1, SlotSets
  <2>3. Cardinality(held \cup admitted) =
          Cardinality(held) + Cardinality(admitted) - Cardinality(held \cap admitted)
    BY <2>1, FS_Union
  <2>4. Cardinality(used) <= Cardinality(held \cup admitted)
    <3>1. used \in SUBSET (held \cup admitted) BY <1>1
    <3> HIDE DEF used
    <3> QED BY <2>2, <3>1, FS_Subset
  <2>5. limit \in Int /\ LaneCap \in Int
    BY LimitsAssumption, CapAssumption DEF DispatchInv, TypeOK
  <2> HIDE DEF used
  <2> QED
    BY <1>2, <2>1, <2>2, <2>3, <2>4, <2>5, SlotsFinite DEF HighWater
<1>4. FreeSlots # {}
  <2>1. used # Slots
    <3> HIDE DEF used
    <3>1. Cardinality(Slots) \in Nat BY SlotsFinite, FS_CardinalityType
    <3> QED BY <1>3, <3>1
  <2> QED BY <1>1, <2>1 DEF FreeSlots, DispatchInv, Ownership
<1>5. FreeTasks # {}
  <2> SUFFICES ASSUME FreeTasks = {} PROVE FALSE OBVIOUS
  <2>1. Live = Slots
    BY DEF FreeTasks, Live, Tasks
  <2> DEFINE f == [t \in Slots |-> at[t]]
  <2>2. f \in [Slots -> used] BY <2>1, LiveSlot
  <2>3. \A t, u \in Slots : f[t] = f[u] => t = u
    BY <2>1 DEF DispatchInv, TaskInv, Separate
  <2> HIDE DEF f
  <2>4. f \in Injection(Slots, used) BY <2>2, <2>3 DEF Injection, IsInjective
  <2>5. IsFiniteSet(used) /\ Cardinality(used) \in Nat
    <3> HIDE DEF used
    <3> QED BY <1>1, SlotSets
  <2>6. Cardinality(Slots) <= Cardinality(used)
    BY <2>4, <2>5, FS_Injection
  <2>7. Cardinality(Slots) \in Nat BY SlotsFinite, FS_CardinalityType
  <2> HIDE DEF used
  <2> QED BY <1>3, <2>5, <2>6, <2>7
<1> QED BY <1>4, <1>5

LEMMA ReserveLaneInv ==
  ASSUME DispatchInv, NEW i \in Issues, ReserveLane(i) PROVE DispatchInv'
<1>1. driver = "reserve" /\ Refillable(limit) > 0 /\ Eligible(i)
  BY DEF ReserveLane
<1>2. PICK s \in FreeSlots, t \in FreeTasks :
        s = Lowest(FreeSlots) /\ t = Lowest(FreeTasks)
  <2>1. FreeSlots \subseteq Nat /\ FreeTasks \subseteq Nat
    BY SlotsFinite DEF FreeSlots, FreeTasks, Tasks
  <2> QED BY <1>1, <2>1, RoomToReserve, LowestIn
<1>3. /\ Reserve(s, i)
      /\ pc' = [pc EXCEPT ![t] = "begin"]
      /\ issue' = [issue EXCEPT ![t] = i]
      /\ at' = [at EXCEPT ![t] = s]
      /\ UNCHANGED <<driver, limit, halfSeen, capacityFreed, unclaimed, line, returned,
                     leases, charged, strikes, refused, tracked, crash, exhausted, cancelling>>
  BY <1>2 DEF ReserveLane, driverVars, ledgerVars, endVars
<1>4. s \in Slots /\ ref[s] = NoIssue /\ t \in Tasks /\ pc[t] = "none"
  BY DEF FreeSlots, FreeTasks, Live
<1>5. SchedInv'
  <2>1. /\ Cardinality(held) < limit /\ limit <= LaneCap
        /\ unitsSpent + Cardinality(held) < MaxIterations
    BY <1>1, RefillableRoom, DispatchSched DEF DispatchInv, TypeOK
  <2>2. Cardinality(held) \in Nat /\ limit \in Int /\ LaneCap \in Int
    BY LimitsAssumption, CapAssumption, SlotSets DEF DispatchInv, TypeOK, SchedTypeOK
  <2>3. Cardinality(held) < LaneCap BY <2>1, <2>2
  <2> QED
    BY <1>1, <1>3, <1>4, <2>1, <2>3, ReserveInv, DispatchSched DEF Eligible
<1>6. /\ pc' \in [Tasks -> {"none", "begin", "classify", "session", "gate"}]
      /\ issue' \in [Tasks -> Issues \cup {NoIssue}] /\ at' \in [Tasks -> Slots]
      /\ pc'[t] = "begin" /\ issue'[t] = i /\ at'[t] = s
      /\ \A u \in Tasks \ {t} :
           pc'[u] = pc[u] /\ issue'[u] = issue[u] /\ at'[u] = at[u]
  BY <1>3, <1>4 DEF DispatchInv, TypeOK
<1>7. TypeOK' BY <1>3, <1>5, <1>6 DEF DispatchInv, TypeOK, SchedInv
<1>8. s \notin held \cup open BY <1>4 DEF DispatchInv, Ownership
<1>9. /\ \A u \in Slots \ {s} : ref'[u] = ref[u]
      /\ ref'[s] = i /\ held' = held \cup {s} /\ open' = open
      /\ admitted' = admitted /\ parked' = parked /\ ParkedSlots' = ParkedSlots
  BY <1>3, <1>4 DEF Reserve, ParkedSlots, DispatchInv, TypeOK, SchedTypeOK
<1>10. TaskPhase(t)'
  BY <1>1, <1>3, <1>6, <1>8, <1>9 DEF TaskPhase, Reserving, Eligible
<1>11. ASSUME NEW u \in Tasks \ {t} PROVE TaskPhase(u)'
  <2>1. CASE u \in Live
    <3>1. TaskPhase(u) /\ at[u] # s /\ at[u] \in Slots
      BY <1>8, <2>1, LiveSlot DEF DispatchInv, TaskInv
    <3> QED BY <1>3, <1>6, <1>9, <3>1 DEF TaskPhase
  <2>2. CASE u \notin Live
    <3>1. pc[u] \notin Reserving \cup {"session", "gate"}
      BY <2>2, LiveMeans DEF DispatchInv
    <3> QED BY <1>6, <3>1 DEF TaskPhase, Reserving
  <2> QED BY <2>1, <2>2
<1>12. Live' = Live \cup {t} /\ t \notin Live
  BY <1>4, <1>6 DEF Live
<1>13. Separate'
  <2>1. \A u \in Live : u # t /\ u \in Tasks /\ at[u] # s
    BY <1>8, <1>12, LiveSlot DEF Live
  <2>2. \A u \in Live : at'[u] = at[u] /\ at'[u] # s
    BY <1>6, <2>1
  <2>3. \A u, v \in Live : at'[u] = at'[v] => u = v
    BY <2>2 DEF DispatchInv, TaskInv, Separate
  <2> QED BY <1>6, <1>12, <2>2, <2>3 DEF Separate
<1>14. Queue' BY <1>3, <1>4, <1>6, QueueKept
<1>15. DriverInv' BY <1>1, <1>3, <1>12 DEF DispatchInv, DriverInv, Reserve
<1>16. Covered'
  <2>1. ASSUME NEW u \in Slots, ref'[u] # NoIssue, u \notin ParkedSlots', ~crash'
        PROVE  \E v \in Live' : at'[v] = u
    <3>1. CASE u = s BY <1>6, <1>12, <3>1
    <3>2. CASE u # s
      <4>1. PICK v \in Live : at[v] = u
        BY <1>1, <1>3, <1>9, <2>1, <3>2 DEF DispatchInv, Covered
      <4>2. v \in Tasks \ {t} BY <1>12 DEF Live
      <4> QED BY <1>6, <1>12, <4>1, <4>2
    <3> QED BY <3>1, <3>2
  <2> QED BY <2>1 DEF Covered
<1> QED
  BY <1>5, <1>7, <1>10, <1>11, <1>13, <1>14, <1>15, <1>16
  DEF DispatchInv, SchedInv, TaskInv

-----------------------------------------------------------------------------
(* The theorems.                                                           *)

LEMMA InitInv == Init => DispatchInv
<1> SUFFICES ASSUME Init PROVE DispatchInv OBVIOUS
<1>1. SchedInv BY SchedInitInv DEF Init
<1>2. 0 \in 0..MaxStrikes BY StrikesAssumption
<1>3. /\ pc \in [Tasks -> {"none", "begin", "classify", "session", "gate"}]
      /\ issue \in [Tasks -> Issues \cup {NoIssue}] /\ at \in [Tasks -> Slots]
      /\ strikes \in [Issues -> 0..MaxStrikes] /\ line \in Seq(Tasks)
      /\ \A t \in Tasks : pc[t] = "none"
  BY <1>2 DEF Init, Tasks
<1>4. TypeOK
  <2>1. 0 \in 0..LaneCap BY CapAssumption
  <2> QED BY <1>1, <1>3, <2>1 DEF TypeOK, SchedInv, Init
<1>5. NonePending BY <1>3 DEF NonePending, Live, Init
<1>6. TaskInv
  BY <1>3, <1>5 DEF TaskInv, TaskPhase, Reserving, Separate, Queue, Live, Init
<1>7. DriverInv BY <1>5 DEF DriverInv, Init
<1>8. Covered BY DEF Covered, Init, SchedInit
<1> QED BY <1>1, <1>4, <1>6, <1>7, <1>8 DEF DispatchInv, SchedInv

LEMMA LaneStepInv ==
  ASSUME DispatchInv, NEW t \in Tasks, LaneStep(t) PROVE DispatchInv'
  BY LaneRefusedInv, LaneTakesLeaseInv, LaneSetupFailsInv, LaneStartsInv,
     SessionClosesInv, SessionAdmittedInv, SessionParkedInv, IntegrationEndsInv,
     PublicationPendingInv, LaneRaisesInv, LaneCancelledInv
  DEF LaneStep

LEMMA DriverStepInv ==
  ASSUME DispatchInv, DriverTurn \/ DriverResumes PROVE DispatchInv'
<1>1. CASE DriverTurn
  BY <1>1, TurnEndsInv, TurnWaitsOutInv, TurnDispatchesInv, ReserveLaneInv,
     ReserveEndsInv, PeekInv, GrantSerialInv, AwaitCapacityInv, IdleInv
  DEF DriverTurn
<1>2. CASE DriverResumes
  BY <1>2, PriorityLookedInv, PollInv, WakeInv, ExitReclaimsInv, SerialEndsInv
  DEF DriverResumes
<1> QED BY <1>1, <1>2

LEMMA StutterInv == ASSUME DispatchInv, UNCHANGED vars PROVE DispatchInv'
<1> USE DEF vars, driverVars, taskVars, ledgerVars, endVars
<1>1. SchedInv' /\ ParkedSlots' = ParkedSlots BY SameSched, DispatchSched
<1>2. TypeOK' BY <1>1 DEF DispatchInv, TypeOK, SchedInv
<1>3. /\ TaskInv' /\ Live' = Live /\ NonePending' = NonePending
      /\ Quiescent' = Quiescent /\ Remaining' = Remaining
  BY TasksKept
<1>4. DriverInv' BY <1>3 DEF DispatchInv, DriverInv, schedVars
<1>5. Covered' BY <1>1, <1>3 DEF DispatchInv, Covered, schedVars
<1> QED BY <1>1, <1>2, <1>3, <1>4, <1>5 DEF DispatchInv, SchedInv

LEMMA NextInv == DispatchInv /\ [Next]_vars => DispatchInv'
  BY LaneStepInv, DriverStepInv, RequestStopInv, StutterInv DEF Next, Finished

\* The inductive invariant: every slot that stands for something is parked or
\* some task's, every task stands where its slot says, and every bound holds.
THEOREM DispatchHolds == Spec => []DispatchInv
<1> QED BY InitInv, NextInv, PTL DEF Spec

\* Every variable of the driver, the tasks and the scheduler keeps its type:
\* no unit is returned that was not spent, no issue gets a Strike too many.
THEOREM TypeCorrect == Spec => []TypeOK
<1>1. DispatchInv => TypeOK BY DEF DispatchInv
<1> QED BY <1>1, DispatchHolds, PTL

\* An issue has at most one reservation or open contribution, whatever is
\* charged, reoffered, parked or tried again.
THEOREM OneOwnerHolds == Spec => []OneOwner
<1>1. DispatchInv => OneOwner BY DEF DispatchInv, Ownership
<1> QED BY <1>1, DispatchHolds, PTL

\* Started sessions and setups that may still start one never claim more than
\* max_iterations.
THEOREM UnitsNeverOverspentHolds == Spec => []UnitsNeverOverspent
<1>1. DispatchInv => UnitsNeverOverspent BY DEF DispatchInv, Bounds
<1> QED BY <1>1, DispatchHolds, PTL

\* Lanes and the Integration backlog stay within their bounds, and every slot
\* is accounted for by exactly the sets it should be in.
THEOREM LaneAccountingHolds == Spec => []LaneAccounting
<1>1. ASSUME DispatchInv PROVE LaneAccounting
  <2>1. driver = "reserve" /\ Refillable(limit) > 0 =>
          FreeSlots # {} /\ FreeTasks # {}
    BY <1>1, RoomToReserve
  <2> QED BY <1>1, <2>1 DEF LaneAccounting, DispatchInv, Ownership, Bounds
<1> QED BY <1>1, DispatchHolds, PTL

\* A serial Iteration has base to itself: no Lane task, no reservation, no
\* open or parked contribution and nobody at the Integration lock.
THEOREM SerialOwnsBaseAloneHolds == Spec => []SerialOwnsBaseAlone
<1>1. ASSUME DispatchInv PROVE SerialOwnsBaseAlone
  <2> SUFFICES ASSUME driver \in {"serial", "lastlook"}
               PROVE  Quiescent /\ Live = {} /\ line = <<>>
    BY DEF SerialOwnsBaseAlone
  <2>1. Quiescent /\ ~cancelling BY <1>1 DEF DispatchInv, DriverInv
  <2>2. Live = {} BY <1>1, <2>1, LiveSlot DEF Quiescent
  <2>3. line = <<>>
    <3>1. line \in Seq(Tasks) /\ Len(line) \in Nat BY <1>1 DEF DispatchInv, TypeOK
    <3>2. \A k \in 1..Len(line) : line[k] \in Live
      BY <1>1, <2>1, <3>1, LiveMeans DEF DispatchInv, TaskInv, Queue
    <3> QED BY <2>2, <3>1, <3>2
  <2> QED BY <2>1, <2>2, <2>3
<1> QED BY <1>1, DispatchHolds, PTL

\* When no Lane task is pending at the driver's idle check the pipeline is
\* drained, what was parked included, and no crash went unseen.
THEOREM PendingEmptyMeansQuiescentHolds == Spec => []PendingEmptyMeansQuiescent
<1>1. ASSUME DispatchInv PROVE PendingEmptyMeansQuiescent
  BY <1>1, IdleIsQuiescent
  DEF PendingEmptyMeansQuiescent, DispatchInv, DriverInv, NonePending
<1> QED BY <1>1, DispatchHolds, PTL


-----------------------------------------------------------------------------
(* What a step may never do.                                               *)

AdmitsInOrder ==
  \A s \in admitted' \ admitted : \A p \in parked \cap parked' :
    \E q \in parked : q.slot = s /\ Ahead(q, p)

LEMMA FinalizeAdmitsInOrder ==
  ASSUME SchedInv, NEW s \in admitted, NEW published, NEW strike,
         Finalize(s, published, strike)
  PROVE  AdmitsInOrder
<1> DEFINE newly == Drained(admitted \ {s})
<1>1. /\ admitted' = (admitted \ {s}) \cup {p.slot : p \in newly}
      /\ parked' = parked \ newly
  BY DEF Finalize
<1>2. CASE parked = {} BY <1>1, <1>2, DrainedIsFirst DEF AdmitsInOrder
<1>3. CASE parked # {}
  <2>1. PICK q \in parked :
          newly = {q} /\ \A p \in parked : p # q => Ahead(q, p)
    BY <1>3, DrainedIsFirst
  <2> HIDE DEF newly
  <2> QED BY <1>1, <2>1 DEF AdmitsInOrder
<1> QED BY <1>2, <1>3

\* Driver turns and driver awaits never admit anything.
LEMMA DriverAdmitsNothing ==
  ASSUME DriverTurn \/ DriverResumes \/ RequestStop PROVE admitted' \subseteq admitted
  BY DEF DriverTurn, TurnEnds, TurnWaitsOut, TurnDispatches, ReserveLane, Reserve,
     ReserveEnds, SpendRefillTurn, Peek, RequestSerial, GrantSerial, SerialTurn,
     AwaitCapacity, Idle, DriverResumes, PriorityLooked, Poll, Wake, ExitReclaims, ReclaimAll,
     SerialEnds, SerialFinished, RequestStop, RequestStopDrain, schedVars

LEMMA LaneAdmitsInOrder ==
  ASSUME DispatchInv, NEW t \in Tasks, LaneStep(t) PROVE AdmitsInOrder
<1>1. ASSUME NEW strike \in BOOLEAN, SessionAdmitted(t, strike)
      PROVE  AdmitsInOrder
  <2>1. Cardinality(admitted) < HighWater
    BY <1>1 DEF SessionAdmitted, FinishAdmitted
  <2>2. parked = {} BY <2>1 DEF DispatchInv, Bounds, HighWater
  <2> QED BY <2>2 DEF AdmitsInOrder
<1>2. ASSUME NEW published, NEW strike, Runs(t, "gate"),
             Finalize(at[t], published, strike)
      PROVE  AdmitsInOrder
  <2>1. at[t] \in admitted BY <1>2, LaneRuns, OwnSlot
  <2> QED BY <1>2, <2>1, FinalizeAdmitsInOrder, DispatchSched
<1>3. CASE admitted' \subseteq admitted BY <1>3 DEF AdmitsInOrder
<1>4. CASE \E published, closes \in BOOLEAN : IntegrationEnds(t, published, closes)
  BY <1>2, <1>4 DEF IntegrationEnds
<1>5. CASE \E published \in BOOLEAN : PublicationPending(t, published)
  BY <1>2, <1>5 DEF PublicationPending
<1>6. CASE LaneRefused(t) \/ LaneTakesLease(t) \/ LaneStarts(t)
  BY <1>3, <1>6
  DEF LaneRefused, LaneTakesLease, LaneStarts, Release, StartSession, schedVars
<1>7. CASE \E refuse \in BOOLEAN : LaneSetupFails(t, refuse)
  BY <1>3, <1>7 DEF LaneSetupFails, Release
<1>8. CASE \E reoffer, strike, gaveUp \in BOOLEAN :
             SessionCloses(t, reoffer, strike, gaveUp)
  BY <1>3, <1>8 DEF SessionCloses, FinishTerminal
<1>9. CASE \E strike \in BOOLEAN : SessionAdmitted(t, strike) \/ SessionParked(t, strike)
  BY <1>1, <1>3, <1>9 DEF SessionParked, FinishParked
<1>10. CASE LaneRaises(t) \/ LaneCancelled(t)
  BY <1>3, <1>10 DEF LaneRaises, LaneCancelled, schedVars
<1> QED BY <1>4, <1>5, <1>6, <1>7, <1>8, <1>9, <1>10 DEF LaneStep

\* A finished contribution is never admitted past one that stays parked ahead
\* of it, however many are parked and in whatever turns.
THEOREM AdmissionIsFIFOHolds == Spec => AdmissionIsFIFO
<1>1. ASSUME DispatchInv, [Next]_vars PROVE [AdmitsInOrder]_vars
  <2>1. CASE admitted' \subseteq admitted BY <2>1 DEF AdmitsInOrder
  <2>2. CASE \E t \in Tasks : LaneStep(t) BY <1>1, <2>2, LaneAdmitsInOrder
  <2>3. CASE DriverTurn \/ DriverResumes \/ RequestStop
    BY <2>1, <2>3, DriverAdmitsNothing
  <2>4. CASE UNCHANGED vars BY <2>4
  <2> QED BY <1>1, <2>2, <2>3, <2>4 DEF Next, Finished
<1> QED BY <1>1, DispatchHolds, PTL DEF Spec, AdmissionIsFIFO, AdmitsInOrder

StartsNothing ==
  stopLatched => /\ open' \subseteq open
                 /\ driver' \in {"serial", "lastlook"} => driver' = driver

LEMMA DriverStartsNothing ==
  ASSUME DispatchInv, DriverTurn \/ DriverResumes \/ RequestStop
  PROVE  StartsNothing
<1>1. open' \subseteq open
  BY DEF DriverTurn, TurnEnds, TurnWaitsOut, TurnDispatches, ReserveLane, Reserve,
     ReserveEnds, SpendRefillTurn, Peek, RequestSerial, GrantSerial, SerialTurn,
     AwaitCapacity, Idle, DriverResumes, PriorityLooked, Poll, Wake, ExitReclaims, ReclaimAll,
     SerialEnds, SerialFinished, RequestStop, RequestStopDrain, schedVars
<1>2. CASE driver' = driver BY <1>1, <1>2 DEF StartsNothing
<1>3. CASE driver' \notin {"serial", "lastlook"} BY <1>1, <1>3 DEF StartsNothing
<1>4. CASE GrantSerial BY <1>1, <1>4 DEF GrantSerial, SerialReady, StartsNothing
<1>5. CASE \E outcome \in {"none", "empty_pool", "refused"} : Idle(outcome)
  <2>1. ASSUME stopLatched, NEW outcome, Idle(outcome) PROVE driver' = "drain"
    <3>1. Quiescent BY <2>1, IdleDrains
    <3> QED BY <2>1, <3>1 DEF Idle
  <2> QED BY <1>1, <1>5, <2>1 DEF StartsNothing
<1>6. CASE DriverTurn
  BY <1>2, <1>3, <1>4, <1>5, <1>6
  DEF DriverTurn, TurnEnds, TurnWaitsOut, TurnDispatches, ReserveLane, ReserveEnds,
      Peek, AwaitCapacity, driverVars
<1>7. CASE DriverResumes \/ RequestStop
  BY <1>2, <1>3, <1>7
  DEF DriverResumes, PriorityLooked, Poll, Wake, ExitReclaims, SerialEnds,
      RequestStop, driverVars
<1> QED BY <1>6, <1>7

LEMMA LaneStartsNothing ==
  ASSUME NEW t \in Tasks, LaneStep(t) PROVE StartsNothing
<1>1. driver' = driver
  BY DEF LaneStep, LaneRefused, LaneTakesLease, LaneSetupFails, LaneStarts,
     SessionCloses, SessionAdmitted, SessionParked, IntegrationEnds,
     PublicationPending, LaneRaises, LaneCancelled, driverVars
<1>2. CASE open' \subseteq open BY <1>1, <1>2 DEF StartsNothing
<1>3. CASE LaneStarts(t) BY <1>1, <1>3 DEF LaneStarts, StartsNothing
<1>4. CASE LaneRefused(t) \/ LaneTakesLease(t)
  BY <1>2, <1>4 DEF LaneRefused, LaneTakesLease, Release, schedVars
<1>5. CASE \E refuse \in BOOLEAN : LaneSetupFails(t, refuse)
  BY <1>2, <1>5 DEF LaneSetupFails, Release
<1>6. CASE \E reoffer, strike, gaveUp \in BOOLEAN :
             SessionCloses(t, reoffer, strike, gaveUp)
  BY <1>2, <1>6 DEF SessionCloses, FinishTerminal
<1>7. CASE \E strike \in BOOLEAN : SessionAdmitted(t, strike) \/ SessionParked(t, strike)
  BY <1>2, <1>7 DEF SessionAdmitted, FinishAdmitted, SessionParked, FinishParked
<1>8. CASE \/ \E published, closes \in BOOLEAN : IntegrationEnds(t, published, closes)
           \/ \E published \in BOOLEAN : PublicationPending(t, published)
  <2>1. open' = open \ {at[t]}
    BY <1>8 DEF IntegrationEnds, PublicationPending, Finalize
  <2> QED BY <1>2, <2>1
<1>9. CASE LaneRaises(t) \/ LaneCancelled(t)
  BY <1>2, <1>9 DEF LaneRaises, LaneCancelled, schedVars
<1> QED BY <1>3, <1>4, <1>5, <1>6, <1>7, <1>8, <1>9 DEF LaneStep

\* Once a Stop is latched no session and no serial Iteration starts, whatever
\* was in setup and whatever serial demand stood.
THEOREM StopStartsNothingHolds == Spec => StopStartsNothing
<1>1. ASSUME DispatchInv, [Next]_vars PROVE [StartsNothing]_vars
  <2>1. CASE \E t \in Tasks : LaneStep(t) BY <2>1, LaneStartsNothing
  <2>2. CASE DriverTurn \/ DriverResumes \/ RequestStop
    BY <1>1, <2>2, DriverStartsNothing
  <2>3. CASE UNCHANGED vars BY <2>3
  <2> QED BY <1>1, <2>1, <2>2, <2>3 DEF Next, Finished
<1> QED BY <1>1, DispatchHolds, PTL DEF Spec, StopStartsNothing, StartsNothing

-----------------------------------------------------------------------------
(* The driver's wakeup.                                                    *)

\* Between its reserve and its sleep the driver does not let go of the event
\* loop, so there what it could reserve is what it has counted, or less.
Counted == driver \in {"peek", "decide"} => Refillable(limit) <= unclaimed

WakeupInv == NoLostWakeup /\ Counted

LEMMA RefillableInt ==
  ASSUME DispatchInv PROVE Refillable(limit) \in Int /\ Refillable(limit) >= 0
  BY SlotSets, LimitsAssumption, CapAssumption
  DEF Refillable, Remaining, DispatchInv, TypeOK, SchedTypeOK

\* A Lane's step either gives the driver a reason to wake or makes no room.
LEMMA LaneSignalsRoom ==
  ASSUME DispatchInv, NEW t \in Tasks, LaneStep(t)
  PROVE  \/ capacityFreed' \/ returned'
         \/ /\ UNCHANGED <<capacityFreed, returned>>
            /\ Refillable(limit)' \in Int /\ Refillable(limit)' <= Refillable(limit)
<1>1. CASE EndTask(t) BY <1>1 DEF EndTask
<1>2. CASE SignalCapacity BY <1>2 DEF SignalCapacity
<1>3. Refillable(limit) \in Int BY RefillableInt
<1>4. CASE LaneTakesLease(t)
  <2>1. Refillable(limit)' = Refillable(limit) /\ UNCHANGED <<capacityFreed, returned>>
    BY <1>4 DEF LaneTakesLease, Refillable, Remaining, schedVars, driverVars
  <2> QED BY <1>3, <2>1
<1>5. CASE LaneStarts(t)
  <2>1. /\ limit' = limit /\ unitsSpent' = unitsSpent + 1
        /\ UNCHANGED <<held, admitted, serialLatched, stopLatched, phase>>
        /\ UNCHANGED <<capacityFreed, returned>>
    BY <1>5 DEF LaneStarts, StartSession, driverVars
  <2>2. /\ Cardinality(held) \in Nat /\ limit \in Int /\ unitsSpent \in Int
        /\ MaxIterations \in Int
    BY SlotSets, LimitsAssumption, CapAssumption
    DEF DispatchInv, TypeOK, SchedTypeOK
  <2>3. Refillable(limit)' \in Int /\ Refillable(limit)' <= Refillable(limit)
    BY <2>1, <2>2 DEF Refillable, Remaining
  <2> QED BY <2>1, <2>3
<1>6. CASE \/ LaneRefused(t) \/ LaneRaises(t) \/ LaneCancelled(t)
           \/ \E refuse \in BOOLEAN : LaneSetupFails(t, refuse)
           \/ \E reoffer, strike, gaveUp \in BOOLEAN :
                SessionCloses(t, reoffer, strike, gaveUp)
           \/ \E published \in BOOLEAN : PublicationPending(t, published)
  BY <1>1, <1>6
  DEF LaneRefused, LaneRaises, LaneCancelled, LaneSetupFails, SessionCloses,
      PublicationPending
<1>7. CASE \/ \E strike \in BOOLEAN : SessionAdmitted(t, strike) \/ SessionParked(t, strike)
           \/ \E published, closes \in BOOLEAN : IntegrationEnds(t, published, closes)
  BY <1>1, <1>2, <1>7 DEF SessionAdmitted, SessionParked, IntegrationEnds
<1> QED BY <1>4, <1>5, <1>6, <1>7 DEF LaneStep

LEMMA LaneKeepsWakeup ==
  ASSUME DispatchInv, WakeupInv, NEW t \in Tasks, LaneStep(t) PROVE WakeupInv'
<1>1. UNCHANGED <<driver, limit, unclaimed>> /\ driver \in Suspended
  BY DEF LaneStep, LaneRefused, LaneTakesLease, LaneSetupFails, LaneStarts,
     SessionCloses, SessionAdmitted, SessionParked, IntegrationEnds,
     PublicationPending, LaneRaises, LaneCancelled, driverVars
<1>4. ~exhausted' => ~exhausted
  BY DEF LaneStep, LaneRefused, LaneTakesLease, LaneSetupFails, LaneStarts,
     SessionCloses, SessionAdmitted, SessionParked, IntegrationEnds,
     PublicationPending, LaneRaises, LaneCancelled, endVars, ledgerVars
<1>2. Counted' BY <1>1 DEF Counted, Suspended
<1>3. NoLostWakeup'
  <2> SUFFICES ASSUME driver = "await", ~exhausted, ~capacityFreed', ~returned'
               PROVE  ~(Refillable(limit)' > unclaimed)
    BY <1>1, <1>4 DEF NoLostWakeup
  <2>1. /\ UNCHANGED <<capacityFreed, returned>>
        /\ Refillable(limit)' \in Int /\ Refillable(limit)' <= Refillable(limit)
    BY LaneSignalsRoom
  <2>2. ~(Refillable(limit) > unclaimed) BY <2>1 DEF WakeupInv, NoLostWakeup
  <2>3. Refillable(limit) \in Int /\ unclaimed \in Int
    BY RefillableInt, CapAssumption DEF DispatchInv, TypeOK
  <2> QED BY <2>1, <2>2, <2>3
<1> QED BY <1>2, <1>3 DEF WakeupInv

LEMMA DriverKeepsWakeup ==
  ASSUME DispatchInv, WakeupInv, DriverTurn \/ DriverResumes \/ RequestStop
  PROVE  WakeupInv'
<1>1. CASE driver' \notin {"await", "peek", "decide"}
  BY <1>1 DEF WakeupInv, NoLostWakeup, Counted
<1>2. CASE TurnWaitsOut
  BY <1>2 DEF TurnWaitsOut, endVars, WakeupInv, NoLostWakeup, Counted
<1>3. /\ Refillable(limit) \in Int /\ Refillable(limit) >= 0 /\ unclaimed \in Nat
      /\ Cardinality(held) \in Nat /\ limit \in Int /\ Remaining \in Int
  BY RefillableInt, SlotSets, LimitsAssumption, CapAssumption
  DEF Remaining, DispatchInv, TypeOK, SchedTypeOK
<1>4. CASE ReserveEnds
  <2>1. driver' = "peek" /\ unclaimed' = Refillable(limit)
    BY <1>4 DEF ReserveEnds
  <2>2. Refillable(limit)' <= Refillable(limit)
    BY <1>3, <1>4 DEF ReserveEnds, SpendRefillTurn, Refillable, Remaining
  <2> QED BY <2>1, <2>2 DEF WakeupInv, NoLostWakeup, Counted
<1>5. CASE \E demand, complete \in BOOLEAN : Peek(demand, complete)
  <2>1. driver = "peek" /\ driver' = "decide" /\ UNCHANGED unclaimed
    BY <1>5 DEF Peek
  <2>2. /\ serialLatched => serialLatched'
        /\ UNCHANGED <<limit, held, admitted, unitsSpent, stopLatched, phase>>
    BY <1>5 DEF Peek, RequestSerial
  <2>3. Refillable(limit)' = Refillable(limit) \/ Refillable(limit)' = 0
    BY <2>2 DEF Refillable, Remaining
  <2> QED BY <1>3, <2>1, <2>3 DEF WakeupInv, NoLostWakeup, Counted
<1>6. CASE AwaitCapacity
  <2>1. /\ driver = "decide" /\ driver' = "await" /\ UNCHANGED unclaimed
        /\ Refillable(limit)' = Refillable(limit)
    BY <1>6 DEF AwaitCapacity, schedVars, Refillable, Remaining
  <2> QED BY <1>3, <2>1 DEF WakeupInv, NoLostWakeup, Counted
<1>7. CASE RequestStop
  <2>1. driver \in Suspended /\ UNCHANGED <<driver, unclaimed>> /\ Refillable(limit)' = 0
    BY <1>7 DEF RequestStop, RequestStopDrain, Refillable, driverVars
  <2> QED BY <1>3, <2>1 DEF WakeupInv, NoLostWakeup, Counted, Suspended
<1>8. ASSUME NEW i \in Issues, ReserveLane(i)
      PROVE  driver' \notin {"await", "peek", "decide"}
  BY <1>8 DEF ReserveLane, driverVars
<1>9. CASE DriverTurn
  BY <1>1, <1>2, <1>4, <1>5, <1>6, <1>8, <1>9
  DEF DriverTurn, TurnEnds, TurnDispatches, GrantSerial, Idle
<1>10. CASE DriverResumes
  BY <1>1, <1>10
  DEF DriverResumes, PriorityLooked, Poll, Wake, ExitReclaims, SerialEnds
<1> QED BY <1>7, <1>9, <1>10

\* The driver never sleeps on room its reserve did not count: what any task
\* freed since, or during the look for Priority work, wakes it.
THEOREM NoLostWakeupHolds == Spec => []NoLostWakeup
<1>1. Init => WakeupInv BY DEF Init, WakeupInv, NoLostWakeup, Counted
<1>2. ASSUME DispatchInv, WakeupInv, [Next]_vars PROVE WakeupInv'
  <2>1. CASE \E t \in Tasks : LaneStep(t) BY <1>2, <2>1, LaneKeepsWakeup
  <2>2. CASE DriverTurn \/ DriverResumes \/ RequestStop
    BY <1>2, <2>2, DriverKeepsWakeup
  <2>3. CASE UNCHANGED vars
    <3>1. /\ UNCHANGED <<driver, capacityFreed, returned, unclaimed, exhausted>>
          /\ Refillable(limit)' = Refillable(limit)
      BY <2>3 DEF vars, schedVars, driverVars, taskVars, endVars, Refillable, Remaining
    <3> QED BY <1>2, <3>1 DEF WakeupInv, NoLostWakeup, Counted
  <2> QED BY <1>2, <2>1, <2>2, <2>3 DEF Next, Finished
<1>3. WakeupInv => NoLostWakeup BY DEF WakeupInv
<1> QED BY <1>1, <1>2, <1>3, DispatchHolds, PTL DEF Spec

-----------------------------------------------------------------------------
(* The Leases.                                                             *)

\* What the Lease on issue i is there for.
Needed(i) ==
  \/ \E s \in open : ref[s] = i
  \/ \E t \in Tasks : pc[t] = "classify" /\ issue[t] = i

\* A task that ends leaves no Lease that nothing needs: what its net keeps was
\* needed by another, or is its own and still owed by a contribution.
LEMMA NetLeavesNeeded ==
  ASSUME DispatchInv, LeaseOnlyWhileOwned, NEW t \in Tasks,
         NEW remain, remain \subseteq leases,
         leases' = LeaseNet(t, remain, open'), EndTask(t),
         \A s \in open : (s \in open' /\ ref'[s] = ref[s]) \/ ref[s] \notin remain,
         \A s \in open' : s \in open /\ ref'[s] = ref[s],
         driver' # "over"
  PROVE  LeaseOnlyWhileOwned'
<1>1. \A u \in Tasks \ {t} : pc'[u] = pc[u] /\ issue'[u] = issue[u]
  BY PcEnds DEF DispatchInv
<1>2. ASSUME NEW i \in leases' PROVE Needed(i)'
  <2>1. i \in remain /\ i \in leases BY <1>2 DEF LeaseNet
  <2>2. CASE \E s \in open : ref[s] = i BY <2>1, <2>2 DEF Needed
  <2>3. CASE \E u \in Tasks \ {t} : pc[u] = "classify" /\ issue[u] = i
    BY <1>1, <2>3 DEF Needed
  <2>4. CASE i = issue[t]
    BY <1>2, <2>4 DEF LeaseNet, Needed
  <2> QED BY <2>1, <2>2, <2>3, <2>4 DEF LeaseOnlyWhileOwned
<1> QED BY <1>2 DEF LeaseOnlyWhileOwned, Needed

LEMMA LaneKeepsLeases ==
  ASSUME DispatchInv, LeaseOnlyWhileOwned, NEW t \in Tasks, LaneStep(t)
  PROVE  LeaseOnlyWhileOwned'
<1>0. driver' = driver /\ driver # "over"
  <2>1. driver' = driver
    BY DEF LaneStep, LaneRefused, LaneTakesLease, LaneSetupFails, LaneStarts,
       SessionCloses, SessionAdmitted, SessionParked, IntegrationEnds,
       PublicationPending, LaneRaises, LaneCancelled, driverVars
  <2>2. driver # "over"
    BY DEF LaneStep, LaneRefused, LaneTakesLease, LaneSetupFails, LaneStarts,
       SessionCloses, SessionAdmitted, SessionParked, IntegrationEnds,
       PublicationPending, LaneRaises, LaneCancelled, Runs, Suspended
  <2> QED BY <2>1, <2>2
<1>1. SchedInv /\ ref \in [Slots -> Issues \cup {NoIssue}]
  BY DispatchSched DEF SchedInv, SchedTypeOK
<1>2. ASSUME Release(at[t]), at[t] \in held \ open, EndTask(t),
             leases' = LeaseNet(t, leases, open)
      PROVE  LeaseOnlyWhileOwned'
  <2>1. open' = open /\ \A s \in open : ref'[s] = ref[s]
    BY <1>1, <1>2 DEF Release, SchedInv, SchedTypeOK
  <2> QED BY <1>0, <1>2, <2>1, NetLeavesNeeded
<1>3. CASE LaneRefused(t) \/ \E refuse \in BOOLEAN : LaneSetupFails(t, refuse)
  <2>1. at[t] \in held \ open
    BY <1>3, LaneRuns, OwnSlot DEF LaneRefused, LaneSetupFails, Reserving
  <2> QED BY <1>2, <1>3, <2>1 DEF LaneRefused, LaneSetupFails
<1>4. CASE LaneTakesLease(t)
  <2>1. /\ leases' = leases \cup {issue[t]} /\ UNCHANGED <<ref, open, issue>>
        /\ pc'[t] = "classify" /\ \A u \in Tasks \ {t} : pc'[u] = pc[u]
        /\ pc[t] = "begin"
    BY <1>4 DEF LaneTakesLease, Runs, schedVars, DispatchInv, TypeOK
  <2> QED BY <1>0, <2>1 DEF LeaseOnlyWhileOwned
<1>5. CASE LaneStarts(t)
  <2>1. /\ leases' = leases /\ UNCHANGED <<ref, issue>> /\ open' = open \cup {at[t]}
        /\ \A u \in Tasks \ {t} : pc'[u] = pc[u]
    BY <1>5 DEF LaneStarts, StartSession, ledgerVars, DispatchInv, TypeOK
  <2>2. ref[at[t]] = issue[t]
    BY <1>5, LaneRuns, OwnSlot DEF LaneStarts, Reserving
  <2> QED BY <1>0, <2>1, <2>2 DEF LeaseOnlyWhileOwned
<1>6. CASE \E reoffer, strike, gaveUp \in BOOLEAN :
             SessionCloses(t, reoffer, strike, gaveUp)
  <2> DEFINE remain == leases \ {issue[t]}
  <2>1. /\ open' = open \ {at[t]} /\ EndTask(t)
        /\ ref' = [ref EXCEPT ![at[t]] = NoIssue]
        /\ leases' = LeaseNet(t, remain, open')
    BY <1>6 DEF SessionCloses, FinishTerminal
  <2>2. ref[at[t]] = issue[t] /\ at[t] \in open
    BY <1>6, LaneRuns, OwnSlot DEF SessionCloses
  <2>3. \A s \in open' : s \in open /\ ref'[s] = ref[s]
    BY <1>1, <2>1 DEF SchedInv, SchedTypeOK
  <2>4. \A s \in open : (s \in open' /\ ref'[s] = ref[s]) \/ ref[s] \notin remain
    BY <2>1, <2>2, <2>3
  <2>5. remain \subseteq leases OBVIOUS
  <2> HIDE DEF remain
  <2> QED BY <1>0, <2>1, <2>3, <2>4, <2>5, NetLeavesNeeded
<1>7. CASE \E strike \in BOOLEAN : SessionAdmitted(t, strike)
  <2>1. /\ UNCHANGED <<leases, ref, open, issue>> /\ pc[t] = "session"
        /\ \A u \in Tasks \ {t} : pc'[u] = pc[u]
    BY <1>7 DEF SessionAdmitted, FinishAdmitted, Runs, DispatchInv, TypeOK
  <2> QED BY <1>0, <2>1 DEF LeaseOnlyWhileOwned
<1>8. ASSUME UNCHANGED <<ref, open>>, EndTask(t),
             leases' = leases \/ leases' = LeaseNet(t, leases, open),
             leases' = leases => pc[t] # "classify"
      PROVE  LeaseOnlyWhileOwned'
  <2>1. CASE leases' = LeaseNet(t, leases, open)
    BY <1>0, <1>8, <2>1, NetLeavesNeeded
  <2>2. CASE leases' = leases
    <3>1. \A u \in Tasks \ {t} : pc'[u] = pc[u] /\ issue'[u] = issue[u]
      BY <1>8, PcEnds DEF DispatchInv
    <3> QED BY <1>0, <1>8, <2>2, <3>1 DEF LeaseOnlyWhileOwned
  <2> QED BY <1>8, <2>1, <2>2
<1>9. CASE \E strike \in BOOLEAN : SessionParked(t, strike)
  <2>1. UNCHANGED <<ref, open>> /\ EndTask(t) /\ leases' = LeaseNet(t, leases, open)
        /\ pc[t] = "session"
    BY <1>9 DEF SessionParked, FinishParked, Runs
  <2> QED BY <1>8, <2>1
<1>10. CASE LaneRaises(t) \/ LaneCancelled(t)
  <2>1. UNCHANGED <<ref, open>> /\ EndTask(t)
    BY <1>10 DEF LaneRaises, LaneCancelled, schedVars
  <2>2. \/ leases' = LeaseNet(t, leases, open)
        \/ leases' = leases /\ pc[t] # "classify"
    BY <1>10 DEF LaneRaises, LaneCancelled
  <2>3. CASE leases' = LeaseNet(t, leases, open)
    BY <1>0, <2>1, <2>3, NetLeavesNeeded
  <2>4. CASE leases' = leases /\ pc[t] # "classify" BY <1>8, <2>1, <2>4
  <2> QED BY <2>2, <2>3, <2>4
<1>11. ASSUME NEW published, NEW strike, Finalize(at[t], published, strike),
              Runs(t, "gate")
       PROVE  /\ open' = open \ {at[t]} /\ \A s \in open' : ref'[s] = ref[s]
  BY <1>1, <1>11 DEF Finalize, SchedInv, SchedTypeOK
<1>12. CASE \E published, closes \in BOOLEAN : IntegrationEnds(t, published, closes)
  <2>1. open' = open \ {at[t]} /\ \A s \in open' : ref'[s] = ref[s]
    BY <1>11, <1>12 DEF IntegrationEnds
  <2>2. leases' \subseteq leases \ {ref[at[t]]}
    BY <1>12 DEF IntegrationEnds, LeaseNet
  <2>3. \A u \in Tasks : pc[u] = "classify" => pc'[u] = pc[u] /\ issue'[u] = issue[u]
    BY <1>12
    DEF IntegrationEnds, ContinueWith, EndTask, Runs, DispatchInv, TypeOK
  <2> QED BY <1>0, <2>1, <2>2, <2>3 DEF LeaseOnlyWhileOwned
<1>13. CASE \E published \in BOOLEAN : PublicationPending(t, published)
  <2>1. open' = open \ {at[t]} /\ \A s \in open' : ref'[s] = ref[s]
    BY <1>11, <1>13 DEF PublicationPending
  <2>2. leases' \subseteq leases \ {ref[at[t]]}
    BY <1>13 DEF PublicationPending, LeaseNet
  <2>3. \A u \in Tasks : pc[u] = "classify" => pc'[u] = pc[u] /\ issue'[u] = issue[u]
    BY <1>13 DEF PublicationPending, EndTask, Runs, DispatchInv, TypeOK
  <2> QED BY <1>0, <2>1, <2>2, <2>3 DEF LeaseOnlyWhileOwned
<1> QED
  BY <1>3, <1>4, <1>5, <1>6, <1>7, <1>9, <1>10, <1>12, <1>13 DEF LaneStep

LEMMA DriverKeepsLeases ==
  ASSUME DispatchInv, LeaseOnlyWhileOwned, DriverTurn \/ DriverResumes \/ RequestStop
  PROVE  LeaseOnlyWhileOwned'
<1>1. ASSUME leases' = leases, open' = open, \A s \in open : ref'[s] = ref[s],
             \A t \in Tasks : pc[t] = "classify" =>
               pc'[t] = "classify" /\ issue'[t] = issue[t],
             driver' # "over"
      PROVE  LeaseOnlyWhileOwned'
  BY <1>1 DEF LeaseOnlyWhileOwned
<1>2. CASE UNCHANGED <<leases, open, ref, pc, issue>> /\ driver' # "over"
  BY <1>1, <1>2
<1>3. CASE \E i \in Issues : ReserveLane(i)
  <2>1. PICK i \in Issues : ReserveLane(i) BY <1>3
  <2>2. PICK s \in FreeSlots, t \in FreeTasks :
          s = Lowest(FreeSlots) /\ t = Lowest(FreeTasks)
    <3>1. FreeSlots \subseteq Nat /\ FreeTasks \subseteq Nat
      BY SlotsFinite DEF FreeSlots, FreeTasks, Tasks
    <3> QED BY <2>1, <3>1, RoomToReserve, LowestIn DEF ReserveLane
  <2>3. /\ Reserve(s, i) /\ pc' = [pc EXCEPT ![t] = "begin"]
        /\ issue' = [issue EXCEPT ![t] = i] /\ leases' = leases
        /\ driver' = driver /\ driver = "reserve"
    BY <2>1, <2>2 DEF ReserveLane, ledgerVars, driverVars
  <2>4. s \notin open /\ pc[t] = "none"
    BY DEF FreeSlots, FreeTasks, Live, DispatchInv, Ownership
  <2>5. open' = open /\ \A u \in open : ref'[u] = ref[u]
    BY <2>3, <2>4 DEF Reserve, DispatchInv, TypeOK, SchedTypeOK
  <2>6. \A u \in Tasks : pc[u] = "classify" =>
          pc'[u] = "classify" /\ issue'[u] = issue[u]
    BY <2>3, <2>4 DEF DispatchInv, TypeOK
  <2> QED BY <1>1, <2>3, <2>5, <2>6
<1>4. CASE Wake
  BY <1>1, <1>4 DEF Wake, schedVars, ledgerVars
<1>5. CASE ExitReclaims
  <2>1. \A t \in Tasks : pc[t] # "classify"
    BY <1>5 DEF ExitReclaims, Live
  <2>2. leases' = {} BY <1>5, <2>1 DEF ExitReclaims, LeaseOnlyWhileOwned
  <2> QED BY <2>2 DEF LeaseOnlyWhileOwned
<1>6. CASE RequestStop
  BY <1>2, <1>6
  DEF RequestStop, RequestStopDrain, Suspended, driverVars, taskVars, ledgerVars
<1>7. CASE PriorityLooked \/ Poll \/ \E i \in Issues, closes, strike, resumes \in BOOLEAN :
                     SerialEnds(i, closes, strike, resumes)
  BY <1>2, <1>7
  DEF PriorityLooked, Poll, SerialEnds, SerialFinished, taskVars, ledgerVars,
      schedVars
<1>8. CASE \/ TurnEnds \/ TurnWaitsOut \/ ReserveEnds
           \/ \E looks \in BOOLEAN : TurnDispatches(looks)
           \/ \E demand, complete \in BOOLEAN : Peek(demand, complete)
           \/ GrantSerial \/ AwaitCapacity
           \/ \E outcome \in {"none", "empty_pool", "refused"} : Idle(outcome)
  BY <1>2, <1>8
  DEF TurnEnds, TurnWaitsOut, TurnDispatches, ReserveEnds, SpendRefillTurn, Peek,
      RequestSerial, GrantSerial, SerialTurn, AwaitCapacity, Idle, taskVars,
      ledgerVars, schedVars
<1> QED
  BY <1>3, <1>4, <1>5, <1>6, <1>7, <1>8 DEF DriverTurn, DriverResumes

\* No Lane's Lease outlives the setup or contribution it protects, and none is
\* left when the Run is over.
THEOREM LeaseOnlyWhileOwnedHolds == Spec => []LeaseOnlyWhileOwned
<1>1. Init => LeaseOnlyWhileOwned BY DEF Init, LeaseOnlyWhileOwned
<1>2. ASSUME DispatchInv, LeaseOnlyWhileOwned, [Next]_vars
      PROVE  LeaseOnlyWhileOwned'
  <2>1. CASE \E t \in Tasks : LaneStep(t) BY <1>2, <2>1, LaneKeepsLeases
  <2>2. CASE DriverTurn \/ DriverResumes \/ RequestStop
    BY <1>2, <2>2, DriverKeepsLeases
  <2>3. CASE UNCHANGED vars
    BY <1>2, <2>3
    DEF LeaseOnlyWhileOwned, vars, schedVars, driverVars, taskVars, ledgerVars
  <2> QED BY <1>2, <2>1, <2>2, <2>3 DEF Next, Finished
<1> QED BY <1>1, <1>2, DispatchHolds, PTL DEF Spec


-----------------------------------------------------------------------------
(* Nobody waits on everybody: the safety part of EveryContributionCloses.   *)

\* A task with a step to take as soon as the driver is suspended: one outside
\* the Integration lock, or its owner, or any once all are cancelled.
CanStep(t) ==
  \/ cancelling
  \/ pc[t] \in Reserving \cup {"session"}
  \/ pc[t] = "gate" /\ line # <<>> /\ Head(line) = t

\* Whenever the driver waits for its tasks there are some, and one of them can
\* go on (_await_capacity, _integration_lock): no task queues behind one that
\* has ended, failed or been cancelled.
NobodyIsStuck ==
  /\ driver = "await" => ~NonePending
  /\ driver \in Waiting /\ Live # {} => \E t \in Live : CanStep(t)

\* What is parked has no task of its own; until the Run comes to an end there
\* is always one that integrates a contribution ahead of it.
ParkedIsServed ==
  driver \notin {"drain", "over"} /\ ~crash /\ parked # {} =>
    line # <<>> /\ pc[Head(line)] = "gate" /\ at[Head(line)] \in admitted

AwaitsSome == driver = "await" => ~NonePending

\* A Lane's step leaves its task there, or one more for the driver to retire.
LEMMA LaneStaysPending ==
  ASSUME TypeOK, NEW t \in Tasks, LaneStep(t)
  PROVE  driver' = driver /\ ~NonePending'
<1>1. driver' = driver
  BY DEF LaneStep, LaneRefused, LaneTakesLease, LaneSetupFails, LaneStarts,
     SessionCloses, SessionAdmitted, SessionParked, IntegrationEnds,
     PublicationPending, LaneRaises, LaneCancelled, driverVars
<1>2. \/ EndTask(t) \/ pc' = pc
      \/ \E v \in {"classify", "session", "gate"} : pc' = [pc EXCEPT ![t] = v]
  BY DEF LaneStep, LaneRefused, LaneTakesLease, LaneSetupFails, LaneStarts,
     SessionCloses, SessionAdmitted, SessionParked, IntegrationEnds, ContinueWith,
     PublicationPending, LaneRaises, LaneCancelled
<1>3. CASE EndTask(t) BY <1>1, <1>3 DEF EndTask, NonePending
<1>4. CASE pc' = pc \/ \E v \in {"classify", "session", "gate"} :
                         pc' = [pc EXCEPT ![t] = v]
  <2>1. t \in Live BY DEF LaneStep
  <2>2. t \in Live' BY <1>4, <2>1 DEF Live, TypeOK
  <2> QED BY <1>1, <2>2 DEF NonePending
<1> QED BY <1>2, <1>3, <1>4

LEMMA AwaitStep == DispatchInv /\ AwaitsSome /\ [Next]_vars => AwaitsSome'
<1> SUFFICES ASSUME DispatchInv, AwaitsSome, [Next]_vars PROVE AwaitsSome' OBVIOUS
<1>1. CASE driver' = driver /\ UNCHANGED <<pc, returned>>
  BY <1>1 DEF AwaitsSome, NonePending, Live
<1>2. CASE \E t \in Tasks : LaneStep(t)
  BY <1>2, LaneStaysPending DEF DispatchInv, AwaitsSome
<1>3. CASE TurnWaitsOut \/ AwaitCapacity
  BY <1>3 DEF TurnWaitsOut, AwaitCapacity, taskVars, AwaitsSome, NonePending, Live
<1>4. CASE RequestStop \/ UNCHANGED vars
  BY <1>1, <1>4 DEF RequestStop, driverVars, taskVars, vars
<1>5. CASE driver' # "await" BY <1>5 DEF AwaitsSome
<1>6. ASSUME DriverTurn \/ DriverResumes, ~(TurnWaitsOut \/ AwaitCapacity)
      PROVE  driver' # "await"
  <2>1. ASSUME NEW i \in Issues, ReserveLane(i) PROVE driver' # "await"
    BY <2>1 DEF ReserveLane, driverVars
  <2>2. CASE \/ TurnEnds \/ ReserveEnds \/ GrantSerial
             \/ \E looks \in BOOLEAN : TurnDispatches(looks)
    BY <2>2 DEF TurnEnds, TurnDispatches, ReserveEnds, GrantSerial
  <2>3. CASE \E demand, complete \in BOOLEAN : Peek(demand, complete)
    BY <2>3 DEF Peek
  <2>4. CASE \E outcome \in {"none", "empty_pool", "refused"} : Idle(outcome)
    BY <2>4 DEF Idle
  <2>5. CASE PriorityLooked \/ Poll \/ Wake \/ ExitReclaims
    BY <2>5 DEF PriorityLooked, Poll, Wake, ExitReclaims
  <2>6. CASE \E i \in Issues, closes, strike, resumes \in BOOLEAN :
               SerialEnds(i, closes, strike, resumes)
    BY <2>6 DEF SerialEnds
  <2> QED BY <1>6, <2>1, <2>2, <2>3, <2>4, <2>5, <2>6 DEF DriverTurn, DriverResumes
<1> QED BY <1>2, <1>3, <1>4, <1>5, <1>6 DEF Next, Finished

\* Whoever is in a gate, the lock has an owner that is there.
LEMMA LockIsOwned ==
  ASSUME DispatchInv, ~cancelling, NEW t \in Tasks, pc[t] = "gate"
  PROVE  line # <<>> /\ Head(line) \in Tasks /\ pc[Head(line)] = "gate"
<1>1. line \in Seq(Tasks) BY DEF DispatchInv, TypeOK
<1>2. PICK k \in 1..Len(line) : line[k] = t BY DEF DispatchInv, TaskInv, Queue
<1>3. Len(line) >= 1 BY <1>1, <1>2
<1>4. line # <<>> /\ Head(line) = line[1] /\ line[1] \in Tasks BY <1>1, <1>3
<1>5. pc[line[1]] = "gate" BY <1>1, <1>3 DEF DispatchInv, TaskInv, Queue
<1> QED BY <1>4, <1>5

\* The driver never waits for tasks none of which can move.
THEOREM NobodyIsStuckHolds == Spec => []NobodyIsStuck
<1>1. Init => AwaitsSome BY DEF Init, AwaitsSome
<1>2. ASSUME DispatchInv, AwaitsSome PROVE NobodyIsStuck
  <2> SUFFICES ASSUME driver \in Waiting, Live # {}, ~cancelling
               PROVE  \E t \in Live : CanStep(t)
    BY <1>2 DEF NobodyIsStuck, AwaitsSome, CanStep
  <2>1. PICK t \in Live : TRUE OBVIOUS
  <2>2. t \in Tasks /\ pc[t] \in Reserving \cup {"session", "gate"}
    BY <1>2, <2>1, LiveMeans DEF DispatchInv, Live
  <2>3. CASE pc[t] # "gate" BY <2>1, <2>2, <2>3 DEF CanStep
  <2>4. CASE pc[t] = "gate"
    <3>1. line # <<>> /\ Head(line) \in Tasks /\ pc[Head(line)] = "gate"
      BY <1>2, <2>2, <2>4, LockIsOwned
    <3>2. Head(line) \in Live BY <3>1 DEF Live
    <3> QED BY <3>1, <3>2 DEF CanStep
  <2> QED BY <2>3, <2>4
<1> QED BY <1>1, <1>2, AwaitStep, DispatchHolds, PTL DEF Spec

\* The lock's owner is at work on an admitted contribution as long as one is
\* parked: the backlog is full then, and everything in it has its task.
THEOREM ParkedIsServedHolds == Spec => []ParkedIsServed
<1>1. ASSUME DispatchInv PROVE ParkedIsServed
  <2> SUFFICES ASSUME driver \notin {"drain", "over"}, ~crash, parked # {}
               PROVE  line # <<>> /\ pc[Head(line)] = "gate" /\ at[Head(line)] \in admitted
    BY DEF ParkedIsServed
  <2>1. Cardinality(admitted) = HighWater /\ admitted \subseteq Slots
    BY <1>1 DEF DispatchInv, Bounds, TypeOK, SchedTypeOK
  <2>2. PICK s \in admitted : TRUE BY <2>1, SlotSets DEF HighWater
  <2>3. s \in Slots /\ ref[s] # NoIssue /\ s \notin held /\ s \notin ParkedSlots
    BY <1>1, <2>1, <2>2 DEF DispatchInv, Ownership
  <2>4. PICK t \in Live : at[t] = s
    BY <1>1, <2>3 DEF DispatchInv, Covered
  <2>5. t \in Tasks /\ pc[t] = "gate"
    BY <1>1, <2>3, <2>4, LiveMeans, OwnSlot DEF DispatchInv, Live
  <2>6. ~cancelling BY <1>1 DEF DispatchInv, DriverInv
  <2>7. line # <<>> /\ Head(line) \in Tasks /\ pc[Head(line)] = "gate"
    BY <1>1, <2>5, <2>6, LockIsOwned
  <2> QED BY <1>1, <2>7 DEF DispatchInv, TaskInv, TaskPhase
<1> QED BY <1>1, DispatchHolds, PTL

\* Every integration that ends while something is parked moves up one
\* contribution: the first by the turn it parked in, then by issue.
FirstMovesUp ==
  [][parked # {} /\ turn' # turn =>
       \E p \in parked : /\ parked' = parked \ {p} /\ p.slot \in admitted'
                         /\ \A q \in parked \ {p} : Ahead(p, q)]_vars

\* No integration, published or not, leaves the place it frees empty, and none
\* is given to a contribution that parked later (finalize, _drain_parked).
THEOREM FirstMovesUpHolds == Spec => FirstMovesUp
<1> DEFINE Moves == \E p \in parked : /\ parked' = parked \ {p} /\ p.slot \in admitted'
                                      /\ \A q \in parked \ {p} : Ahead(p, q)
<1>1. ASSUME DispatchInv, NEW t \in Tasks, NEW published, NEW strike,
             Runs(t, "gate"), Finalize(at[t], published, strike), parked # {}
      PROVE  Moves
  <2>1. at[t] \in admitted BY <1>1, LaneRuns, OwnSlot
  <2> DEFINE newly == Drained(admitted \ {at[t]})
  <2>2. PICK p \in parked : newly = {p} /\ \A q \in parked : q # p => Ahead(p, q)
    BY <1>1, <2>1, DrainedIsFirst, DispatchSched
  <2>3. parked' = parked \ newly
        /\ admitted' = (admitted \ {at[t]}) \cup {q.slot : q \in newly}
    BY <1>1 DEF Finalize
  <2> HIDE DEF newly
  <2> QED BY <2>2, <2>3
<1>2. ASSUME NEW t \in Tasks, LaneStep(t), turn' # turn
      PROVE  /\ Runs(t, "gate")
             /\ \E published, strike : Finalize(at[t], published, strike)
  <2>1. \/ \E published, closes \in BOOLEAN : IntegrationEnds(t, published, closes)
        \/ \E published \in BOOLEAN : PublicationPending(t, published)
    BY <1>2 DEF LaneStep, LaneRefused, LaneTakesLease, LaneSetupFails, LaneStarts,
       SessionCloses, SessionAdmitted, SessionParked, LaneRaises, LaneCancelled,
       Release, StartSession, FinishTerminal, FinishAdmitted, FinishParked, schedVars
  <2> QED BY <2>1 DEF IntegrationEnds, PublicationPending
<1>3. DriverTurn \/ DriverResumes \/ RequestStop => turn' = turn
  BY DEF DriverTurn, TurnEnds, TurnWaitsOut, TurnDispatches, ReserveLane, Reserve,
     ReserveEnds, SpendRefillTurn, Peek, RequestSerial, GrantSerial, SerialTurn,
     AwaitCapacity, Idle, DriverResumes, PriorityLooked, Poll, Wake, ExitReclaims, ReclaimAll,
     SerialEnds, SerialFinished, RequestStop, RequestStopDrain, schedVars
<1>4. ASSUME DispatchInv, Next, parked # {}, turn' # turn PROVE Moves
  <2>1. PICK t \in Tasks : LaneStep(t)
    BY <1>3, <1>4 DEF Next, Finished, vars, schedVars
  <2> QED BY <1>1, <1>2, <1>4, <2>1
<1>5. DispatchInv /\ [Next]_vars =>
        [parked # {} /\ turn' # turn =>
           \E p \in parked : /\ parked' = parked \ {p} /\ p.slot \in admitted'
                             /\ \A q \in parked \ {p} : Ahead(p, q)]_vars
  BY <1>4
<1> QED BY <1>5, DispatchHolds, PTL DEF Spec, FirstMovesUp
=============================================================================
