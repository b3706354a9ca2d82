---------------------------- MODULE DispatchProofs ----------------------------
(***************************************************************************)
(* RollingDispatch implements DispatchPromise: for every set of issues,     *)
(* every bound, every limit policy and every combination of faults, each    *)
(* step of the driver, of a Lane task or of the operator is a step of the   *)
(* promise or leaves it where it was.                                       *)
(***************************************************************************)
EXTENDS RollingProofs

\* A charged contribution has left its session, and setup is of issues that
\* no attempt has worked on, or whose last attempt was charged or returned.
ChargedIsFinished == charged \subseteq admitted \cup ParkedSlots
SetupIsUnworked == inSetup \cap worked = {}

KeptInv == DispatchInv /\ ChargedIsFinished /\ SetupIsUnworked

-----------------------------------------------------------------------------
(* What the mapping says of an issue.                                      *)

SlotStage(s) ==
  IF s \notin open THEN "setup"
  ELSE IF s \in admitted THEN "backlog"
  ELSE IF s \in ParkedSlots THEN "parked" ELSE "session"

Claimed(i) == \E s \in held \cup open : ref[s] = i

Reads(i) ==
  /\ \A s \in held \cup open : ref[s] = i => Stages[i] = SlotStage(s)
  /\ ~Claimed(i) => Stages[i] = IF i \in worked THEN "done" ELSE "free"

LEMMA StagesRead == KeptInv => \A i \in Issues : Reads(i)
<1> SUFFICES ASSUME KeptInv, NEW i \in Issues PROVE Reads(i) OBVIOUS
<1> DEFINE sess == open \ (admitted \cup ParkedSlots)
<1>1. Stages[i] =
        CASE i \in inSetup            -> "setup"
          [] ~Owns(i)                 -> "free"
          [] StandsFor(admitted, i)    -> "backlog"
          [] StandsFor(ParkedSlots, i) -> "parked"
          [] StandsFor(sess, i)        -> "session"
          [] OTHER                    -> "done"
  BY DEF Stages, Stage
<1> HIDE DEF sess
<1>2. /\ inSetup = {ref[s] : s \in held \ open} /\ held \subseteq Slots /\ open \subseteq Slots
      /\ admitted \subseteq open /\ admitted \cap held = {}
      /\ ParkedSlots \subseteq held \cap open
      /\ \A s \in open : ref[s] \in worked
      /\ inSetup \cap worked = {}
  BY DEF KeptInv, DispatchInv, Ownership, SetupIsUnworked, TypeOK, SchedTypeOK
<1>3. \A s, u \in held \cup open : ref[s] = i /\ ref[u] = i => s = u
  BY <1>2, IssuesAssumption DEF KeptInv, DispatchInv, Ownership, OneOwner
<1>4. ASSUME NEW s \in held \cup open, ref[s] = i PROVE Stages[i] = SlotStage(s)
  <2>1. /\ i \in inSetup <=> s \notin open
        /\ StandsFor(admitted, i) <=> s \in admitted
        /\ StandsFor(ParkedSlots, i) <=> s \in ParkedSlots
        /\ StandsFor(sess, i) <=> s \in sess
        /\ s \in open => i \in worked
    <3>1. \A S : S \subseteq held \cup open => (StandsFor(S, i) <=> s \in S)
      BY <1>3, <1>4 DEF StandsFor
    <3>2. /\ admitted \subseteq held \cup open /\ ParkedSlots \subseteq held \cup open
          /\ sess \subseteq held \cup open
      BY <1>2 DEF sess
    <3>3. i \in inSetup <=> s \notin open BY <1>2, <1>3, <1>4
    <3>4. /\ StandsFor(admitted, i) <=> s \in admitted
          /\ StandsFor(ParkedSlots, i) <=> s \in ParkedSlots
          /\ StandsFor(sess, i) <=> s \in sess
      <4> HIDE DEF StandsFor
      <4> QED BY <3>1, <3>2
    <3>5. s \in open => i \in worked BY <1>2, <1>4
    <3> QED BY <3>3, <3>4, <3>5
  <2>2. CASE s \notin open
    <3>1. s \notin admitted /\ s \notin ParkedSlots /\ s \notin sess
      BY <1>2, <2>2 DEF sess
    <3> HIDE DEF StandsFor
    <3> QED BY <1>1, <2>1, <2>2, <3>1 DEF SlotStage, Owns
  <2>3. CASE s \in open
    <3>1. /\ s \in sess <=> s \notin admitted /\ s \notin ParkedSlots
          /\ ~(s \in admitted /\ s \in ParkedSlots)
      BY <1>2, <2>3 DEF sess
    <3> HIDE DEF StandsFor
    <3> QED BY <1>1, <2>1, <2>3, <3>1 DEF SlotStage, Owns
  <2> QED BY <2>2, <2>3
<1>5. ASSUME ~Claimed(i) PROVE Stages[i] = IF i \in worked THEN "done" ELSE "free"
  <2>1. /\ i \notin inSetup /\ ~StandsFor(admitted, i) /\ ~StandsFor(ParkedSlots, i)
        /\ ~StandsFor(sess, i)
    BY <1>2, <1>5 DEF Claimed, StandsFor, sess
  <2> QED BY <1>1, <2>1 DEF Owns
<1> QED BY <1>4, <1>5 DEF Reads

LEMMA StagesReadNext == KeptInv' => \A i \in Issues : Reads(i)'
<1>1. (\A i \in Issues : KeptInv => Reads(i))'
  <2>1. \A i \in Issues : KeptInv => Reads(i) BY StagesRead
  <2> QED BY <2>1, PTL
<1> QED BY <1>1

LEMMA StagesAreFunction ==
  /\ Stages = [i \in Issues |-> Stages[i]]
  /\ Stages' = [i \in Issues |-> Stages'[i]]
BY DEF Stages

-----------------------------------------------------------------------------
(* What a step that touches few slots does to the stages.                  *)

LEMMA OthersStay ==
  ASSUME KeptInv, KeptInv', NEW S, S \subseteq Slots, Untouched(S),
         NEW j \in Issues, \A s \in S : ref[s] # j /\ ref'[s] # j,
         j \in worked' <=> j \in worked
  PROVE  Stages'[j] = Stages[j]
<1>1. Reads(j) /\ Reads(j)' BY StagesRead, StagesReadNext
<1>2. /\ held \subseteq Slots /\ open \subseteq Slots
      /\ held' \subseteq Slots /\ open' \subseteq Slots
  BY DEF KeptInv, DispatchInv, TypeOK, SchedTypeOK
<1>3. CASE Claimed(j)
  <2>1. PICK s \in held \cup open : ref[s] = j BY <1>3 DEF Claimed
  <2>2. s \in Slots \ S BY <1>2, <2>1
  <2>3. s \in held' \cup open' /\ ref'[s] = j /\ SlotStage(s)' = SlotStage(s)
    BY <2>1, <2>2 DEF Untouched, SlotStage
  <2>4. Stages[j] = SlotStage(s) BY <1>1, <2>1 DEF Reads
  <2>5. Stages'[j] = SlotStage(s)' BY <1>1, <2>3 DEF Reads
  <2> QED BY <2>3, <2>4, <2>5
<1>4. CASE ~Claimed(j)
  <2>1. ~Claimed(j)' BY <1>2, <1>4 DEF Claimed, Untouched
  <2> QED BY <1>1, <1>4, <2>1 DEF Reads
<1> QED BY <1>3, <1>4

\* The step is about one slot, which stands for issue i before it, or after.
OneSlot(s, i) ==
  /\ Untouched({s})
  /\ ref[s] \in {i, NoIssue} /\ ref'[s] \in {i, NoIssue}
  /\ worked' \ {i} = worked \ {i}

LEMMA OneMoves ==
  ASSUME KeptInv, KeptInv', NEW s \in Slots, NEW i \in Issues, OneSlot(s, i)
  PROVE  Stages' = [Stages EXCEPT ![i] = Stages'[i]]
<1>1. ASSUME NEW j \in Issues, j # i PROVE Stages'[j] = Stages[j]
  <2>1. j # NoIssue BY IssuesAssumption
  <2> QED BY <1>1, <2>1, OthersStay DEF OneSlot
<1> QED BY <1>1, StagesAreFunction

\* An issue no slot stands for is left to the Run, or out of its reach.
LEMMA Unclaimed ==
  ASSUME KeptInv', NEW i \in Issues, \A s \in Slots : ref'[s] # i
  PROVE  Stages'[i] = IF i \in worked' THEN "done" ELSE "free"
<1>1. held' \subseteq Slots /\ open' \subseteq Slots
  BY DEF KeptInv, DispatchInv, TypeOK, SchedTypeOK
<1>2. ~Claimed(i)' BY <1>1 DEF Claimed
<1> QED BY <1>2, StagesReadNext DEF Reads

LEMMA OneClaim ==
  ASSUME KeptInv, NEW s \in Slots, ref[s] # NoIssue
  PROVE  \A u \in Slots \ {s} : ref[u] # ref[s]
BY DEF KeptInv, DispatchInv, Ownership, OneOwner

\* A slot that is given up leaves its issue so.
LEMMA Given ==
  ASSUME KeptInv, KeptInv', NEW s \in Slots, NEW i \in Issues, OneSlot(s, i),
         ref[s] = i, ref'[s] = NoIssue
  PROVE  Stages'[i] = IF i \in worked' THEN "done" ELSE "free"
<1>1. i # NoIssue BY IssuesAssumption
<1>2. \A u \in Slots : ref'[u] # i
  BY <1>1, OneClaim DEF OneSlot, Untouched
<1> QED BY <1>2, Unclaimed

LEMMA SlotReads ==
  ASSUME KeptInv, NEW s \in Slots, NEW i \in Issues, ref[s] = i
  PROVE  s \in held \cup open /\ Stages[i] = SlotStage(s)
<1>1. i # NoIssue BY IssuesAssumption
<1>2. s \in held \cup open BY <1>1 DEF KeptInv, DispatchInv, Ownership
<1> QED BY <1>2, StagesRead DEF Reads

LEMMA SlotReadsNext ==
  ASSUME KeptInv', NEW s \in Slots, NEW i \in Issues, ref'[s] = i
  PROVE  s \in held' \cup open' /\ Stages'[i] = SlotStage(s)'
<1>1. i # NoIssue BY IssuesAssumption
<1>2. s \in held' \cup open' BY <1>1 DEF KeptInv, DispatchInv, Ownership
<1> QED BY <1>2, StagesReadNext DEF Reads

\* Nothing the mapping reads has changed.
LEMMA SameStages ==
  ASSUME UNCHANGED <<ref, inSetup, open, admitted, parked, worked, charged>>
  PROVE  UNCHANGED <<Stages, ChargedIssues>>
<1>1. ParkedSlots' = ParkedSlots BY DEF ParkedSlots
<1>2. \A i \in Issues : Stage(i)' = Stage(i)
  BY <1>1 DEF Stage, Owns, StandsFor
<1> QED BY <1>2 DEF Stages, ChargedIssues

-----------------------------------------------------------------------------
(* The bounds the promise states, over issues instead of slots.            *)

LEMMA StagesOfSlots ==
  ASSUME KeptInv
  PROVE  /\ Promise!Lanes = {ref[s] : s \in held}
         /\ Promise!In({"setup"}) = {ref[s] : s \in held \ open}
         /\ Promise!In({"parked"}) = {ref[s] : s \in ParkedSlots}
         /\ Promise!In({"backlog"}) = {ref[s] : s \in admitted}
         /\ Promise!Open = {ref[s] : s \in open}
<1> DEFINE used == held \cup open
<1>1. /\ used \subseteq Slots /\ admitted \subseteq open /\ admitted \cap held = {}
      /\ ParkedSlots \subseteq held \cap open /\ open \subseteq admitted \cup held
      /\ \A s \in used : ref[s] \in Issues
  BY DEF KeptInv, DispatchInv, TypeOK, SchedTypeOK, Ownership
<1>2. \A s \in used : Stages[ref[s]] = SlotStage(s)
  BY <1>1, StagesRead DEF Reads
<1>3. \A i \in Issues : Stages[i] \notin {"done", "free"} => \E s \in used : ref[s] = i
  BY StagesRead DEF Reads, Claimed
<1>4. \A s \in used :
        /\ SlotStage(s) \in {"setup", "session", "parked", "backlog"}
        /\ SlotStage(s) # "backlog" <=> s \in held
        /\ SlotStage(s) = "setup" <=> s \in held \ open
        /\ SlotStage(s) = "parked" <=> s \in ParkedSlots
        /\ SlotStage(s) = "backlog" <=> s \in admitted
        /\ SlotStage(s) # "setup" <=> s \in open
  BY <1>1 DEF SlotStage
<1> HIDE DEF used
<1>5. ASSUME NEW X, NEW T, T \subseteq used,
             X \subseteq {"setup", "session", "parked", "backlog"},
             \A s \in used : SlotStage(s) \in X <=> s \in T
      PROVE  Promise!In(X) = {ref[s] : s \in T}
  BY <1>1, <1>2, <1>3, <1>5 DEF Promise!In
<1>6. Promise!Lanes = {ref[s] : s \in held}
  BY <1>4, <1>5 DEF Promise!Lanes, used
<1>7. Promise!In({"setup"}) = {ref[s] : s \in held \ open}
  <2>1. held \ open \subseteq used BY DEF used
  <2>2. \A s \in used : SlotStage(s) \in {"setup"} <=> s \in held \ open BY <1>4
  <2> QED BY <1>5, <2>1, <2>2
<1>8. Promise!In({"parked"}) = {ref[s] : s \in ParkedSlots}
  BY <1>1, <1>4, <1>5 DEF used
<1>9. Promise!In({"backlog"}) = {ref[s] : s \in admitted}
  BY <1>1, <1>4, <1>5 DEF used
<1>10. Promise!Open = {ref[s] : s \in open}
  BY <1>4, <1>5 DEF Promise!Open, used
<1> QED BY <1>6, <1>7, <1>8, <1>9, <1>10

\* Each set of slots counts its issues.
LEMMA PromiseBounds ==
  ASSUME KeptInv
  PROVE  /\ Cardinality(Promise!Lanes) <= Cardinality(held)
         /\ Cardinality(Promise!In({"setup"})) <= Cardinality(held)
         /\ Cardinality(Promise!In({"backlog"})) = Cardinality(admitted)
         /\ Cardinality(Promise!Lanes) \in Nat
         /\ Cardinality(Promise!In({"setup"})) \in Nat
<1>1. held \subseteq Slots /\ held \ open \subseteq Slots /\ admitted \subseteq Slots
      /\ admitted \subseteq open /\ \A s \in held \cup open : ref[s] \in Issues
      /\ ref \in [Slots -> Issues \cup {NoIssue}]
  BY DEF KeptInv, DispatchInv, TypeOK, SchedTypeOK, Ownership
<1>2. Cardinality(Promise!Lanes) <= Cardinality(held)
  BY <1>1, StagesOfSlots, RefImage
<1>3. Cardinality(Promise!In({"setup"})) <= Cardinality(held)
  <2>1. Cardinality(Promise!In({"setup"})) <= Cardinality(held \ open)
    BY <1>1, StagesOfSlots, RefImage
  <2>2. Cardinality(held \ open) <= Cardinality(held) BY <1>1, SlotSets, FS_Subset
  <2>3. Cardinality(held \ open) \in Nat /\ Cardinality(held) \in Nat
    BY <1>1, SlotSets
  <2>4. Cardinality(Promise!In({"setup"})) \in Nat
    BY IssueSets DEF Promise!In
  <2> QED BY <2>1, <2>2, <2>3, <2>4
<1>4. Cardinality(Promise!In({"backlog"})) = Cardinality(admitted)
  <2> DEFINE B == {ref[s] : s \in admitted}
             f == [s \in admitted |-> ref[s]]
  <2>1. f \in Bijection(admitted, B)
    <3>1. \A s, u \in admitted : ref[s] = ref[u] => s = u
      BY <1>1, IssuesAssumption DEF KeptInv, DispatchInv, Ownership, OneOwner
    <3>2. f \in Injection(admitted, B)
      BY <3>1 DEF Injection, IsInjective
    <3>3. f \in Surjection(admitted, B) BY DEF Surjection
    <3> QED BY <3>2, <3>3 DEF Bijection
  <2>2. IsFiniteSet(admitted) BY <1>1, SlotSets
  <2>3. B = Promise!In({"backlog"}) BY StagesOfSlots
  <2>4. f \in Surjection(admitted, B) /\ f \in Injection(admitted, B)
    BY <2>1 DEF Bijection
  <2> HIDE DEF f, B
  <2> QED BY <2>2, <2>3, <2>4, FS_Surjection
<1>5. Promise!Lanes \subseteq Issues /\ Promise!In({"setup"}) \subseteq Issues
  BY DEF Promise!Lanes, Promise!In
<1> QED BY <1>2, <1>3, <1>4, <1>5, IssueSets

\* The promise counts with an instance of the same definition.
LEMMA SameCount == ASSUME NEW S PROVE Promise!Cardinality(S) = Cardinality(S)
BY DEF Promise!Cardinality, Cardinality

LEMMA RoomIsRoom ==
  ASSUME KeptInv PROVE Promise!RoomInBacklog <=> Cardinality(admitted) < HighWater
BY PromiseBounds, SameCount DEF Promise!RoomInBacklog

LEMMA LanesOwnBase ==
  ASSUME driver \notin {"serial", "lastlook", "over"} PROVE BaseOwner = "lanes"
BY DEF BaseOwner

LEMMA LanesOwnBaseNext ==
  ASSUME driver' \notin {"serial", "lastlook", "over"} PROVE BaseOwner' = "lanes"
BY DEF BaseOwner

-----------------------------------------------------------------------------
(* Every step keeps the promise.                                           *)

Keeps == ChargedIsFinished' /\ SetupIsUnworked' /\ [Promise!Next]_(Promise!vars)

\* A step that the promise does not see.
Unseen ==
  /\ UNCHANGED <<ref, held, inSetup, open, admitted, parked, worked, unitsSpent,
                 stopLatched, charged, strikes>>
  /\ BaseOwner' = BaseOwner

LEMMA UnseenKeeps == ASSUME KeptInv, Unseen PROVE Keeps
<1>1. ParkedSlots' = ParkedSlots BY DEF Unseen, ParkedSlots
<1>2. ChargedIsFinished' /\ SetupIsUnworked'
  BY <1>1 DEF Unseen, KeptInv, ChargedIsFinished, SetupIsUnworked
<1>3. UNCHANGED <<Stages, ChargedIssues>> BY SameStages DEF Unseen
<1> QED BY <1>2, <1>3 DEF Keeps, Unseen, Promise!vars

LEMMA DriverUnseen ==
  ASSUME KeptInv,
         \/ TurnEnds \/ TurnWaitsOut \/ PriorityLooked \/ ReserveEnds
         \/ \E looks \in BOOLEAN : TurnDispatches(looks)
         \/ \E demand, complete \in BOOLEAN : Peek(demand, complete)
         \/ AwaitCapacity \/ Poll \/ Wake
         \/ \E outcome \in {"none", "empty_pool", "refused"} :
              Idle(outcome) /\ driver' # "lastlook"
  PROVE  Keeps
<1>1. driver \notin {"serial", "lastlook", "over"} /\ driver' \notin {"serial", "lastlook", "over"}
  BY DEF TurnEnds, TurnWaitsOut, TurnDispatches, PriorityLooked, ReserveEnds, Peek,
     AwaitCapacity, Poll, Wake, Idle
<1>2. UNCHANGED <<ref, held, inSetup, open, admitted, parked, worked, unitsSpent,
                  stopLatched, charged, strikes>>
  BY DEF TurnEnds, TurnWaitsOut, TurnDispatches, PriorityLooked, ReserveEnds,
     SpendRefillTurn, Peek, RequestSerial, AwaitCapacity, Poll, Wake, Idle, schedVars, ledgerVars
<1> QED BY <1>1, <1>2, UnseenKeeps, LanesOwnBase, LanesOwnBaseNext DEF Unseen

LEMMA LaneUnseen ==
  ASSUME KeptInv, NEW t \in Tasks,
         LaneTakesLease(t) \/ LaneRaises(t) \/ LaneCancelled(t)
  PROVE  Keeps
<1>1. /\ driver' = driver
      /\ UNCHANGED <<schedVars, charged, strikes>>
  BY DEF LaneTakesLease, LaneRaises, LaneCancelled, driverVars, ledgerVars
<1>2. BaseOwner' = BaseOwner BY <1>1 DEF BaseOwner
<1> QED BY <1>1, <1>2, UnseenKeeps DEF Unseen, schedVars

LEMMA StopKeeps == ASSUME KeptInv, RequestStop PROVE Keeps
<1>1. /\ ~stopLatched /\ stopLatched' = TRUE /\ driver' = driver
      /\ UNCHANGED <<ref, held, inSetup, open, admitted, parked, worked, unitsSpent,
                     charged, strikes>>
  BY DEF RequestStop, RequestStopDrain, driverVars, ledgerVars
<1>2. ParkedSlots' = ParkedSlots BY <1>1 DEF ParkedSlots
<1>3. ChargedIsFinished' /\ SetupIsUnworked'
  BY <1>1, <1>2 DEF KeptInv, ChargedIsFinished, SetupIsUnworked
<1>4. UNCHANGED <<Stages, ChargedIssues>> BY <1>1, SameStages
<1>5. BaseOwner' = BaseOwner BY <1>1 DEF BaseOwner
<1>6. Promise!Stop BY <1>1, <1>4, <1>5 DEF Promise!Stop
<1> QED BY <1>3, <1>6 DEF Keeps, Promise!Next

LEMMA SameCharges ==
  ASSUME charged' = charged, \A s \in charged : ref'[s] = ref[s]
  PROVE  ChargedIssues' = ChargedIssues
BY DEF ChargedIssues

\* Nothing that stands for a reservation or a running session is charged.
LEMMA UnchargedSlots ==
  ASSUME KeptInv
  PROVE  /\ charged \subseteq open
         /\ charged \cap (held \ ParkedSlots) = {}
BY DEF KeptInv, ChargedIsFinished, DispatchInv, Ownership

LEMMA ChargedReads ==
  ASSUME KeptInv, NEW s \in Slots, ref[s] # NoIssue
  PROVE  ref[s] \in ChargedIssues <=> s \in charged
<1>1. charged \subseteq Slots BY DEF KeptInv, DispatchInv, TypeOK
<1> QED BY <1>1, OneClaim DEF ChargedIssues

LEMMA ReserveLaneKeeps ==
  ASSUME KeptInv, NEW i \in Issues, ReserveLane(i) PROVE Keeps
<1>1. driver = "reserve" /\ Refillable(limit) > 0 /\ Eligible(i) /\ DispatchInv
  BY DEF ReserveLane, KeptInv
<1>2. PICK s \in FreeSlots : s = Lowest(FreeSlots)
  <2>1. FreeSlots \subseteq Nat BY SlotsFinite DEF FreeSlots
  <2> QED BY <1>1, <2>1, RoomToReserve, LowestIn
<1>3. /\ ref' = [ref EXCEPT ![s] = i] /\ held' = held \cup {s}
      /\ inSetup' = inSetup \cup {i}
      /\ UNCHANGED <<open, admitted, parked, worked, unitsSpent, stopLatched,
                     driver, charged, strikes>>
  BY <1>2 DEF ReserveLane, Reserve, driverVars, ledgerVars
<1>4. /\ s \in Slots /\ ref[s] = NoIssue /\ ref'[s] = i /\ s \notin held \cup open
      /\ strikes[i] < MaxStrikes /\ i \notin inSetup \cup worked
  BY <1>1, <1>3 DEF FreeSlots, Eligible, Owns, DispatchInv, Ownership, TypeOK, SchedTypeOK
<1>5. ParkedSlots' = ParkedSlots BY <1>3 DEF ParkedSlots
<1>6. ChargedIsFinished' /\ SetupIsUnworked'
  BY <1>3, <1>4, <1>5 DEF KeptInv, ChargedIsFinished, SetupIsUnworked
<1>7. KeptInv' BY <1>1, <1>6, ReserveLaneInv DEF KeptInv
<1>8. OneSlot(s, i) BY <1>3, <1>4, <1>5 DEF OneSlot, Untouched
<1>9. Stages'[i] = "setup"
  BY <1>3, <1>4, <1>7, SlotReadsNext DEF SlotStage
<1>10. Stages[i] = "free"
  <2>1. ~Claimed(i) BY <1>1, <1>4 DEF Claimed, DispatchInv, Ownership
  <2> QED BY <1>4, <2>1, StagesRead DEF Reads
<1>11. Stages' = [Stages EXCEPT ![i] = "setup"]
  BY <1>4, <1>7, <1>8, <1>9, OneMoves
<1>12. /\ Cardinality(Promise!Lanes) < LaneCap
       /\ unitsSpent + Cardinality(Promise!In({"setup"})) < MaxIterations
       /\ Promise!RoomInBacklog /\ ~stopLatched
  <2>1. /\ Cardinality(held) < limit /\ limit <= LaneCap
        /\ unitsSpent + Cardinality(held) < MaxIterations
        /\ Cardinality(admitted) < HighWater /\ ~stopLatched
    BY <1>1, RefillableRoom, DispatchSched DEF DispatchInv, TypeOK
  <2>2. /\ Cardinality(held) \in Nat /\ limit \in Int /\ LaneCap \in Int
        /\ unitsSpent \in Int /\ MaxIterations \in Int
    BY <1>1, LimitsAssumption, CapAssumption, SlotSets
    DEF DispatchInv, TypeOK, SchedTypeOK
  <2> QED BY <2>1, <2>2, PromiseBounds, RoomIsRoom
<1>13. ChargedIssues' = ChargedIssues
  BY <1>3, <1>4, SameCharges, UnchargedSlots
<1>14. BaseOwner = "lanes" /\ BaseOwner' = "lanes"
  BY <1>1, <1>3 DEF BaseOwner
<1>15. Promise!Reserve(i)
  BY <1>3, <1>4, <1>10, <1>11, <1>12, <1>13, <1>14, SameCount DEF Promise!Reserve
<1> QED BY <1>6, <1>15 DEF Keeps, Promise!Next

\* A reservation that is released.
LEMMA ReleaseKeeps ==
  ASSUME KeptInv, DispatchInv', NEW s \in held \ open, Release(s),
         UNCHANGED <<driver, charged, strikes>>,
         driver \notin {"serial", "lastlook", "over"}
  PROVE  Keeps
<1> DEFINE i == ref[s]
<1>1. /\ ref' = [ref EXCEPT ![s] = NoIssue] /\ held' = held \ {s}
      /\ inSetup' = inSetup \ {i}
      /\ UNCHANGED <<open, admitted, parked, worked, unitsSpent, stopLatched>>
  BY DEF Release
<1>2. /\ s \in Slots /\ i \in Issues /\ i \in inSetup /\ i \notin worked
      /\ ref'[s] = NoIssue
  BY <1>1 DEF KeptInv, SetupIsUnworked, DispatchInv, Ownership, TypeOK, SchedTypeOK
<1>3. ParkedSlots' = ParkedSlots BY <1>1 DEF ParkedSlots
<1>4. ChargedIsFinished' /\ SetupIsUnworked'
  BY <1>1, <1>3 DEF KeptInv, ChargedIsFinished, SetupIsUnworked
<1>5. KeptInv' BY <1>4 DEF KeptInv
<1> HIDE DEF i
<1>6. ref[s] = i BY DEF i
<1>7. OneSlot(s, i) BY <1>1, <1>2, <1>3, <1>6 DEF OneSlot, Untouched
<1>8. Stages[i] = "setup" BY <1>2, <1>6, SlotReads DEF SlotStage
<1>9. Stages'[i] = "free" BY <1>1, <1>2, <1>5, <1>6, <1>7, Given
<1>10. Stages' = [Stages EXCEPT ![i] = "free"]
  BY <1>2, <1>5, <1>7, <1>9, OneMoves
<1>11. ChargedIssues' = ChargedIssues
  BY <1>1, SameCharges, UnchargedSlots
<1>12. BaseOwner = "lanes" /\ BaseOwner' = "lanes" BY DEF BaseOwner
<1>13. Promise!GiveUp(i)
  BY <1>1, <1>8, <1>10, <1>11, <1>12 DEF Promise!GiveUp
<1> QED BY <1>2, <1>4, <1>13 DEF Keeps, Promise!Next

LEMMA LaneRefusedKeeps ==
  ASSUME KeptInv, NEW t \in Tasks, LaneRefused(t) PROVE Keeps
<1>1. /\ t \in Live /\ driver \in Waiting /\ pc[t] \in Reserving
  BY LaneRuns DEF LaneRefused, Reserving, KeptInv
<1>2. at[t] \in held \ open BY <1>1, OwnSlot DEF KeptInv
<1>3. DispatchInv' BY LaneRefusedInv DEF KeptInv
<1> QED BY <1>1, <1>2, <1>3, ReleaseKeeps DEF LaneRefused, driverVars, Waiting

LEMMA LaneSetupFailsKeeps ==
  ASSUME KeptInv, NEW t \in Tasks, NEW refuse \in BOOLEAN, LaneSetupFails(t, refuse)
  PROVE  Keeps
<1>1. /\ t \in Live /\ driver \in Waiting /\ pc[t] \in Reserving
  BY LaneRuns DEF LaneSetupFails, Reserving, KeptInv
<1>2. at[t] \in held \ open BY <1>1, OwnSlot DEF KeptInv
<1>3. DispatchInv' BY LaneSetupFailsInv DEF KeptInv
<1> QED BY <1>1, <1>2, <1>3, ReleaseKeeps DEF LaneSetupFails, driverVars, Waiting

LEMMA LaneStartsKeeps ==
  ASSUME KeptInv, NEW t \in Tasks, LaneStarts(t) PROVE Keeps
<1> DEFINE s == at[t]
           i == ref[s]
<1>1. /\ t \in Live /\ driver \in Waiting /\ pc[t] \in Reserving
  BY LaneRuns DEF LaneStarts, Reserving, KeptInv
<1>2. s \in held \ open BY <1>1, OwnSlot DEF KeptInv
<1>3. DispatchInv' BY LaneStartsInv DEF KeptInv
<1>4. /\ unitsSpent' = unitsSpent + 1 /\ inSetup' = inSetup \ {i}
      /\ worked' = worked \cup {i} /\ open' = open \cup {s} /\ ~stopLatched
      /\ UNCHANGED <<ref, held, admitted, parked, stopLatched, driver, charged, strikes>>
  BY DEF LaneStarts, StartSession, driverVars, ledgerVars
<1> HIDE DEF s
<1>5. /\ s \in Slots /\ i \in Issues /\ s \notin admitted \cup ParkedSlots
  BY <1>2 DEF KeptInv, DispatchInv, Ownership, TypeOK, SchedTypeOK
<1>6. ParkedSlots' = ParkedSlots BY <1>4 DEF ParkedSlots
<1>7. ChargedIsFinished' /\ SetupIsUnworked'
  BY <1>4, <1>6 DEF KeptInv, ChargedIsFinished, SetupIsUnworked
<1>8. KeptInv' BY <1>3, <1>7 DEF KeptInv
<1> HIDE DEF i
<1>9. ref[s] = i /\ ref'[s] = i BY <1>4 DEF i
<1>10. OneSlot(s, i) BY <1>4, <1>5, <1>6, <1>9 DEF OneSlot, Untouched
<1>11. Stages[i] = "setup" BY <1>2, <1>5, <1>9, SlotReads DEF SlotStage
<1>12. Stages'[i] = "session"
  BY <1>4, <1>5, <1>6, <1>8, <1>9, SlotReadsNext DEF SlotStage
<1>13. Stages' = [Stages EXCEPT ![i] = "session"]
  BY <1>5, <1>8, <1>10, <1>12, OneMoves
<1>14. ChargedIssues' = ChargedIssues BY <1>4, SameCharges
<1>15. BaseOwner = "lanes" /\ BaseOwner' = "lanes"
  BY <1>1, <1>4 DEF BaseOwner, Waiting
<1>16. Promise!Start(i)
  BY <1>4, <1>11, <1>13, <1>14, <1>15 DEF Promise!Start
<1> QED BY <1>5, <1>7, <1>16 DEF Keeps, Promise!Next

\* The session of slot s ends; what becomes of its issue i differs.
LEMMA SessionSlot ==
  ASSUME KeptInv, NEW t \in Tasks, Runs(t, "session")
  PROVE  /\ at[t] \in Slots /\ at[t] \in (held \cap open) \ ParkedSlots
         /\ issue[t] \in Issues /\ ref[at[t]] = issue[t]
         /\ at[t] \notin admitted \cup charged
         /\ strikes[issue[t]] < MaxStrikes /\ issue[t] \in worked
         /\ Stages[issue[t]] = "session" /\ BaseOwner = "lanes"
<1>1. t \in Live /\ driver \in Waiting /\ pc[t] = "session"
  BY LaneRuns DEF KeptInv
<1>2. /\ at[t] \in Slots /\ at[t] \in (held \cap open) \ ParkedSlots
      /\ issue[t] \in Issues /\ ref[at[t]] = issue[t]
      /\ strikes[issue[t]] < MaxStrikes
  BY <1>1, OwnSlot DEF KeptInv
<1>3. at[t] \notin admitted \cup charged /\ issue[t] \in worked
  BY <1>2, UnchargedSlots DEF KeptInv, DispatchInv, Ownership
<1>4. Stages[issue[t]] = "session" BY <1>2, <1>3, SlotReads DEF SlotStage
<1>5. BaseOwner = "lanes" BY <1>1 DEF BaseOwner, Waiting
<1> QED BY <1>2, <1>3, <1>4, <1>5

LEMMA SessionClosesKeeps ==
  ASSUME KeptInv, NEW t \in Tasks, NEW reoffer \in BOOLEAN,
         NEW strike \in BOOLEAN, NEW gaveUp \in BOOLEAN,
         SessionCloses(t, reoffer, strike, gaveUp)
  PROVE  Keeps
<1> DEFINE s == at[t]
           i == issue[t]
<1>1. /\ s \in Slots /\ s \in (held \cap open) \ ParkedSlots
      /\ i \in Issues /\ ref[s] = i /\ s \notin admitted \cup charged
      /\ strikes[i] < MaxStrikes /\ i \in worked
      /\ Stages[i] = "session" /\ BaseOwner = "lanes"
  BY SessionSlot DEF SessionCloses
<1>2. DispatchInv' BY SessionClosesInv DEF KeptInv
<1>3. /\ ref' = [ref EXCEPT ![s] = NoIssue] /\ open' = open \ {s} /\ held' = held \ {s}
      /\ admitted' = admitted \ {s} /\ parked' = {p \in parked : p.slot # s}
      /\ unitsSpent' = IF reoffer THEN unitsSpent - 1 ELSE unitsSpent
      /\ worked' = IF reoffer \/ strike THEN worked \ {ref[s]} ELSE worked
      /\ strikes' = IF strike THEN [strikes EXCEPT ![i] = @ + 1] ELSE strikes
      /\ reoffer => ~strike
      /\ UNCHANGED <<inSetup, stopLatched, driver, charged>>
  BY DEF SessionCloses, FinishTerminal, ReleaseAttempt, Charge, driverVars
<1> HIDE DEF s, i
<1>4. parked' = parked /\ ParkedSlots' = ParkedSlots /\ admitted' = admitted
  BY <1>1, <1>3 DEF ParkedSlots
<1>5. ChargedIsFinished' /\ SetupIsUnworked'
  BY <1>3, <1>4 DEF KeptInv, ChargedIsFinished, SetupIsUnworked
<1>6. KeptInv' BY <1>2, <1>5 DEF KeptInv
<1>7. ref'[s] = NoIssue /\ OneSlot(s, i)
  BY <1>1, <1>3, <1>4
  DEF OneSlot, Untouched, KeptInv, DispatchInv, TypeOK, SchedTypeOK
<1>8. Stages'[i] = IF reoffer \/ strike THEN "free" ELSE "done"
  BY <1>1, <1>3, <1>6, <1>7, Given
<1>9. Stages' = [Stages EXCEPT ![i] = IF reoffer \/ strike THEN "free" ELSE "done"]
  BY <1>1, <1>6, <1>7, <1>8, OneMoves
<1>10. ChargedIssues' = ChargedIssues BY <1>1, <1>3, SameCharges
<1>11. BaseOwner' = "lanes" BY <1>1, <1>3 DEF BaseOwner
<1>12. Promise!SessionEnds(i)
  <2>1. CASE reoffer
    BY <1>1, <1>3, <1>9, <1>10, <1>11, <2>1 DEF Promise!SessionEnds
  <2>2. CASE ~reoffer
    <3>1. Promise!Strike(i, strike) BY <1>1, <1>3 DEF Promise!Strike
    <3> QED BY <1>1, <1>3, <1>9, <1>10, <1>11, <2>2, <3>1 DEF Promise!SessionEnds
  <2> QED BY <2>1, <2>2
<1> QED BY <1>1, <1>5, <1>12 DEF Keeps, Promise!Next

\* A finished contribution goes to the backlog, or parks behind a full one.
LEMMA ChangesKeep ==
  ASSUME KeptInv, DispatchInv', NEW t \in Tasks, NEW strike \in BOOLEAN,
         Runs(t, "session"), Charge(issue[t], strike),
         charged' = IF strike THEN charged \cup {at[t]} ELSE charged,
         UNCHANGED <<driver, ref, inSetup, open, worked, unitsSpent, stopLatched>>,
         Untouched({at[t]}),
         \/ /\ Cardinality(admitted) < HighWater /\ at[t] \in admitted'
            /\ at[t] \notin ParkedSlots'
         \/ /\ ~(Cardinality(admitted) < HighWater) /\ at[t] \in ParkedSlots'
            /\ at[t] \notin admitted'
  PROVE  Keeps
<1> DEFINE s == at[t]
           i == issue[t]
<1>1. /\ s \in Slots /\ s \in open /\ i \in Issues /\ ref[s] = i
      /\ strikes[i] < MaxStrikes
      /\ Stages[i] = "session" /\ BaseOwner = "lanes"
  BY SessionSlot
<1>2. strikes' = IF strike THEN [strikes EXCEPT ![i] = @ + 1] ELSE strikes
  BY DEF Charge
<1>3. charged' = IF strike THEN charged \cup {s} ELSE charged OBVIOUS
<1>4. /\ s \in admitted' \cup ParkedSlots' /\ Untouched({s})
      /\ ref' = ref /\ open' = open
      /\ Cardinality(admitted) < HighWater <=> s \in admitted'
      /\ s \in admitted' => s \notin ParkedSlots'
  OBVIOUS
<1> HIDE DEF s, i
<1>5. ChargedIsFinished' /\ SetupIsUnworked'
  <2>1. charged \subseteq Slots /\ charged' \subseteq Slots
    BY DEF KeptInv, DispatchInv, TypeOK
  <2> QED
    BY <1>3, <1>4, <2>1 DEF KeptInv, ChargedIsFinished, SetupIsUnworked, Untouched
<1>6. KeptInv' BY <1>5 DEF KeptInv
<1>7. OneSlot(s, i) BY <1>1, <1>4 DEF OneSlot
<1>8. Stages'[i] = IF Promise!RoomInBacklog THEN "backlog" ELSE "parked"
  <2>1. Stages'[i] = IF s \in admitted' THEN "backlog" ELSE "parked"
    BY <1>1, <1>4, <1>6, SlotReadsNext DEF SlotStage
  <2>2. Promise!RoomInBacklog <=> s \in admitted' BY <1>4, RoomIsRoom
  <2> QED BY <2>1, <2>2
<1>9. Stages' = [Stages EXCEPT ![i] = IF Promise!RoomInBacklog THEN "backlog" ELSE "parked"]
  BY <1>1, <1>6, <1>7, <1>8, OneMoves
<1>10. ChargedIssues' = IF strike THEN ChargedIssues \cup {i} ELSE ChargedIssues
  BY <1>1, <1>3 DEF ChargedIssues
<1>11. BaseOwner' = "lanes" BY <1>1 DEF BaseOwner
<1>12. Promise!Strike(i, strike) BY <1>1, <1>2 DEF Promise!Strike
<1>13. Promise!SessionEnds(i)
  BY <1>1, <1>9, <1>10, <1>11, <1>12 DEF Promise!SessionEnds
<1> QED BY <1>1, <1>5, <1>13 DEF Keeps, Promise!Next

LEMMA SessionAdmittedKeeps ==
  ASSUME KeptInv, NEW t \in Tasks, NEW strike \in BOOLEAN, SessionAdmitted(t, strike)
  PROVE  Keeps
<1>1. DispatchInv' BY SessionAdmittedInv DEF KeptInv
<1>2. FinishAdmitted(at[t]) /\ Runs(t, "session") BY DEF SessionAdmitted
<1>3. at[t] \notin ParkedSlots BY <1>2, SessionSlot
<1>4. ParkedSlots' = ParkedSlots BY <1>2 DEF ParkedSlots, FinishAdmitted
<1>5. Untouched({at[t]}) BY <1>2, <1>4 DEF Untouched, FinishAdmitted
<1> QED
  BY <1>1, <1>2, <1>3, <1>4, <1>5, ChangesKeep DEF SessionAdmitted, FinishAdmitted

LEMMA SessionParkedKeeps ==
  ASSUME KeptInv, NEW t \in Tasks, NEW strike \in BOOLEAN, SessionParked(t, strike)
  PROVE  Keeps
<1>1. DispatchInv' BY SessionParkedInv DEF KeptInv
<1>2. FinishParked(at[t]) /\ Runs(t, "session") BY DEF SessionParked
<1>3. at[t] \notin admitted' BY <1>2, SessionSlot DEF FinishParked
<1>4. /\ at[t] \in ParkedSlots'
      /\ \A s \in Slots \ {at[t]} : s \in ParkedSlots' <=> s \in ParkedSlots
  <2> DEFINE p == [turn |-> turn, slot |-> at[t]]
  <2>1. parked' = parked \cup {p} /\ p.slot = at[t] BY <1>2 DEF FinishParked
  <2> HIDE DEF p
  <2> QED BY <2>1 DEF ParkedSlots
<1>5. Untouched({at[t]}) BY <1>2, <1>4 DEF Untouched, FinishParked
<1>6. ~(Cardinality(admitted) < HighWater)
  <2>1. Cardinality(admitted) \in Nat
    BY SlotSets DEF KeptInv, DispatchInv, TypeOK, SchedTypeOK
  <2> QED BY <1>2, <2>1 DEF FinishParked, HighWater
<1> QED
  BY <1>1, <1>2, <1>3, <1>4, <1>5, <1>6, ChangesKeep
  DEF SessionParked, FinishParked, driverVars

\* A place in the backlog that gets free goes to a parked contribution, if any.
LEMMA FinalizeKeeps ==
  ASSUME KeptInv, DispatchInv', NEW s \in admitted, NEW published \in BOOLEAN,
         Finalize(s, published, s \in charged), charged' = charged \ {s},
         UNCHANGED <<driver, strikes>>,
         driver \notin {"serial", "lastlook", "over"}
  PROVE  Keeps
<1> DEFINE newly == Drained(admitted \ {s})
           moved == {p.slot : p \in newly}
           i == ref[s]
<1>1. /\ ref' = [ref EXCEPT ![s] = NoIssue] /\ open' = open \ {s}
      /\ admitted' = (admitted \ {s}) \cup moved /\ parked' = parked \ newly
      /\ worked' = IF s \in charged THEN worked \ {i} ELSE worked
      /\ UNCHANGED <<inSetup, unitsSpent, stopLatched>>
  BY DEF Finalize, ReleaseAttempt
<1>2. /\ Untouched({s} \cup moved) /\ moved \subseteq ParkedSlots
      /\ moved \subseteq admitted' /\ ref'[s] = NoIssue /\ s \in Slots
  BY FinalizeTouches, DispatchSched DEF KeptInv
<1>3. /\ parked = {} => newly = {}
      /\ parked # {} => \E p \in parked : newly = {p}
  BY DrainedIsFirst, DispatchSched DEF KeptInv
<1> HIDE DEF newly
<1>4. newly = {} => moved = {} OBVIOUS
<1>5. ASSUME NEW p, newly = {p} PROVE moved = {p.slot} BY <1>5
<1>6. /\ i \in Issues /\ i # NoIssue /\ i \in worked /\ s \notin ParkedSlots
      /\ ParkedSlots \subseteq Slots /\ ParkedSlots \subseteq open
      /\ \A u \in Slots \ {s} : ref[u] # i
  BY <1>2, OneClaim, IssuesAssumption
  DEF KeptInv, DispatchInv, Ownership, TypeOK, SchedTypeOK
<1> HIDE DEF moved, i
<1>7. ref[s] = i /\ \A u \in Slots \ {s} : ref'[u] = ref[u]
  BY <1>1, <1>2 DEF i, KeptInv, DispatchInv, TypeOK, SchedTypeOK
<1>8. ChargedIsFinished' /\ SetupIsUnworked'
  <2>1. charged \subseteq Slots BY DEF KeptInv, DispatchInv, TypeOK
  <2>2. charged' \subseteq admitted' \cup ParkedSlots'
    BY <1>2, <2>1 DEF KeptInv, ChargedIsFinished, Untouched
  <2> QED BY <1>1, <2>2 DEF KeptInv, ChargedIsFinished, SetupIsUnworked
<1>9. KeptInv' BY <1>8 DEF KeptInv
<1>10. Stages[i] = "backlog"
  <2>1. s \in open BY DEF KeptInv, DispatchInv, Ownership
  <2> QED BY <1>2, <1>6, <1>7, <2>1, SlotReads DEF SlotStage
<1>11. Stages'[i] = Promise!Closed(i)
  <2>1. \A u \in Slots : ref'[u] # i BY <1>2, <1>6, <1>7
  <2>2. Stages'[i] = IF i \in worked' THEN "done" ELSE "free"
    BY <1>6, <1>9, <2>1, Unclaimed
  <2>3. i \in ChargedIssues <=> s \in charged BY <1>2, <1>6, <1>7, ChargedReads
  <2> QED BY <1>1, <1>6, <2>2, <2>3 DEF Promise!Closed
<1>12. ChargedIssues' = ChargedIssues \ {i}
  <2>1. charged \subseteq Slots BY DEF KeptInv, DispatchInv, TypeOK
  <2> QED BY <1>6, <1>7, <2>1 DEF ChargedIssues
<1>13. BaseOwner = "lanes" /\ BaseOwner' = "lanes" BY DEF BaseOwner
<1>14. worked' \ {i} = worked \ {i} BY <1>1
<1>15. Promise!Integrate(i)
  <2>1. CASE parked = {}
    <3>1. moved = {} BY <1>3, <1>4, <2>1
    <3>2. OneSlot(s, i) BY <1>2, <1>7, <1>14, <3>1 DEF OneSlot
    <3>3. Stages' = [Stages EXCEPT ![i] = Promise!Closed(i)]
      BY <1>2, <1>6, <1>9, <1>11, <3>2, OneMoves
    <3>4. Promise!In({"parked"}) = {} BY <2>1, StagesOfSlots DEF ParkedSlots
    <3> QED
      BY <1>1, <1>10, <1>12, <1>13, <3>3, <3>4 DEF Promise!Integrate
  <2>2. CASE parked # {}
    <3>1. PICK p \in parked : newly = {p} BY <1>3, <2>2
    <3> DEFINE u == p.slot
               j == ref[u]
    <3>2. moved = {u} /\ u \in ParkedSlots /\ u \in Slots /\ u # s
      BY <1>2, <1>5, <1>6, <3>1
    <3> HIDE DEF u
    <3>3. j \in Promise!In({"parked"}) BY <3>2, StagesOfSlots
    <3>4. j \in Issues /\ j # i BY <1>6, <3>2, <3>3 DEF Promise!In
    <3>5. u \in open' /\ u \in admitted' /\ ref'[u] = j
      BY <1>1, <1>2, <1>6, <1>7, <3>2
    <3> HIDE DEF j
    <3>6. Stages'[j] = "backlog"
      BY <1>9, <3>2, <3>4, <3>5, SlotReadsNext DEF SlotStage
    <3>7. ASSUME NEW k \in Issues, k # i, k # j PROVE Stages'[k] = Stages[k]
      <4>1. k # NoIssue BY IssuesAssumption
      <4>2. ref[u] = j BY <1>7, <3>2, <3>5
      <4>3. \A v \in {s, u} : ref[v] # k /\ ref'[v] # k
        BY <1>2, <1>7, <3>5, <3>7, <4>1, <4>2
      <4>4. Untouched({s, u}) /\ {s, u} \subseteq Slots
        <5>1. {s} \cup moved = {s, u} BY <3>2
        <5> QED BY <1>2, <3>2, <5>1
      <4>5. k \in worked' <=> k \in worked BY <1>14, <3>7
      <4> QED BY <1>9, <4>3, <4>4, <4>5, OthersStay
    <3>8. Stages' = [Stages EXCEPT ![i] = Promise!Closed(i), ![j] = "backlog"]
      BY <1>6, <1>11, <3>4, <3>6, <3>7, StagesAreFunction
    <3> QED
      BY <1>1, <1>10, <1>12, <1>13, <3>3, <3>8 DEF Promise!Integrate
  <2> QED BY <2>1, <2>2
<1> QED BY <1>6, <1>8, <1>15 DEF Keeps, Promise!Next

LEMMA IntegrationKeeps ==
  ASSUME KeptInv, NEW t \in Tasks, NEW published \in BOOLEAN, NEW closes \in BOOLEAN,
         IntegrationEnds(t, published, closes) \/ PublicationPending(t, published)
  PROVE  Keeps
<1>1. DispatchInv' BY IntegrationEndsInv, PublicationPendingInv DEF KeptInv
<1>2. /\ Runs(t, "gate") /\ charged' = charged \ {at[t]}
      /\ Finalize(at[t], published, at[t] \in charged)
      /\ UNCHANGED <<driver, strikes>>
  BY DEF IntegrationEnds, PublicationPending, driverVars
<1>3. t \in Live /\ driver \in Waiting /\ pc[t] = "gate"
  BY <1>2, LaneRuns DEF KeptInv
<1>4. at[t] \in admitted BY <1>3, OwnSlot DEF KeptInv
<1> QED BY <1>1, <1>2, <1>3, <1>4, FinalizeKeeps DEF Waiting

-----------------------------------------------------------------------------
(* The serial Iteration, the end of the Run, and every step.               *)

\* Base goes to a serial Iteration once no issue is in a Lane or open.
LEMMA SerialStartKeeps ==
  ASSUME KeptInv,
         \/ GrantSerial
         \/ \E outcome \in {"none", "empty_pool", "refused"} :
              Idle(outcome) /\ driver' = "lastlook"
  PROVE  Keeps
<1>1. /\ driver = "decide" /\ driver' \in {"serial", "lastlook"}
      /\ UNCHANGED <<ref, held, inSetup, open, admitted, parked, worked, unitsSpent,
                     stopLatched, charged, strikes>>
  BY DEF GrantSerial, SerialTurn, Idle, schedVars, ledgerVars
<1>2. DispatchInv BY DEF KeptInv
<1>3. Quiescent /\ Remaining > 0 /\ ~stopLatched
  <2>1. CASE GrantSerial BY <2>1 DEF GrantSerial, SerialReady
  <2>2. ASSUME NEW outcome \in {"none", "empty_pool", "refused"}, Idle(outcome),
               driver' = "lastlook"
        PROVE  Quiescent /\ Remaining > 0 /\ ~stopLatched
    <3>1. Quiescent BY <1>2, <2>2, IdleDrains
    <3>2. unitsSpent = 0 /\ ~stopLatched BY <2>2, <3>1 DEF Idle
    <3> QED BY <3>1, <3>2, CapAssumption DEF Remaining
  <2> QED BY <2>1, <2>2
<1>4. Promise!Lanes = {} /\ Promise!Open = {}
  BY <1>3, StagesOfSlots DEF Quiescent
<1>5. unitsSpent < MaxIterations
  BY <1>2, <1>3, CapAssumption DEF Remaining, DispatchInv, TypeOK, SchedTypeOK
<1>6. ParkedSlots' = ParkedSlots BY <1>1 DEF ParkedSlots
<1>7. ChargedIsFinished' /\ SetupIsUnworked'
  BY <1>1, <1>6 DEF KeptInv, ChargedIsFinished, SetupIsUnworked
<1>8. UNCHANGED <<Stages, ChargedIssues>> BY <1>1, SameStages
<1>9. BaseOwner = "lanes" /\ BaseOwner' = "serial" BY <1>1 DEF BaseOwner
<1>10. Promise!SerialStarts
  BY <1>1, <1>3, <1>4, <1>5, <1>8, <1>9 DEF Promise!SerialStarts
<1> QED BY <1>7, <1>10 DEF Keeps, Promise!Next

LEMMA SerialEndsKeeps ==
  ASSUME KeptInv, NEW i \in Issues, NEW closes \in BOOLEAN,
         NEW strike \in BOOLEAN, NEW resumes \in BOOLEAN,
         SerialEnds(i, closes, strike, resumes)
  PROVE  Keeps
<1>1. /\ driver \in {"serial", "lastlook"} /\ driver' \in {"turn", "drain"}
      /\ strike => strikes[i] < MaxStrikes
      /\ strikes' = IF strike THEN [strikes EXCEPT ![i] = @ + 1] ELSE strikes
      /\ worked' = IF strike THEN worked \ {i} ELSE worked
      /\ unitsSpent' = unitsSpent + 1
      /\ UNCHANGED <<ref, held, inSetup, open, admitted, parked, stopLatched, charged>>
  BY DEF SerialEnds, SerialFinished, ReleaseAttempt
<1>2. Quiescent BY <1>1 DEF KeptInv, DispatchInv, DriverInv
<1>3. DispatchInv' BY SerialEndsInv DEF KeptInv
<1>4. ParkedSlots' = ParkedSlots BY <1>1 DEF ParkedSlots
<1>5. ChargedIsFinished' /\ SetupIsUnworked'
  BY <1>1, <1>4 DEF KeptInv, ChargedIsFinished, SetupIsUnworked
<1>6. KeptInv' BY <1>3, <1>5 DEF KeptInv
<1>7. \A j \in Issues : ~Claimed(j) /\ ~Claimed(j)'
  BY <1>1, <1>2 DEF Claimed, Quiescent
<1>8. \A j \in Issues : /\ Stages[j] = IF j \in worked THEN "done" ELSE "free"
                        /\ Stages'[j] = IF j \in worked' THEN "done" ELSE "free"
  BY <1>6, <1>7, StagesRead, StagesReadNext DEF Reads
<1>9. Stages' = IF strike THEN [Stages EXCEPT ![i] = "free"] ELSE Stages
  <2>1. CASE strike BY <1>1, <1>8, <2>1, StagesAreFunction
  <2>2. CASE ~strike
    <3>1. \A j \in Issues : Stages'[j] = Stages[j] BY <1>1, <1>8, <2>2
    <3> QED BY <2>2, <3>1, StagesAreFunction
  <2> QED BY <2>1, <2>2
<1>10. ChargedIssues' = ChargedIssues BY <1>1 DEF ChargedIssues
<1>11. BaseOwner = "serial" /\ BaseOwner' = "lanes" BY <1>1 DEF BaseOwner
<1>12. Promise!Strike(i, strike) BY <1>1 DEF Promise!Strike
<1>13. Promise!SerialEnds(i, strike)
  BY <1>1, <1>9, <1>10, <1>11, <1>12 DEF Promise!SerialEnds
<1> QED BY <1>5, <1>13 DEF Keeps, Promise!Next

LEMMA ExitKeeps == ASSUME KeptInv, ExitReclaims PROVE Keeps
<1>1. /\ driver = "drain" /\ driver' = "over"
      /\ ref' = [s \in Slots |-> IF s \in open THEN NoIssue ELSE ref[s]]
      /\ held' = held \ open /\ open' = {}
      /\ worked' = worked \ {ref[s] : s \in open \cap charged}
      /\ charged' = charged \ open
      /\ UNCHANGED <<inSetup, unitsSpent, stopLatched, strikes>>
  BY DEF ExitReclaims, ReclaimAll
<1>2. DispatchInv' BY ExitReclaimsInv DEF KeptInv
<1>3. charged' = {} BY <1>1, UnchargedSlots
<1>4. ChargedIsFinished' /\ SetupIsUnworked'
  BY <1>1, <1>3 DEF KeptInv, ChargedIsFinished, SetupIsUnworked
<1>5. KeptInv' BY <1>2, <1>4 DEF KeptInv
<1>6. /\ open \subseteq Slots /\ held \subseteq Slots
      /\ \A s \in Slots : ref[s] # NoIssue => s \in held \cup open
      /\ \A s \in open : ref[s] \in Issues /\ ref[s] \in worked
  BY DEF KeptInv, DispatchInv, TypeOK, SchedTypeOK, Ownership
<1>7. ASSUME NEW i \in Issues
      PROVE  Stages'[i] = IF i \in Promise!Open THEN Promise!Closed(i) ELSE Stages[i]
  <2>1. i # NoIssue BY IssuesAssumption
  <2>2. i \in Promise!Open <=> \E s \in open : ref[s] = i BY StagesOfSlots
  <2>3. CASE i \in Promise!Open
    <3>1. PICK s \in open : ref[s] = i BY <2>2, <2>3
    <3>2. s \in Slots /\ \A u \in Slots \ {s} : ref[u] # i
      BY <1>6, <2>1, <3>1, OneClaim
    <3>3. \A u \in Slots : ref'[u] # i BY <1>1, <2>1, <3>1, <3>2
    <3>4. Stages'[i] = IF i \in worked' THEN "done" ELSE "free"
      BY <1>5, <3>3, Unclaimed
    <3>5. i \in ChargedIssues <=> s \in charged BY <2>1, <3>1, <3>2, ChargedReads
    <3>6. i \in worked' <=> s \notin charged BY <1>1, <1>6, <3>1, <3>2
    <3> QED BY <2>3, <3>4, <3>5, <3>6 DEF Promise!Closed
  <2>4. CASE i \notin Promise!Open /\ Claimed(i)
    <3>1. PICK s \in held \ open : ref[s] = i BY <2>2, <2>4 DEF Claimed
    <3>2. s \in Slots /\ ref'[s] = i /\ s \notin open' BY <1>1, <1>6, <3>1
    <3>3. Stages[i] = "setup" BY <3>1, <3>2, SlotReads DEF SlotStage
    <3>4. Stages'[i] = "setup" BY <1>5, <3>2, SlotReadsNext DEF SlotStage
    <3> QED BY <2>4, <3>3, <3>4
  <2>5. CASE i \notin Promise!Open /\ ~Claimed(i)
    <3>1. \A u \in Slots : ref[u] # i BY <1>6, <2>1, <2>5 DEF Claimed
    <3>2. \A u \in Slots : ref'[u] # i BY <1>1, <2>1, <3>1
    <3>3. Stages'[i] = IF i \in worked' THEN "done" ELSE "free"
      BY <1>5, <3>2, Unclaimed
    <3>4. Stages[i] = IF i \in worked THEN "done" ELSE "free"
      BY <2>5, StagesRead DEF Reads
    <3>5. i \in worked' <=> i \in worked BY <1>1, <1>6, <3>1
    <3> QED BY <2>5, <3>3, <3>4, <3>5
  <2> QED BY <2>3, <2>4, <2>5
<1>8. Stages' = [i \in Issues |->
                   IF i \in Promise!Open THEN Promise!Closed(i) ELSE Stages[i]]
  BY <1>7, StagesAreFunction
<1>9. ChargedIssues' = {} BY <1>3 DEF ChargedIssues
<1>10. BaseOwner = "lanes" /\ BaseOwner' = "over" BY <1>1 DEF BaseOwner
<1>11. Promise!Exit BY <1>1, <1>8, <1>9, <1>10 DEF Promise!Exit
<1> QED BY <1>4, <1>11 DEF Keeps, Promise!Next

LEMMA StutterKeeps == ASSUME KeptInv, UNCHANGED vars PROVE Keeps
<1>1. BaseOwner' = BaseOwner BY DEF vars, driverVars, BaseOwner
<1> QED BY <1>1, UnseenKeeps DEF Unseen, vars, schedVars, ledgerVars

LEMMA LaneStepKeeps ==
  ASSUME KeptInv, NEW t \in Tasks, LaneStep(t) PROVE Keeps
BY LaneRefusedKeeps, LaneUnseen, LaneSetupFailsKeeps, LaneStartsKeeps,
   SessionClosesKeeps, SessionAdmittedKeeps, SessionParkedKeeps, IntegrationKeeps
DEF LaneStep

LEMMA DriverStepKeeps ==
  ASSUME KeptInv, DriverTurn \/ DriverResumes PROVE Keeps
BY DriverUnseen, ReserveLaneKeeps, SerialStartKeeps, SerialEndsKeeps, ExitKeeps
DEF DriverTurn, DriverResumes

LEMMA NextKeeps == ASSUME KeptInv, [Next]_vars PROVE KeptInv' /\ Keeps
<1>1. Keeps
  BY StutterKeeps, LaneStepKeeps, DriverStepKeeps, StopKeeps DEF Next, Finished
<1>2. DispatchInv' BY NextInv DEF KeptInv
<1> QED BY <1>1, <1>2 DEF Keeps, KeptInv

LEMMA InitKeeps == Init => KeptInv /\ Promise!Init
<1> SUFFICES ASSUME Init PROVE KeptInv /\ Promise!Init OBVIOUS
<1>1. KeptInv
  BY InitInv DEF KeptInv, ChargedIsFinished, SetupIsUnworked, Init, SchedInit
<1>2. \A i \in Issues : ~Claimed(i) BY DEF Claimed, Init, SchedInit
<1>3. \A i \in Issues : Stages[i] = "free"
  BY <1>1, <1>2, StagesRead DEF Reads, Init, SchedInit
<1>4. Stages = [i \in Issues |-> "free"] BY <1>3, StagesAreFunction
<1>5. ChargedIssues = {} /\ BaseOwner = "lanes"
  BY DEF ChargedIssues, BaseOwner, Init
<1> QED BY <1>1, <1>4, <1>5 DEF Promise!Init, Init, SchedInit

\* What a contribution that was charged is, and what its issue was worked on
\* before (loop.py, _observe_session_ending and release_attempt): a session
\* that still runs was not charged, and no issue is set up that an attempt
\* keeps out of reach.
THEOREM KeptHolds == Spec => []KeptInv
<1>1. Init => KeptInv BY InitKeeps
<1>2. KeptInv /\ [Next]_vars => KeptInv' BY NextKeeps
<1> QED BY <1>1, <1>2, PTL DEF Spec

\* Rolling dispatch is an implementation of its promise: one owner per issue,
\* no unit, Lane or place in the backlog over its bound, a serial Iteration
\* alone, nothing started after a Stop, and no attempt made again that was
\* neither charged nor returned (rolling_scheduler.py, RollingScheduler).
THEOREM ImplementsPromiseHolds == Spec => ImplementsPromise
<1>1. Init => KeptInv /\ Promise!Init BY InitKeeps
<1>2. KeptInv /\ [Next]_vars => KeptInv' /\ [Promise!Next]_(Promise!vars)
  BY NextKeeps DEF Keeps
<1> QED BY <1>1, <1>2, PTL DEF Spec, ImplementsPromise, Promise!Spec
=============================================================================
