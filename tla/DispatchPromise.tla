--------------------------- MODULE DispatchPromise ---------------------------
(***************************************************************************)
(* What rolling dispatch promises, without slots, tasks, turns, Leases or   *)
(* the Integration lock: what the Run does with each issue, the Iteration   *)
(* units and Strikes that costs, and who may move base.                     *)
(***************************************************************************)
EXTENDS Integers, FiniteSets

CONSTANTS Issues, LaneCap, HighWater, MaxIterations, MaxStrikes

VARIABLES
  stage,    \* what each issue is in; "done" is kept out of the Run's reach
  charged,  \* issues whose open contribution was charged a Strike already
  strikes,  \* Strikes charged to each issue
  spent,    \* Iteration units that are spent
  base,     \* who may move base: the "lanes", one "serial" Iteration, or "over"
  stopped   \* a Stop was requested

vars == <<stage, charged, strikes, spent, base, stopped>>

In(S) == {i \in Issues : stage[i] \in S}
Lanes == In({"setup", "session", "parked"})
Open == In({"session", "parked", "backlog"})
RoomInBacklog == Cardinality(In({"backlog"})) < HighWater

\* An attempt that was charged may be made again, one that was not is final.
Closed(i) == IF i \in charged THEN "free" ELSE "done"

Init ==
  /\ stage = [i \in Issues |-> "free"]
  /\ charged = {} /\ strikes = [i \in Issues |-> 0]
  /\ spent = 0 /\ base = "lanes" /\ stopped = FALSE

Strike(i, struck) ==
  /\ struck => strikes[i] < MaxStrikes
  /\ strikes' = IF struck THEN [strikes EXCEPT ![i] = @ + 1] ELSE strikes

Reserve(i) ==
  /\ base = "lanes" /\ ~stopped
  /\ stage[i] = "free" /\ strikes[i] < MaxStrikes
  /\ stage' = [stage EXCEPT ![i] = "setup"]
  /\ Cardinality(Lanes) < LaneCap /\ RoomInBacklog
  /\ spent + Cardinality(In({"setup"})) < MaxIterations
  /\ UNCHANGED <<charged, strikes, spent, base, stopped>>

GiveUp(i) ==
  /\ base = "lanes" /\ stage[i] = "setup"
  /\ stage' = [stage EXCEPT ![i] = "free"]
  /\ UNCHANGED <<charged, strikes, spent, base, stopped>>

Start(i) ==
  /\ base = "lanes" /\ ~stopped
  /\ stage[i] = "setup"
  /\ stage' = [stage EXCEPT ![i] = "session"]
  /\ spent' = spent + 1
  /\ UNCHANGED <<charged, strikes, base, stopped>>

\* A session that never ran gives its unit and its issue back.  One that ran
\* may be charged a Strike; it leaves nothing to integrate, or changes, which
\* park behind a full backlog only.
SessionEnds(i) ==
  /\ base = "lanes" /\ stage[i] = "session"
  /\ \/ /\ stage' = [stage EXCEPT ![i] = "free"]
        /\ spent' = spent - 1 /\ UNCHANGED <<charged, strikes>>
     \/ \E struck \in BOOLEAN :
          /\ stage' = [stage EXCEPT ![i] = IF struck THEN "free" ELSE "done"]
          /\ Strike(i, struck) /\ UNCHANGED <<charged, spent>>
     \/ \E struck \in BOOLEAN :
          /\ stage' = [stage EXCEPT ![i] = IF RoomInBacklog THEN "backlog" ELSE "parked"]
          /\ charged' = IF struck THEN charged \cup {i} ELSE charged
          /\ Strike(i, struck) /\ UNCHANGED spent
  /\ UNCHANGED <<base, stopped>>

\* A place in the backlog that gets free goes to a parked contribution.
Integrate(i) ==
  /\ base = "lanes" /\ stage[i] = "backlog"
  /\ \/ /\ In({"parked"}) = {}
        /\ stage' = [stage EXCEPT ![i] = Closed(i)]
     \/ \E j \in In({"parked"}) :
          stage' = [stage EXCEPT ![i] = Closed(i), ![j] = "backlog"]
  /\ charged' = charged \ {i}
  /\ UNCHANGED <<strikes, spent, base, stopped>>

SerialStarts ==
  /\ base = "lanes" /\ ~stopped
  /\ base' = "serial"
  /\ Lanes = {} /\ Open = {}
  /\ spent < MaxIterations
  /\ UNCHANGED <<stage, charged, strikes, spent, stopped>>

\* A Strike charged to the Iteration makes its issue available again.
SerialEnds(i, struck) ==
  /\ base = "serial"
  /\ stage' = IF struck THEN [stage EXCEPT ![i] = "free"] ELSE stage
  /\ Strike(i, struck)
  /\ spent' = spent + 1 /\ base' = "lanes"
  /\ UNCHANGED <<charged, stopped>>

Stop ==
  /\ ~stopped /\ stopped' = TRUE
  /\ UNCHANGED <<stage, charged, strikes, spent, base>>

\* Whatever is open when the Run ends is closed on the spot.
Exit ==
  /\ base = "lanes"
  /\ base' = "over"
  /\ stage' = [i \in Issues |-> IF i \in Open THEN Closed(i) ELSE stage[i]]
  /\ charged' = {}
  /\ UNCHANGED <<strikes, spent, stopped>>

Next ==
  \/ \E i \in Issues :
       \/ Reserve(i) \/ GiveUp(i) \/ Start(i) \/ SessionEnds(i) \/ Integrate(i)
       \/ \E struck \in BOOLEAN : SerialEnds(i, struck)
  \/ SerialStarts \/ Stop \/ Exit

Spec == Init /\ [][Next]_vars
=============================================================================
