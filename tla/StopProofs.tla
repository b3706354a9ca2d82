----------------------------- MODULE StopProofs -----------------------------
(***************************************************************************)
(* For any number of clients, request identities, Lanes, units and         *)
(* Recovery attempts, and a clock without bound.                           *)
(***************************************************************************)
EXTENDS Stop, FiniteSetTheorems, SequenceTheorems, TLAPS

Clocks ==
    /\ file \in [Ids -> Nat] /\ clock \in Nat \ {0} /\ seq \in [Clients -> Nat]
    /\ client \in [Clients -> {"idle", "writing", "replacing", "linked", "waiting", "gone"}]
    /\ drain \in BOOLEAN /\ cancel \in BOOLEAN
    /\ agent \in [Lanes -> {"free", "setup", "dispatch", "opening", "worker", "remote",
                            "integrating", "reopening", "recovering", "cancelled"}]
    /\ external \in BOOLEAN

\* A client writes only with a time it has read, so a link makes a request.
Timed == \A c \in Clients : client[c] \in {"writing", "replacing"} => seq[c] # 0

StopInv == Clocks /\ Timed /\ OneLogicalStop /\ NothingWorksAfterCancel

-----------------------------------------------------------------------------
(* Requests only accumulate *)

LEMMA LinkedIsFinite == IsFiniteSet(Linked) /\ Cardinality(Linked) \in Nat
<1>1. Linked \in SUBSET Ids /\ IsFiniteSet(Ids)
  BY StopAssumption DEF Linked
<1>2. IsFiniteSet(Linked)
  BY <1>1, FS_Subset
<1> QED  BY <1>2, FS_CardinalityType

\* What is linked stays linked: the latches keep their requests.
LEMMA LatchesKeepTheirRequests ==
  ASSUME OneLogicalStop, UNCHANGED <<drain, cancel>>, Linked \subseteq Linked',
         IsFiniteSet(Linked')
  PROVE  OneLogicalStop'
<1>1. Cardinality(Linked) <= Cardinality(Linked') /\ Cardinality(Linked') \in Nat
  BY FS_Subset, FS_CardinalityType
<1>2. drain' => Linked' # {}
  BY DEF OneLogicalStop
<1>3. cancel' => Cardinality(Linked') >= 2
  BY <1>1, LinkedIsFinite DEF OneLogicalStop
<1> QED  BY <1>2, <1>3 DEF OneLogicalStop

\* A delivery under any identity leaves every other request where it is.
LEMMA DeliveryAccumulates ==
  ASSUME Clocks, NEW i \in Ids, NEW t \in Nat \ {0},
         file' = file \/ file' = [file EXCEPT ![i] = t]
  PROVE  Linked \subseteq Linked' /\ IsFiniteSet(Linked')
<1>1. Linked \subseteq Linked'
  BY DEF Clocks, Linked
<1>2. Linked' \in SUBSET Ids /\ IsFiniteSet(Ids)
  BY StopAssumption DEF Linked
<1> QED  BY <1>1, <1>2, FS_Subset

-----------------------------------------------------------------------------
(* Each step *)

LEMMA ClientKeepsInv ==
  ASSUME StopInv, NEW c \in Clients, ClientSteps(c)
  PROVE  StopInv'
<1> USE DEF StopInv
<1>1. id[c] \in Ids
  BY StopAssumption
<1>2. UNCHANGED <<drain, cancel, agent, external>>
  BY DEF ClientSteps, Submit, WriteFails, Link, Replace, Report, Acknowledge, Dies,
         latchVars, laneVars
<1>3. Clocks' /\ Timed'
  <2>1. CASE Submit(c)
    BY <2>1, <1>2 DEF Submit, At, Clocks, Timed
  <2>2. CASE WriteFails(c)
    BY <2>2, <1>2 DEF WriteFails, At, Clocks, Timed
  <2>3. CASE Link(c)
    BY <2>3, <1>1, <1>2 DEF Link, At, Clocks, Timed
  <2>4. CASE Replace(c)
    BY <2>4, <1>1, <1>2 DEF Replace, At, Clocks, Timed
  <2>5. CASE Report(c)
    BY <2>5, <1>2 DEF Report, At, Clocks, Timed
  <2>6. CASE Acknowledge(c) \/ Dies(c)
    BY <2>6, <1>2 DEF Acknowledge, Dies, Leaves, At, Clocks, Timed
  <2> QED  BY <2>1, <2>2, <2>3, <2>4, <2>5, <2>6 DEF ClientSteps
<1>4. \E t \in Nat \ {0} : file' = file \/ file' = [file EXCEPT ![id[c]] = t]
  <2>1. CASE Link(c) \/ Replace(c)
    <3>1. seq[c] \in Nat \ {0}
      BY <2>1 DEF Link, Replace, Clocks, Timed
    <3> QED  BY <2>1, <3>1 DEF Link, Replace
  <2>2. CASE ~(Link(c) \/ Replace(c))
    <3>1. file' = file
      BY <2>2 DEF ClientSteps, Submit, WriteFails, Report, Acknowledge, Dies
    <3>2. 1 \in Nat \ {0}
      OBVIOUS
    <3> QED  BY <3>1, <3>2
  <2> QED  BY <2>1, <2>2
<1>5. Linked \subseteq Linked' /\ IsFiniteSet(Linked')
  BY <1>1, <1>4, DeliveryAccumulates
<1>6. OneLogicalStop'
  BY <1>2, <1>5, LatchesKeepTheirRequests
<1>7. NothingWorksAfterCancel'
  BY <1>2 DEF NothingWorksAfterCancel
<1> QED  BY <1>3, <1>6, <1>7

\* A Lane becomes a worker only from an opening session, and only there is
\* the cancellation looked at.
LEMMA LaneKeepsInv ==
  ASSUME StopInv, NEW l \in Lanes, LaneSteps(l) \/ SessionEnds(l) \/ Reserve(l)
  PROVE  StopInv'
<1> USE DEF StopInv
<1>1. UNCHANGED <<file, clock, seq, client, drain, cancel, external>>
  BY DEF LaneSteps, SessionEnds, Reserve, Bind, Dispatch, Start, WorkerEnds, Integrate,
         StartRecovery, RecoveryEnds, Salvaged, LaneStep, clientVars, latchVars
<1>2. \E to \in {"free", "setup", "dispatch", "opening", "worker", "remote", "integrating",
                 "reopening", "recovering", "cancelled"} : Goes(l, to) /\ (cancel => to # "worker")
  <2>1. CASE Reserve(l)
    BY <2>1 DEF Reserve
  <2>2. CASE Bind(l)
    BY <2>2 DEF Bind
  <2>3. CASE Dispatch(l)
    BY <2>3 DEF Dispatch, Clocks
  <2>4. CASE Start(l)
    BY <2>4 DEF Start
  <2>5. CASE WorkerEnds(l)
    BY <2>5 DEF WorkerEnds
  <2>6. CASE Integrate(l)
    BY <2>6 DEF Integrate
  <2>7. CASE StartRecovery(l) \/ RecoveryEnds(l) \/ Salvaged(l)
    BY <2>7 DEF StartRecovery, RecoveryEnds, Salvaged
  <2> QED  BY <2>1, <2>2, <2>3, <2>4, <2>5, <2>6, <2>7 DEF LaneSteps, SessionEnds
<1>3. Clocks' /\ Timed'
  BY <1>1, <1>2 DEF Goes, Clocks, Timed
<1>4. NothingWorksAfterCancel'
  BY <1>1, <1>2 DEF Goes, Clocks, NothingWorksAfterCancel
<1>5. OneLogicalStop'
  BY <1>1, LinkedIsFinite, LatchesKeepTheirRequests DEF Linked
<1> QED  BY <1>3, <1>4, <1>5

\* The watcher latches what it has counted, and the cancellation sees every
\* worker there is.
LEMMA PollKeepsInv ==
  ASSUME StopInv, Poll
  PROVE  StopInv'
<1> USE DEF StopInv
<1>1. UNCHANGED <<file, clock, seq, client, external>> /\ Linked' = Linked
  BY DEF Poll, clientVars, Linked
<1>2. /\ drain' = TRUE /\ cancel' \in BOOLEAN
      /\ cancel' => Cardinality(Linked) >= 2
  BY DEF Poll, RequestDrain, RequestCancel, OneLogicalStop, Clocks
<1>3. Clocks' /\ Timed'
  BY <1>1, <1>2 DEF Poll, RequestDrain, RequestCancel, Clocks, Timed
<1>4. NothingWorksAfterCancel'
  <2>1. CASE RequestDrain
    BY <2>1 DEF RequestDrain, NothingWorksAfterCancel
  <2>2. CASE RequestCancel
    BY <2>2 DEF RequestCancel, Active, Clocks, NothingWorksAfterCancel
  <2> QED  BY <2>1, <2>2 DEF Poll
<1>5. OneLogicalStop'
  BY <1>1, <1>2 DEF Poll, OneLogicalStop
<1> QED  BY <1>3, <1>4, <1>5

-----------------------------------------------------------------------------
(* The theorems *)

\* The inductive invariant: a latch is backed by the requests that set it.
THEOREM StopHolds == Spec => []StopInv
<1>1. Init => StopInv
  <2> SUFFICES ASSUME Init PROVE StopInv
    OBVIOUS
  <2>1. Clocks
    <3>1. file \in [Ids -> Nat] /\ clock \in Nat \ {0} /\ seq \in [Clients -> Nat]
      BY DEF Init
    <3>2. client \in [Clients -> {"idle", "writing", "replacing", "linked", "waiting", "gone"}]
      BY DEF Init
    <3>3. agent \in [Lanes -> {"free", "setup", "dispatch", "opening", "worker", "remote",
                              "integrating", "reopening", "recovering", "cancelled"}]
      BY DEF Init
    <3> QED  BY <3>1, <3>2, <3>3 DEF Init, Clocks
  <2>2. Timed
    BY DEF Init, Timed
  <2>3. OneLogicalStop /\ NothingWorksAfterCancel
    BY DEF Init, OneLogicalStop, NothingWorksAfterCancel
  <2> QED  BY <2>1, <2>2, <2>3 DEF StopInv
<1>2. StopInv /\ [Next]_vars => StopInv'
  <2> SUFFICES ASSUME StopInv, [Next]_vars PROVE StopInv'
    OBVIOUS
  <2>1. CASE \E c \in Clients : ClientSteps(c)
    BY <2>1, ClientKeepsInv
  <2>2. CASE \E l \in Lanes : LaneSteps(l) \/ SessionEnds(l) \/ Reserve(l)
    BY <2>2, LaneKeepsInv
  <2>3. CASE Poll
    BY <2>3, PollKeepsInv
  <2>4. CASE Finish
    BY <2>4 DEF Finish, clientVars, laneVars, StopInv, Clocks, Timed, OneLogicalStop,
                NothingWorksAfterCancel, Linked
  <2>5. CASE UNCHANGED vars
    BY <2>5 DEF vars, clientVars, latchVars, laneVars, StopInv, Clocks, Timed,
                OneLogicalStop, NothingWorksAfterCancel, Linked
  <2> QED  BY <2>1, <2>2, <2>3, <2>4, <2>5 DEF Next, Over
<1> QED  BY <1>1, <1>2, PTL DEF Spec

\* Redelivery never escalates: a Run drains only for a request that is there
\* and cancels only for a second identity.
THEOREM OneLogicalStopHolds == Spec => []OneLogicalStop
<1>1. StopInv => OneLogicalStop
  BY DEF StopInv
<1> QED  BY <1>1, StopHolds, PTL

\* No worker outlives the cancellation, wherever its session stood.
THEOREM NothingWorksAfterCancelHolds == Spec => []NothingWorksAfterCancel
<1>1. StopInv => NothingWorksAfterCancel
  BY DEF StopInv
<1> QED  BY <1>1, StopHolds, PTL

-----------------------------------------------------------------------------
(* The Run's records and what clients were told: the safety part of StopArrives *)

\* The records of a Run are one ladder, and each latch has its record.
TraceInv ==
    /\ trace \in {<<>>, <<"drain">>, <<"drain", "cancel">>, <<"cap">>}
    /\ drain <=> trace \in {<<"drain">>, <<"drain", "cancel">>}
    /\ cancel <=> trace = <<"drain", "cancel">>
    /\ trace = <<"cap">> => over

\* A stage that a client was told of is one its Run has been asked for.
ToldIsAsked ==
    \A c \in Clients :
        /\ told[c] = "drain" => Linked # {}
        /\ told[c] = "cancel" => Cardinality(Linked) >= 2

ToldInv ==
    /\ told \in [Clients -> {"none", "drain", "cancel"}]
    /\ \A c \in Clients : client[c] \in {"linked", "waiting"} => id[c] \in Linked
    /\ ToldIsAsked

\* The ladder, rung by rung.
LEMMA Rungs ==
  /\ Announced(<<>>, "drain") = <<"drain">> /\ Announced(<<>>, "cap") = <<"cap">>
  /\ Announced(<<"drain">>, "cancel") = <<"drain", "cancel">>
<1>1. Append(<<>>, "drain") = <<"drain">> /\ Append(<<>>, "cap") = <<"cap">>
  OBVIOUS
<1>2. Append(<<"drain">>, "cancel") = <<"drain", "cancel">>
  <2>1. /\ <<"drain">> \in Seq({"drain", "cancel"})
        /\ <<"drain", "cancel">> \in Seq({"drain", "cancel"})
    OBVIOUS
  <2>2. Len(<<"drain">>) = 1 /\ <<"drain">>[1] = "drain"
    OBVIOUS
  <2>3. /\ Len(<<"drain", "cancel">>) = 2
        /\ <<"drain", "cancel">>[1] = "drain" /\ <<"drain", "cancel">>[2] = "cancel"
    OBVIOUS
  <2>4. PICK t : t = Append(<<"drain">>, "cancel")
    OBVIOUS
  <2>5. t \in Seq({"drain", "cancel"}) /\ Len(t) = 2 /\ t[1] = "drain" /\ t[2] = "cancel"
    BY <2>1, <2>2, <2>4, AppendProperties
  <2>6. \A k \in 1..2 : t[k] = <<"drain", "cancel">>[k]
    BY <2>3, <2>5
  <2> QED  BY <2>1, <2>3, <2>4, <2>5, <2>6, SeqEqual
<1>5. <<"drain">> # <<>>
  OBVIOUS
<1>3. Last(<<"drain">>) = "drain"
  BY DEF Last
<1>4. Rank("cancel") > Rank("drain")
  BY DEF Rank
<1> QED  BY <1>1, <1>2, <1>3, <1>4, <1>5 DEF Announced

LEMMA TraceStep == TraceInv /\ StopInv /\ [Next]_vars => TraceInv'
<1> SUFFICES ASSUME TraceInv, StopInv, [Next]_vars PROVE TraceInv'
  OBVIOUS
<1>0. drain \in BOOLEAN /\ cancel \in BOOLEAN
  BY DEF StopInv, Clocks
<1>d. <<"drain">> # <<>> /\ <<"drain", "cancel">> # <<>> /\ <<"cap">> # <<>>
      /\ <<"drain">> # <<"drain", "cancel">> /\ <<"cap">> # <<"drain">>
      /\ <<"cap">> # <<"drain", "cancel">>
  OBVIOUS
<1>1. CASE UNCHANGED <<latchVars, over>>
  BY <1>1 DEF latchVars, TraceInv
<1>2. CASE RequestDrain /\ ~over
  <2>1. ~drain => trace = <<>>
    BY <1>2 DEF TraceInv
  <2>2. trace' = IF drain THEN trace ELSE <<"drain">>
    BY <1>2, <2>1, Rungs DEF RequestDrain, DrainAnnounced
  <2> QED  BY <1>0, <1>2, <1>d, <2>1, <2>2 DEF RequestDrain, TraceInv
<1>3. CASE RequestCancel /\ ~over
  <2>1. CASE cancel
    BY <1>0, <1>3, <1>d, <2>1 DEF RequestCancel, TraceInv
  <2>2. CASE ~cancel
    <3>1. trace = IF drain THEN <<"drain">> ELSE <<>>
      BY <1>0, <1>3, <2>2 DEF TraceInv
    <3>2. DrainAnnounced = <<"drain">>
      BY <1>0, <3>1, Rungs DEF DrainAnnounced
    <3>3. trace' = <<"drain", "cancel">>
      BY <1>3, <2>2, <3>2, Rungs DEF RequestCancel
    <3> QED  BY <1>3, <1>d, <3>3 DEF RequestCancel, TraceInv
  <2> QED  BY <2>1, <2>2
<1>4. CASE Finish
  <2>1. ~drain => trace = <<>>
    BY <1>4 DEF Finish, TraceInv
  <2>2. trace' = trace \/ (~drain /\ trace' = <<"cap">>)
    BY <1>4, <2>1, Rungs DEF Finish
  <2> QED  BY <1>0, <1>4, <1>d, <2>1, <2>2 DEF Finish, TraceInv
<1>5. ASSUME NEW c \in Clients, ClientSteps(c) PROVE UNCHANGED <<latchVars, over>>
  BY <1>5 DEF ClientSteps, Submit, WriteFails, Link, Replace, Report, Acknowledge, Dies
<1>6. ASSUME NEW l \in Lanes, LaneSteps(l) \/ SessionEnds(l) \/ Reserve(l)
      PROVE  UNCHANGED <<latchVars, over>>
  BY <1>6 DEF LaneSteps, SessionEnds, Reserve, Bind, Dispatch, Start, WorkerEnds, Integrate,
              StartRecovery, RecoveryEnds, Salvaged, LaneStep
<1>7. CASE UNCHANGED vars
  BY <1>1, <1>7 DEF vars
<1> QED  BY <1>1, <1>2, <1>3, <1>4, <1>5, <1>6, <1>7 DEF Next, Over, Poll

\* A request once linked is never taken back, whichever client retries or dies.
RequestsAreDurable == [][Linked \subseteq Linked']_vars

LEMMA LinkedStep == StopInv /\ [Next]_vars => Linked \subseteq Linked'
<1> SUFFICES ASSUME StopInv, [Next]_vars PROVE Linked \subseteq Linked'
  OBVIOUS
<1>1. ASSUME NEW c \in Clients, Link(c) \/ Replace(c) PROVE Linked \subseteq Linked'
  <2>1. seq[c] \in Nat \ {0} /\ id[c] \in Ids /\ Clocks
    BY <1>1, StopAssumption DEF Link, Replace, StopInv, Clocks, Timed
  <2> QED  BY <1>1, <2>1, DeliveryAccumulates DEF Link, Replace
<1>2. CASE file' = file
  BY <1>2 DEF Linked
<1>3. ASSUME NEW c \in Clients, ClientSteps(c), ~(Link(c) \/ Replace(c)) PROVE file' = file
  BY <1>3 DEF ClientSteps, Submit, WriteFails, Report, Acknowledge, Dies
<1>4. ASSUME NEW l \in Lanes, LaneSteps(l) \/ SessionEnds(l) \/ Reserve(l) PROVE file' = file
  BY <1>4 DEF LaneSteps, SessionEnds, Reserve, Bind, Dispatch, Start, WorkerEnds, Integrate,
              StartRecovery, RecoveryEnds, Salvaged, LaneStep, clientVars
<1>5. CASE Poll \/ Finish \/ UNCHANGED vars
  BY <1>2, <1>5 DEF Poll, Finish, vars, clientVars
<1> QED  BY <1>1, <1>2, <1>3, <1>4, <1>5 DEF Next, Over

\* The position a submission reports is backed by the requests it has read.
LEMMA StageIsAsked ==
  ASSUME Clocks, NEW i \in Linked
  PROVE  /\ StageOf(i) \in {"drain", "cancel"}
         /\ StageOf(i) = "cancel" => Cardinality(Linked) >= 2
<1>1. StageOf(i) \in {"drain", "cancel"}
  BY DEF StageOf
<1>2. ASSUME StageOf(i) = "cancel" PROVE Cardinality(Linked) >= 2
  <2>1. PICK j \in Linked : Before(j, i)
    BY <1>2 DEF StageOf
  <2>2. i \in Nat /\ j \in Nat /\ file[i] \in Nat /\ file[j] \in Nat
    BY <2>1, StopAssumption DEF Linked, Clocks
  <2>3. i # j
    BY <2>1, <2>2 DEF Before
  <2>4. IsFiniteSet({i}) /\ Cardinality({i}) = 1
    BY FS_Singleton
  <2>5. Cardinality({i} \cup {j}) = 2
    BY <2>3, <2>4, FS_AddElement
  <2>6. {i} \cup {j} \subseteq Linked
    BY <2>1
  <2> QED  BY <2>5, <2>6, LinkedIsFinite, FS_Subset, FS_CardinalityType
<1> QED  BY <1>1, <1>2

LEMMA ToldStep == ToldInv /\ StopInv /\ [Next]_vars => ToldInv'
<1> SUFFICES ASSUME ToldInv, StopInv, [Next]_vars PROVE ToldInv'
  OBVIOUS
<1>1. /\ Clocks /\ Linked \subseteq Linked' /\ IsFiniteSet(Linked')
      /\ \A c \in Clients : id[c] \in Ids
  BY LinkedStep, StopAssumption, FS_Subset DEF StopInv, Linked
<1>2. Cardinality(Linked) <= Cardinality(Linked') /\ Cardinality(Linked') \in Nat
      /\ Cardinality(Linked) \in Nat
  BY <1>1, LinkedIsFinite, FS_Subset, FS_CardinalityType
<1>3. CASE UNCHANGED <<client, told>>
  BY <1>1, <1>2, <1>3 DEF ToldInv, ToldIsAsked
<1>4. ASSUME NEW c \in Clients, ClientSteps(c) PROVE ToldInv'
  <2>1. \/ /\ told' = told /\ \E pc \in {"idle", "writing", "replacing"} : At(c, pc)
        \/ told' = told /\ At(c, "linked") /\ id[c] \in Linked'
        \/ Leaves(c)
        \/ Report(c)
    <3>1. CASE Submit(c)
      BY <1>1, <3>1 DEF Submit, Linked
    <3>2. CASE WriteFails(c)
      BY <3>2 DEF WriteFails
    <3>3. CASE Link(c) \/ Replace(c)
      BY <1>1, <3>3 DEF Link, Replace, Linked, StopInv, Clocks, Timed
    <3>4. CASE Acknowledge(c) \/ Dies(c)
      BY <3>4 DEF Acknowledge, Dies
    <3> QED  BY <1>4, <3>1, <3>2, <3>3, <3>4 DEF ClientSteps
  <2>2. client \in [Clients -> {"idle", "writing", "replacing", "linked", "waiting", "gone"}]
    BY <1>1 DEF Clocks
  <2>3. CASE told' = told /\ \E pc \in {"idle", "writing", "replacing"} : At(c, pc)
    BY <1>1, <1>2, <2>2, <2>3 DEF ToldInv, ToldIsAsked, At
  <2>4. CASE told' = told /\ At(c, "linked") /\ id[c] \in Linked'
    BY <1>1, <1>2, <2>2, <2>4 DEF ToldInv, ToldIsAsked, At
  <2>5. CASE Leaves(c)
    BY <1>1, <1>2, <2>2, <2>5 DEF ToldInv, ToldIsAsked, Leaves, At
  <2>6. CASE Report(c)
    <3>1. /\ id[c] \in Linked /\ At(c, "waiting") /\ Linked' = Linked
          /\ told' = [told EXCEPT ![c] = StageOf(id[c])]
      BY <2>6 DEF Report, ToldInv, Linked
    <3>2. /\ StageOf(id[c]) \in {"drain", "cancel"}
          /\ StageOf(id[c]) = "cancel" => Cardinality(Linked) >= 2
      BY <1>1, <3>1, StageIsAsked
    <3>3. PICK s \in {"drain", "cancel"} : s = StageOf(id[c])
      BY <3>2
    <3> QED  BY <1>1, <1>2, <2>2, <3>1, <3>2, <3>3 DEF ToldInv, ToldIsAsked, At
  <2> QED  BY <2>1, <2>3, <2>4, <2>5, <2>6
<1>5. ASSUME NEW l \in Lanes, LaneSteps(l) \/ SessionEnds(l) \/ Reserve(l)
      PROVE  UNCHANGED <<client, told>>
  BY <1>5 DEF LaneSteps, SessionEnds, Reserve, Bind, Dispatch, Start, WorkerEnds, Integrate,
              StartRecovery, RecoveryEnds, Salvaged, LaneStep, clientVars
<1>6. CASE Poll \/ Finish \/ UNCHANGED vars
  BY <1>3, <1>6 DEF Poll, Finish, vars, clientVars
<1> QED  BY <1>3, <1>4, <1>5, <1>6 DEF Next, Over

\* What the Run records is what it has latched: one drain, then one
\* cancellation, and the cap of its units only where it was never stopped.
THEOREM TraceHolds == Spec => []TraceInv
<1>1. Init => TraceInv
  <2>1. <<>> # <<"drain">> /\ <<>> # <<"drain", "cancel">> /\ <<>> # <<"cap">>
    OBVIOUS
  <2> QED  BY <2>1 DEF Init, TraceInv
<1> QED  BY <1>1, TraceStep, StopHolds, PTL DEF Spec

\* No delivery, retry, death or poll takes a request away.
THEOREM RequestsAreDurableHolds == Spec => RequestsAreDurable
<1> QED  BY LinkedStep, StopHolds, PTL DEF Spec, RequestsAreDurable

\* The stage a client was told, it was told truly: the requests for it are
\* there and stay, so a Run that goes on polling must come to announce it.
THEOREM ToldIsAskedHolds == Spec => []ToldIsAsked
<1>1. Init => ToldInv
  BY DEF Init, ToldInv, ToldIsAsked
<1>2. ToldInv => ToldIsAsked
  BY DEF ToldInv
<1> QED  BY <1>1, <1>2, ToldStep, StopHolds, PTL DEF Spec

\* A client that leaves acknowledged leaves a Run that has latched what the
\* client was told, and an announced cap is no acknowledgement.
AcknowledgedIsLatched ==
    [][\A c \in Clients :
           Acknowledge(c) => /\ told[c] = "drain" => drain
                             /\ told[c] = "cancel" => cancel]_vars

\* The trace a waiting client reads never runs ahead of the latches.
THEOREM AcknowledgedIsLatchedHolds == Spec => AcknowledgedIsLatched
<1>1. ASSUME TraceInv, NEW c \in Clients, Acknowledge(c)
      PROVE  /\ told[c] = "drain" => drain
             /\ told[c] = "cancel" => cancel
  <2>1. \A t \in {<<>>, <<"cap">>} : ~Contains(t, "cancel") /\ ~Contains(t, "drain")
    BY DEF Contains
  <2>2. ~Contains(<<"drain">>, "cancel")
    BY DEF Contains
  <2>3. cancel \/ OperatorStage # "cancel"
    BY <1>1, <2>1, <2>2 DEF TraceInv, OperatorStage
  <2>4. drain \/ OperatorStage = "none"
    BY <1>1, <2>1 DEF TraceInv, OperatorStage
  <2>5. OperatorStage \in {"none", "drain", "cancel"}
    BY DEF OperatorStage
  <2> QED  BY <1>1, <2>3, <2>4, <2>5 DEF Acknowledge, Rank
<1>2. TraceInv /\ [Next]_vars =>
        \A c \in Clients :
            Acknowledge(c) => /\ told[c] = "drain" => drain
                              /\ told[c] = "cancel" => cancel
  BY <1>1
<1> QED  BY <1>2, TraceHolds, PTL DEF Spec, AcknowledgedIsLatched
=============================================================================
