---------------------------- MODULE SweepProofs ----------------------------
(***************************************************************************)
(* For any number of Runs, worktrees and Sweeps under way at once, with    *)
(* stages in worktrees or in clones, and any number of failures.           *)
(***************************************************************************)
EXTENDS Sweep, TLAPS

LaneOf(x) == <<RunOf(x), "lane">>

\* A clone in preparation has no branch yet; a stage was cut beside a Lane.
CutInv ==
    \A x \in Residues :
        /\ ws[x] = "preparing" => tip[x] = "none"
        /\ IsStage(x) /\ ws[x] # "none" => LaneOf(x) \in Residues

ResidueInv == TypeOK /\ CutInv

\* A live Run has its files, and a Run that has ended stays so.
RunInv ==
    /\ \A r \in Runs : run[r] = "live" => files[r] = {"trace", "control"}
    /\ \A r \in ended : run[r] = "dead"

\* Nothing is there of a Run that has not started.
BornInv ==
    /\ \A x \in Residues : ws[x] # "none" \/ x \in ref => run[RunOf(x)] # "new"
    /\ \A r \in Runs : files[r] # {} => run[r] # "new"

\* What a Sweep has listed was there, and a Run whose log is half removed
\* was finished.
ListedInv ==
    \A s \in Sweepers :
        /\ pc[s] \in {"spaces", "branches"} =>
               \A x \in todo[s] : run[RunOf(x)] # "new"
        /\ pc[s] = "logs" => \A x \in todo[s] : x[2] = "control" => run[x[1]] = "dead"

\* A Sweep looks in its own worktree at least, in all where git can list
\* them, and what it read of a Run's death is true of every Run it looked for.
ReadInv ==
    \A s \in Sweepers :
        /\ pc[s] # "idle" => /\ SweepHome[s] \in dirs[s]
                             /\ "worktrees" \in Failures \/ dirs[s] = Places
        /\ pc[s] = "idle" => \A r \in Runs : memo[s][r] = "ask"
        /\ \A r \in Runs :
               memo[s][r] = "dead" => run[r] = "dead" \/ Home[r] \notin dirs[s]

LiveInv == ResidueInv /\ RunInv /\ BornInv /\ ListedInv /\ ReadInv

-----------------------------------------------------------------------------
(* Types *)

LEMMA ResidueParts ==
  ASSUME NEW x \in Residues
  PROVE  RunOf(x) \in Runs /\ x = <<x[1], x[2]>> /\ x[2] \in {"lane", "stage"}
BY SweepAssumption DEF RunOf

LEMMA TypeStep == ResidueInv /\ [Next]_vars => ResidueInv'
<1> SUFFICES ASSUME ResidueInv, [Next]_vars PROVE ResidueInv'
  OBVIOUS
<1> USE DEF ResidueInv
<1>1. ASSUME NEW r \in Runs, StartRun(r) PROVE ResidueInv'
  BY <1>1 DEF StartRun, residueVars, sweepVars, TypeOK, CutInv
<1>2. ASSUME NEW r \in Runs, EndRun(r) PROVE ResidueInv'
  BY <1>2 DEF EndRun, residueVars, sweepVars, TypeOK, CutInv
<1>3. ASSUME NEW r \in Runs, CloseIssue(r) PROVE ResidueInv'
  BY <1>3 DEF CloseIssue, residueVars, sweepVars, TypeOK, CutInv
<1>4. ASSUME NEW x \in Residues,
             \/ Cut(x) \/ Prepared(x) \/ Edit(x) \/ CommitWork(x) \/ Publish(x)
             \/ OwnSalvage(x) \/ OwnReclaim(x) \/ DiscardStage(x) \/ DeletePublished(x)
      PROVE  ResidueInv'
  <2>1. UNCHANGED <<run, files, ended, closed, sweepVars, faults>>
    BY <1>4 DEF Cut, Prepared, Edit, CommitWork, Publish, OwnSalvage, OwnReclaim,
                DiscardStage, DeletePublished, runVars
  <2>2. /\ \/ \E v \in {"none", "preparing", "clean", "dirty"} : ws' = [ws EXCEPT ![x] = v]
           \/ UNCHANGED ws
        /\ \/ \E v \in {"none", "base", "work", "checkpoint"} : tip' = [tip EXCEPT ![x] = v]
           \/ UNCHANGED tip
    BY <1>4 DEF Cut, Prepared, Edit, CommitWork, Publish, OwnSalvage, OwnReclaim,
                DiscardStage, DeletePublished, Checkpoint, TakeAway
  <2>7. /\ ws' \in [Residues -> {"none", "preparing", "clean", "dirty"}]
        /\ tip' \in [Residues -> {"none", "base", "work", "checkpoint"}]
    <3>1. /\ ws \in [Residues -> {"none", "preparing", "clean", "dirty"}]
          /\ tip \in [Residues -> {"none", "base", "work", "checkpoint"}]
      BY DEF TypeOK
    <3>2. ws' \in [Residues -> {"none", "preparing", "clean", "dirty"}]
      BY <2>2, <3>1
    <3>3. tip' \in [Residues -> {"none", "base", "work", "checkpoint"}]
      BY <2>2, <3>1
    <3> QED  BY <3>2, <3>3
  <2>3. landed' \subseteq Residues /\ ref' \subseteq Residues
    <3>1. CASE Publish(x)
      BY <3>1 DEF Publish, TypeOK, CutInv, LaneOf
    <3>2. CASE ~Publish(x)
      BY <1>4, <3>2 DEF Cut, Prepared, Edit, CommitWork, OwnSalvage, OwnReclaim,
                        DiscardStage, DeletePublished, Checkpoint, TakeAway, TypeOK
    <3> QED  BY <3>1, <3>2
  <2>4. TypeOK'
    BY <2>1, <2>3, <2>7 DEF TypeOK, sweepVars
  <2>5. CASE Cut(x)
    <3>1. IsStage(x) => LaneOf(x) \in Residues
      BY <2>5 DEF Cut, TypeOK, LaneOf
    <3> QED  BY <2>4, <2>5, <3>1 DEF Cut, TypeOK, CutInv
  <2>6. CASE ~Cut(x)
    <3>1. \A y \in Residues : /\ ws'[y] # "none" => ws[y] # "none"
                              /\ ws'[y] = "preparing" => ws[y] = "preparing" /\ tip'[y] = tip[y]
      BY <1>4, <2>6 DEF Prepared, Edit, CommitWork, Publish, OwnSalvage, OwnReclaim,
                        DiscardStage, DeletePublished, Checkpoint, TakeAway, TypeOK
    <3> QED  BY <2>4, <3>1 DEF CutInv
  <2> QED  BY <2>5, <2>6
<1>5. ASSUME NEW s \in Sweepers, BeginSweep(s) PROVE ResidueInv'
  <2>1. UNCHANGED <<runVars, residueVars, memo, withheld>>
    BY <1>5 DEF BeginSweep
  <2>2. dirs' \in [Sweepers -> SUBSET Places] /\ faults' \in Nat
    <3>1. SweepHome[s] \in Places
      BY SweepAssumption
    <3>2. /\ faults' = faults \/ faults' = faults + 1
          /\ \E P \in SUBSET Places : dirs' = [dirs EXCEPT ![s] = P]
      BY <1>5, <3>1 DEF BeginSweep, Fault
    <3> QED  BY <3>2 DEF TypeOK
  <2>3. pc' = [pc EXCEPT ![s] = "spaces"]
        /\ \E X \in SUBSET Residues : todo' = [todo EXCEPT ![s] = X]
    BY <1>5 DEF BeginSweep
  <2> QED  BY <2>1, <2>2, <2>3 DEF TypeOK, CutInv, runVars, residueVars
<1>6. ASSUME NEW s \in Sweepers, NEW r \in Runs,
             Ask(s, r) \/ RetireTrace(s, r) \/ RetireControl(s, r) \/ KeepLog(s, r)
      PROVE  ResidueInv'
  <2>1. UNCHANGED <<residueVars, run, ended, closed, pc, dirs, withheld>>
    BY <1>6 DEF Ask, RetireTrace, RetireControl, KeepLog, runVars
  <2>2. files' \in [Runs -> SUBSET {"trace", "control"}] /\ faults' \in Nat
        /\ memo' \in [Sweepers -> [Runs -> {"ask", "alive", "dead", "unknown"}]]
    <3>1. CASE Ask(s, r)
      <4>1. \E m \in {"alive", "dead", "unknown"} : memo' = [memo EXCEPT ![s][r] = m]
        BY <3>1 DEF Ask
      <4>2. faults' \in Nat /\ UNCHANGED files
        BY <3>1 DEF Ask, runVars, Fault, TypeOK
      <4> QED  BY <4>1, <4>2 DEF TypeOK
    <3>2. CASE RetireTrace(s, r) \/ RetireControl(s, r)
      BY <3>2 DEF RetireTrace, RetireControl, TypeOK
    <3>3. CASE KeepLog(s, r)
      BY <3>3 DEF KeepLog, runVars, Fault, TypeOK
    <3> QED  BY <1>6, <3>1, <3>2, <3>3
  <2>3. \E X : /\ todo' = [todo EXCEPT ![s] = X]
               /\ X \subseteq todo[s]
                  \/ (pc[s] = "logs" /\ X \subseteq todo[s] \cup {<<r, "control">>})
    <3>1. CASE Ask(s, r)
      BY <3>1 DEF Ask, TypeOK
    <3>2. CASE RetireTrace(s, r)
      BY <3>2 DEF RetireTrace
    <3>3. CASE RetireControl(s, r)
      BY <3>3 DEF RetireControl
    <3>4. CASE KeepLog(s, r)
      <4>1. PICK x \in todo[s] : Decided(s, x) /\ pc[s] = "logs"
        BY <3>4 DEF KeepLog
      <4> QED  BY <4>1 DEF Decided
    <3> QED  BY <1>6, <3>1, <3>2, <3>3, <3>4
  <2>4. todo' \in [Sweepers -> SUBSET (Residues \cup (Runs \X {"trace", "control"}))]
    BY <2>3 DEF TypeOK
  <2>5. \A t \in Sweepers : todo'[t] \subseteq IF pc[t] \in {"spaces", "branches"}
                                             THEN Residues ELSE Runs \X {"trace", "control"}
    BY <2>3 DEF TypeOK
  <2> QED  BY <2>1, <2>2, <2>4, <2>5 DEF TypeOK, CutInv, residueVars
<1>7. ASSUME NEW s \in Sweepers, NEW x \in Residues,
             Rescue(s, x) \/ Remove(s, x) \/ RemoveFails(s, x) \/ Collect(s, x)
             \/ LeaveBranch(s, x)
      PROVE  ResidueInv'
  <2>1. UNCHANGED <<runVars, pc, dirs, memo>>
    BY <1>7 DEF Rescue, Remove, RemoveFails, Collect, LeaveBranch
  <2>2. /\ ws' \in [Residues -> {"none", "preparing", "clean", "dirty"}]
        /\ tip' \in [Residues -> {"none", "base", "work", "checkpoint"}]
        /\ ref' \subseteq Residues /\ landed' \subseteq landed
    <3>1. CASE Rescue(s, x)
      BY <3>1 DEF Rescue, Checkpoint, TypeOK
    <3>2. CASE Remove(s, x)
      BY <3>2 DEF Remove, TakeAway, TypeOK
    <3>3. CASE RemoveFails(s, x)
      BY <3>3 DEF RemoveFails, TypeOK
    <3>4. CASE Collect(s, x) \/ LeaveBranch(s, x)
      BY <3>4 DEF Collect, LeaveBranch, residueVars, TypeOK
    <3> QED  BY <1>7, <3>1, <3>2, <3>3, <3>4
  <2>3. withheld' \in [Sweepers -> SUBSET Residues] /\ faults' \in Nat
    BY <1>7 DEF Rescue, Remove, RemoveFails, Collect, LeaveBranch, Fault, TypeOK
  <2>4. \E X \in SUBSET todo[s] : todo' = [todo EXCEPT ![s] = X]
    <3>1. CASE Rescue(s, x)
      BY <3>1 DEF Rescue, TypeOK
    <3>2. CASE ~Rescue(s, x)
      BY <1>7, <3>2 DEF Remove, RemoveFails, Collect, LeaveBranch, Decided
    <3> QED  BY <3>1, <3>2
  <2>5. \A y \in Residues : /\ ws'[y] # "none" => ws[y] # "none"
                            /\ ws'[y] = "preparing" => ws[y] = "preparing" /\ tip'[y] = tip[y]
    BY <1>7 DEF Rescue, Remove, RemoveFails, Collect, LeaveBranch, Checkpoint, TakeAway,
                residueVars, TypeOK
  <2>6. TypeOK'
    BY <2>1, <2>2, <2>3, <2>4 DEF TypeOK, runVars
  <2> QED  BY <2>5, <2>6 DEF CutInv
<1>8. ASSUME NEW s \in Sweepers, ToBranches(s) \/ ToLogs(s) PROVE ResidueInv'
  <2>1. UNCHANGED <<runVars, residueVars, dirs, memo, withheld, faults>>
    BY <1>8 DEF ToBranches, ToLogs
  <2>2. \/ /\ pc' = [pc EXCEPT ![s] = "branches"]
           /\ \E X \in SUBSET Residues : todo' = [todo EXCEPT ![s] = X]
        \/ /\ pc' = [pc EXCEPT ![s] = "logs"]
           /\ \E X \in SUBSET (Runs \X {"trace", "control"}) : todo' = [todo EXCEPT ![s] = X]
    <3>1. CASE ToBranches(s)
      BY <3>1 DEF ToBranches, TypeOK
    <3>2. CASE ToLogs(s)
      <4> DEFINE X == {<<r, "trace">> :
                          r \in {q \in Runs : Home[q] \in dirs[s] /\ files[q] # {} /\ Old(q)}}
      <4>1. X \in SUBSET (Runs \X {"trace", "control"})
        OBVIOUS
      <4>2. pc' = [pc EXCEPT ![s] = "logs"] /\ todo' = [todo EXCEPT ![s] = X]
        BY <3>2 DEF ToLogs
      <4> QED  BY <4>1, <4>2
    <3> QED  BY <1>8, <3>1, <3>2
  <2>3. /\ pc' \in [Sweepers -> {"idle", "spaces", "branches", "logs"}]
        /\ todo' \in [Sweepers -> SUBSET (Residues \cup (Runs \X {"trace", "control"}))]
    <3>1. PICK X \in SUBSET (Residues \cup (Runs \X {"trace", "control"})) :
             todo' = [todo EXCEPT ![s] = X]
      BY <2>2
    <3> QED  BY <2>2, <3>1 DEF TypeOK
  <2>4. \A t \in Sweepers : todo'[t] \subseteq IF pc'[t] \in {"spaces", "branches"}
                                             THEN Residues ELSE Runs \X {"trace", "control"}
    BY <2>2 DEF TypeOK
  <2> QED  BY <2>1, <2>3, <2>4 DEF TypeOK, CutInv, runVars, residueVars
<1>9. ASSUME NEW s \in Sweepers, EndSweep(s) \/ SweepDies(s) PROVE ResidueInv'
  <2>1. Over(s) /\ faults' \in Nat
    BY <1>9 DEF EndSweep, SweepDies, Fault, TypeOK
  <2>2. /\ pc' \in [Sweepers -> {"idle", "spaces", "branches", "logs"}] /\ pc'[s] = "idle"
        /\ todo' = [todo EXCEPT ![s] = {}] /\ \A t \in Sweepers \ {s} : pc'[t] = pc[t]
        /\ dirs' \in [Sweepers -> SUBSET Places]
    BY <2>1 DEF Over, TypeOK
  <2>3. /\ memo' \in [Sweepers -> [Runs -> {"ask", "alive", "dead", "unknown"}]]
        /\ withheld' \in [Sweepers -> SUBSET Residues]
        /\ UNCHANGED <<runVars, residueVars>>
    BY <2>1 DEF Over, TypeOK
  <2> QED  BY <2>1, <2>2, <2>3 DEF TypeOK, CutInv, runVars, residueVars
<1>10. CASE UNCHANGED vars
  BY <1>10 DEF vars, TypeOK, CutInv
<1> QED
  BY <1>1, <1>2, <1>3, <1>4, <1>5, <1>6, <1>7, <1>8, <1>9, <1>10
  DEF Next, RunSteps, Sweeping

-----------------------------------------------------------------------------
(* Live Runs *)

\* What a Run's own step leaves alone.
LEMMA RunStepFrame ==
  ASSUME NEW x \in Residues,
         \/ Cut(x) \/ Prepared(x) \/ Edit(x) \/ CommitWork(x) \/ Publish(x)
         \/ OwnSalvage(x) \/ OwnReclaim(x) \/ DiscardStage(x) \/ DeletePublished(x)
  PROVE  Live(x) /\ UNCHANGED <<runVars, sweepVars>>
BY DEF Cut, Prepared, Edit, CommitWork, Publish, OwnSalvage, OwnReclaim, DiscardStage,
       DeletePublished

\* What is there of a Run's residue was there, or is the actor's own.
LEMMA ResidueGrows ==
  ASSUME ResidueInv, NEW x \in Residues,
         \/ Cut(x) \/ Prepared(x) \/ Edit(x) \/ CommitWork(x) \/ Publish(x)
         \/ OwnSalvage(x) \/ OwnReclaim(x) \/ DiscardStage(x) \/ DeletePublished(x)
  PROVE  \A y \in Residues \ {x} : ws'[y] = ws[y] /\ (y \in ref' => y \in ref)
BY DEF Cut, Prepared, Edit, CommitWork, Publish, OwnSalvage, OwnReclaim, DiscardStage,
       DeletePublished, Checkpoint, TakeAway, ResidueInv, TypeOK

\* A Sweep's step on a workspace or branch concerns that one only, and only
\* when its Run was read as dead.
LEMMA SweepStepFrame ==
  ASSUME ResidueInv, NEW s \in Sweepers, NEW x \in Residues,
         \/ Rescue(s, x) \/ Remove(s, x) \/ RemoveFails(s, x)
         \/ Collect(s, x) \/ LeaveBranch(s, x)
  PROVE  /\ UNCHANGED <<runVars, pc, dirs, memo>>
         /\ pc[s] \in {"spaces", "branches"} /\ x \in todo[s] /\ Dead(s, x)
         /\ \A y \in Residues \ {x} :
                ws'[y] = ws[y] /\ tip'[y] = tip[y] /\ (y \in ref' <=> y \in ref)
         /\ \A t \in Sweepers : todo'[t] \subseteq todo[t]
<1>1. CASE Rescue(s, x)
  BY <1>1 DEF Rescue, Checkpoint, ResidueInv, TypeOK
<1>2. CASE Remove(s, x)
  BY <1>2 DEF Remove, TakeAway, Decided, ResidueInv, TypeOK
<1>3. CASE RemoveFails(s, x)
  BY <1>3 DEF RemoveFails, Decided, ResidueInv, TypeOK
<1>4. CASE Collect(s, x)
  BY <1>4 DEF Collect, Decided, ResidueInv, TypeOK
<1>5. CASE LeaveBranch(s, x)
  BY <1>5 DEF LeaveBranch, residueVars, Decided, ResidueInv, TypeOK
<1> QED  BY <1>1, <1>2, <1>3, <1>4, <1>5

\* Only a Run that has ended is retired.
LEMMA RetireStep ==
  ASSUME LiveInv, NEW s \in Sweepers, NEW r \in Runs, RetireTrace(s, r) \/ RetireControl(s, r)
  PROVE  /\ run[r] = "dead" /\ pc[s] = "logs"
         /\ UNCHANGED <<run, ended, closed, residueVars, pc, dirs, memo, withheld>>
         /\ \A q \in Runs \ {r} : files'[q] = files[q]
         /\ files'[r] \subseteq files[r]
         /\ \A t \in Sweepers : \A x \in todo'[t] :
                x \in todo[t] \/ (t = s /\ x = <<r, "control">>)
<1>1. CASE RetireTrace(s, r)
  <2>1. run[r] = "dead"
    <3>1. run[r] # "live"
      BY <1>1 DEF RetireTrace, Finished, LiveInv, RunInv
    <3>2. files[r] # {}
      BY <1>1 DEF RetireTrace, Finished
    <3> QED  BY <3>1, <3>2 DEF LiveInv, ResidueInv, TypeOK, BornInv
  <2> QED  BY <1>1, <2>1 DEF RetireTrace, LiveInv, ResidueInv, TypeOK
<1>2. CASE RetireControl(s, r)
  <2>1. run[r] = "dead"
    BY <1>2 DEF RetireControl, LiveInv, ListedInv
  <2> QED  BY <1>2, <2>1 DEF RetireControl, LiveInv, ResidueInv, TypeOK
<1> QED  BY <1>1, <1>2

LEMMA LiveStep == LiveInv /\ [Next]_vars => LiveInv'
<1> SUFFICES ASSUME LiveInv, [Next]_vars PROVE LiveInv'
  OBVIOUS
<1>1. ResidueInv /\ ResidueInv'
  BY TypeStep DEF LiveInv
<1>2. ASSUME NEW r \in Runs, StartRun(r) PROVE LiveInv'
  <2>1. /\ run' = [run EXCEPT ![r] = "live"] /\ run[r] = "new"
        /\ files' = [files EXCEPT ![r] = {"trace", "control"}]
        /\ UNCHANGED <<ended, ws, ref, sweepVars>>
    BY <1>2 DEF StartRun, residueVars
  <2>2. \A q \in Runs : run[q] # "new" => run'[q] = run[q]
    BY <1>1, <2>1 DEF ResidueInv, TypeOK
  <2>3. RunInv'
    BY <1>1, <2>1, <2>2 DEF LiveInv, RunInv, ResidueInv, TypeOK
  <2>4. BornInv'
    BY <1>1, <2>1, <2>2, ResidueParts DEF LiveInv, BornInv, ResidueInv, TypeOK
  <2>5. ListedInv'
    BY <1>1, <2>1, <2>2, ResidueParts DEF LiveInv, ListedInv, sweepVars, ResidueInv, TypeOK
  <2>6. ReadInv'
    BY <2>1, <2>2 DEF LiveInv, ReadInv, sweepVars
  <2> QED  BY <1>1, <2>3, <2>4, <2>5, <2>6 DEF LiveInv
<1>3. ASSUME NEW r \in Runs, EndRun(r) PROVE LiveInv'
  <2>1. /\ run' = [run EXCEPT ![r] = "dead"] /\ run[r] = "live"
        /\ ended' \subseteq ended \cup {r} /\ UNCHANGED <<files, ws, ref, sweepVars>>
    BY <1>3 DEF EndRun, residueVars
  <2>2. \A q \in Runs : /\ run[q] # "new" => run'[q] # "new"
                        /\ run[q] = "dead" => run'[q] = "dead"
                        /\ run'[q] = "live" => run[q] = "live"
    BY <1>1, <2>1 DEF ResidueInv, TypeOK
  <2>3. RunInv'
    BY <1>1, <2>1, <2>2 DEF LiveInv, RunInv, ResidueInv, TypeOK
  <2>4. BornInv'
    BY <1>1, <2>1, <2>2, ResidueParts DEF LiveInv, BornInv
  <2>5. ListedInv'
    BY <1>1, <2>1, <2>2, ResidueParts DEF LiveInv, ListedInv, sweepVars, ResidueInv, TypeOK
  <2>6. ReadInv'
    BY <2>1, <2>2 DEF LiveInv, ReadInv, sweepVars
  <2> QED  BY <1>1, <2>3, <2>4, <2>5, <2>6 DEF LiveInv
<1>4. ASSUME NEW r \in Runs, CloseIssue(r) PROVE LiveInv'
  BY <1>1, <1>4 DEF CloseIssue, residueVars, sweepVars, LiveInv, RunInv, BornInv, ListedInv,
                    ReadInv
<1>5. ASSUME NEW x \in Residues,
             \/ Cut(x) \/ Prepared(x) \/ Edit(x) \/ CommitWork(x) \/ Publish(x)
             \/ OwnSalvage(x) \/ OwnReclaim(x) \/ DiscardStage(x) \/ DeletePublished(x)
      PROVE  LiveInv'
  <2>1. run[RunOf(x)] = "live" /\ UNCHANGED <<run, files, ended, pc, dirs, todo, memo>>
    BY <1>5, RunStepFrame DEF Live, runVars, sweepVars
  <2>2. \A y \in Residues \ {x} : ws'[y] = ws[y] /\ (y \in ref' => y \in ref)
    BY <1>1, <1>5, ResidueGrows
  <2>3. BornInv'
    BY <2>1, <2>2 DEF LiveInv, BornInv
  <2> QED  BY <1>1, <2>1, <2>3 DEF LiveInv, RunInv, ListedInv, ReadInv
<1>6. ASSUME NEW s \in Sweepers, BeginSweep(s) PROVE LiveInv'
  <2>1. /\ UNCHANGED <<run, files, ended, ws, ref, memo>>
        /\ pc[s] = "idle" /\ pc' = [pc EXCEPT ![s] = "spaces"]
        /\ \E X \in SUBSET {x \in Residues : ws[x] # "none"} : todo' = [todo EXCEPT ![s] = X]
    BY <1>6 DEF BeginSweep, runVars, residueVars
  <2>2. \/ dirs' = [dirs EXCEPT ![s] = Places]
        \/ dirs' = [dirs EXCEPT ![s] = {SweepHome[s]}] /\ "worktrees" \in Failures
    BY <1>6 DEF BeginSweep, Fault
  <2>3. ListedInv'
    <3>1. /\ pc'[s] = "spaces" /\ \A x \in todo'[s] : run[RunOf(x)] # "new"
          /\ \A t \in Sweepers \ {s} : pc'[t] = pc[t] /\ todo'[t] = todo[t]
      BY <1>1, <2>1 DEF LiveInv, BornInv, ResidueInv, TypeOK
    <3> QED  BY <2>1, <3>1 DEF LiveInv, ListedInv
  <2>4. ReadInv'
    <3>1. pc'[s] = "spaces" /\ \A t \in Sweepers \ {s} : pc'[t] = pc[t] /\ dirs'[t] = dirs[t]
      BY <1>1, <2>1, <2>2 DEF ResidueInv, TypeOK
    <3>3. SweepHome[s] \in dirs'[s] /\ ("worktrees" \in Failures \/ dirs'[s] = Places)
      <4>1. SweepHome[s] \in Places
        BY SweepAssumption
      <4> QED  BY <1>1, <2>2, <4>1 DEF ResidueInv, TypeOK
    <3>2. \A r \in Runs : memo'[s][r] = "ask"
      BY <2>1 DEF LiveInv, ReadInv
    <3> QED  BY <2>1, <3>1, <3>2, <3>3 DEF LiveInv, ReadInv
  <2> QED  BY <1>1, <2>1, <2>3, <2>4 DEF LiveInv, RunInv, BornInv
<1>7. ASSUME NEW s \in Sweepers, NEW r \in Runs, Ask(s, r) PROVE LiveInv'
  <2>1. /\ UNCHANGED <<run, files, ended, ws, ref, pc, dirs, todo>>
        /\ pc[s] \in {"spaces", "branches"}
        /\ \E x \in todo[s] : RunOf(x) = r
        /\ \/ memo' = [memo EXCEPT ![s][r] = "unknown"]
           \/ memo' = [memo EXCEPT ![s][r] =
                 IF run[r] = "live" /\ Home[r] \in dirs[s] THEN "alive" ELSE "dead"]
    BY <1>7 DEF Ask, runVars, residueVars
  <2>2. run[r] # "new"
    BY <2>1 DEF LiveInv, ListedInv
  <2>3. \A t \in Sweepers : \A q \in Runs :
            memo'[t][q] = "dead" => run[q] = "dead" \/ Home[q] \notin dirs[t]
    <3> SUFFICES ASSUME NEW t \in Sweepers, NEW q \in Runs, memo'[t][q] = "dead"
                 PROVE  run[q] = "dead" \/ Home[q] \notin dirs[t]
      OBVIOUS
    <3>1. CASE t = s /\ q = r
      BY <1>1, <2>1, <2>2, <3>1 DEF ResidueInv, TypeOK
    <3>2. CASE ~(t = s /\ q = r)
      <4>1. memo'[t][q] = memo[t][q]
        BY <1>1, <2>1, <3>2 DEF ResidueInv, TypeOK
      <4> QED  BY <4>1 DEF LiveInv, ReadInv
    <3> QED  BY <3>1, <3>2
  <2>4. \A t \in Sweepers : pc[t] = "idle" => memo'[t] = memo[t]
    BY <1>1, <2>1 DEF ResidueInv, TypeOK
  <2> QED  BY <1>1, <2>1, <2>3, <2>4 DEF LiveInv, RunInv, BornInv, ListedInv, ReadInv
<1>8. ASSUME NEW s \in Sweepers, NEW r \in Runs, RetireTrace(s, r) \/ RetireControl(s, r)
      PROVE  LiveInv'
  <2>1. /\ run[r] = "dead" /\ pc[s] = "logs"
        /\ UNCHANGED <<run, ended, ws, ref, pc, dirs, memo>>
        /\ \A q \in Runs \ {r} : files'[q] = files[q]
        /\ files'[r] \subseteq files[r]
        /\ \A t \in Sweepers : \A x \in todo'[t] :
               x \in todo[t] \/ (t = s /\ x = <<r, "control">>)
    BY <1>8, RetireStep DEF residueVars
  <2>2. ListedInv'
    BY <2>1 DEF LiveInv, ListedInv
  <2> QED  BY <1>1, <2>1, <2>2 DEF LiveInv, RunInv, BornInv, ReadInv
<1>9. ASSUME NEW s \in Sweepers, NEW r \in Runs, KeepLog(s, r) PROVE LiveInv'
  <2>1. /\ UNCHANGED <<run, files, ended, ws, ref, pc, dirs, memo>>
        /\ \E x \in todo[s] : todo' = [todo EXCEPT ![s] = @ \ {x}]
    BY <1>9 DEF KeepLog, runVars, residueVars, Decided
  <2>2. \A t \in Sweepers : todo'[t] \subseteq todo[t]
    BY <1>1, <2>1 DEF ResidueInv, TypeOK
  <2> QED  BY <1>1, <2>1, <2>2 DEF LiveInv, RunInv, BornInv, ListedInv, ReadInv
<1>10. ASSUME NEW s \in Sweepers, NEW x \in Residues,
              \/ Rescue(s, x) \/ Remove(s, x) \/ RemoveFails(s, x)
              \/ Collect(s, x) \/ LeaveBranch(s, x)
       PROVE  LiveInv'
  <2>1. /\ UNCHANGED <<run, files, ended, pc, dirs, memo>>
        /\ run[RunOf(x)] # "new"
        /\ \A y \in Residues \ {x} : ws'[y] = ws[y] /\ (y \in ref' <=> y \in ref)
        /\ \A t \in Sweepers : todo'[t] \subseteq todo[t]
    <3>1. pc[s] \in {"spaces", "branches"} /\ x \in todo[s]
      BY <1>1, <1>10, SweepStepFrame
    <3> QED  BY <1>1, <1>10, <3>1, SweepStepFrame DEF runVars, LiveInv, ListedInv
  <2> QED  BY <1>1, <2>1 DEF LiveInv, RunInv, BornInv, ListedInv, ReadInv
<1>11. ASSUME NEW s \in Sweepers, ToBranches(s) \/ ToLogs(s) PROVE LiveInv'
  <2>1. UNCHANGED <<run, files, ended, ws, ref, dirs, memo>>
        /\ pc[s] # "idle" /\ (pc'[s] = "idle" => pc[s] = "idle")
    BY <1>1, <1>11 DEF ToBranches, ToLogs, runVars, residueVars, ResidueInv, TypeOK
  <2>2. \A t \in Sweepers \ {s} : pc'[t] = pc[t] /\ todo'[t] = todo[t]
    BY <1>1, <1>11 DEF ToBranches, ToLogs, ResidueInv, TypeOK
  <2>3. \/ pc'[s] = "branches" /\ todo'[s] \subseteq ref
        \/ pc'[s] = "logs" /\ \A x \in todo'[s] : x[2] = "trace"
    <3>1. CASE ToBranches(s)
      BY <1>1, <3>1 DEF ToBranches, ResidueInv, TypeOK
    <3>2. CASE ToLogs(s)
      <4>1. pc'[s] = "logs"
            /\ todo'[s] = {<<r, "trace">> :
                   r \in {q \in Runs : Home[q] \in dirs[s] /\ files[q] # {} /\ Old(q)}}
        BY <1>1, <3>2 DEF ToLogs, ResidueInv, TypeOK
      <4> QED  BY <4>1
    <3> QED  BY <1>11, <3>1, <3>2
  <2>4. ListedInv'
    <3>1. \A x \in Residues : x \in ref => run[RunOf(x)] # "new"
      BY DEF LiveInv, BornInv
    <3>2. ref \subseteq Residues
      BY <1>1 DEF ResidueInv, TypeOK
    <3>3. /\ pc'[s] \in {"spaces", "branches"} => \A x \in todo'[s] : run[RunOf(x)] # "new"
          /\ pc'[s] = "logs" => \A x \in todo'[s] : x[2] = "control" => run[x[1]] = "dead"
      BY <2>3, <3>1, <3>2
    <3> QED  BY <2>1, <2>2, <3>3 DEF LiveInv, ListedInv
  <2>5. ReadInv'
    BY <2>1, <2>2 DEF LiveInv, ReadInv
  <2> QED  BY <1>1, <2>1, <2>4, <2>5 DEF LiveInv, RunInv, BornInv
<1>12. ASSUME NEW s \in Sweepers, EndSweep(s) \/ SweepDies(s) PROVE LiveInv'
  <2>1. Over(s) /\ UNCHANGED <<run, files, ended, ws, ref>>
    BY <1>12 DEF EndSweep, SweepDies, Over, runVars, residueVars
  <2>2. /\ pc'[s] = "idle" /\ \A r \in Runs : memo'[s][r] = "ask"
        /\ \A t \in Sweepers \ {s} : /\ pc'[t] = pc[t] /\ todo'[t] = todo[t]
                                     /\ dirs'[t] = dirs[t] /\ memo'[t] = memo[t]
    BY <1>1, <2>1 DEF Over, ResidueInv, TypeOK
  <2> QED  BY <1>1, <2>1, <2>2 DEF LiveInv, RunInv, BornInv, ListedInv, ReadInv
<1>13. CASE UNCHANGED vars
  BY <1>1, <1>13 DEF vars, LiveInv, RunInv, BornInv, ListedInv, ReadInv
<1> QED
  BY <1>2, <1>3, <1>4, <1>5, <1>6, <1>7, <1>8, <1>9, <1>10, <1>11, <1>12, <1>13
  DEF Next, RunSteps, Sweeping

-----------------------------------------------------------------------------
(* The theorems *)

LEMMA InitKeeps == Init => LiveInv
BY SweepAssumption DEF Init, LiveInv, ResidueInv, TypeOK, CutInv, RunInv, BornInv, ListedInv,
                       ReadInv, IsStage

\* Runs, Sweeps, failures and kills keep every part of the state in its type.
THEOREM TypeCorrect == Spec => []TypeOK
<1>1. Init => ResidueInv
  BY InitKeeps DEF LiveInv
<1>2. ResidueInv => TypeOK
  BY DEF ResidueInv
<1> QED  BY <1>1, <1>2, TypeStep, PTL DEF Spec

\* What a Sweep has read and listed is never older than what has ended.
THEOREM LiveHolds == Spec => []LiveInv
BY InitKeeps, LiveStep, PTL DEF Spec

Untouched(r) ==
    /\ files'[r] = files[r]
    /\ \A x \in Residues : RunOf(x) = r =>
           ws'[x] = ws[x] /\ tip'[x] = tip[x] /\ (x \in ref <=> x \in ref')

\* A Sweep touches a live Run only where it took it for dead, and it takes for
\* dead only one that lives in a worktree it did not list.
LEMMA SweepingSpares ==
  ASSUME LiveInv, NEW s \in Sweepers, Sweeping(s),
         NEW r \in Runs, run[r] = "live", Home[r] \in dirs[s]
  PROVE  Untouched(r)
<1>1. ASSUME NEW q \in Runs, Ask(s, q) \/ KeepLog(s, q)
      PROVE  Untouched(r)
  BY <1>1 DEF Ask, KeepLog, runVars, residueVars, Untouched
<1>2. ASSUME NEW q \in Runs, RetireTrace(s, q) \/ RetireControl(s, q)
      PROVE  Untouched(r)
  <2>1. q # r
    BY <1>2, RetireStep
  <2> QED  BY <1>2, <2>1, RetireStep DEF residueVars, Untouched
<1>3. ASSUME NEW x \in Residues,
             \/ Rescue(s, x) \/ Remove(s, x) \/ RemoveFails(s, x)
             \/ Collect(s, x) \/ LeaveBranch(s, x)
      PROVE  Untouched(r)
  <2>1. ResidueInv
    BY DEF LiveInv
  <2>2. Dead(s, x) /\ RunOf(x) \in Runs
    BY <1>3, <2>1, SweepStepFrame, ResidueParts
  <2>3. RunOf(x) # r
    BY <2>2 DEF Dead, LiveInv, ReadInv
  <2> QED  BY <1>3, <2>1, <2>3, SweepStepFrame DEF runVars, Untouched
<1>4. ASSUME ToBranches(s) \/ ToLogs(s) \/ EndSweep(s) \/ SweepDies(s)
      PROVE  Untouched(r)
  BY <1>4 DEF ToBranches, ToLogs, EndSweep, SweepDies, Over, runVars, residueVars, Untouched
<1> QED  BY <1>1, <1>2, <1>3, <1>4 DEF Sweeping

\* Where git can list worktrees, no Sweep touches a live Run, however many
\* Sweeps and Runs there are and whatever else fails.
THEOREM LiveUntouchedHolds ==
  ASSUME "worktrees" \notin Failures
  PROVE  Spec => LiveUntouched
<1>1. LiveInv /\ Next =>
          UNCHANGED <<todo, withheld>> \/ \A r \in Runs : run[r] = "live" => Untouched(r)
  <2> SUFFICES ASSUME LiveInv, Next
               PROVE  \/ UNCHANGED <<todo, withheld>>
                      \/ \A r \in Runs : run[r] = "live" => Untouched(r)
    OBVIOUS
  <2>1. CASE RunSteps
    <3>1. ASSUME NEW r \in Runs, StartRun(r) \/ EndRun(r) \/ CloseIssue(r)
          PROVE  UNCHANGED <<todo, withheld>>
      BY <3>1 DEF StartRun, EndRun, CloseIssue, sweepVars
    <3>2. ASSUME NEW x \in Residues,
                 \/ Cut(x) \/ Prepared(x) \/ Edit(x) \/ CommitWork(x) \/ Publish(x)
                 \/ OwnSalvage(x) \/ OwnReclaim(x) \/ DiscardStage(x) \/ DeletePublished(x)
          PROVE  UNCHANGED <<todo, withheld>>
      BY <3>2, RunStepFrame DEF sweepVars
    <3> QED  BY <2>1, <3>1, <3>2 DEF RunSteps
  <2>2. ASSUME NEW s \in Sweepers, BeginSweep(s), NEW r \in Runs PROVE Untouched(r)
    BY <2>2 DEF BeginSweep, runVars, residueVars, Untouched
  <2>3. ASSUME NEW s \in Sweepers, Sweeping(s), NEW r \in Runs, run[r] = "live"
        PROVE  Untouched(r)
    <3>1. pc[s] # "idle"
      BY <2>3, RetireStep, SweepStepFrame
      DEF Sweeping, LiveInv, Ask, KeepLog, ToBranches, ToLogs, EndSweep, SweepDies
    <3>2. Home[r] \in dirs[s]
      BY <3>1, SweepAssumption DEF LiveInv, ReadInv
    <3> QED  BY <2>3, <3>2, SweepingSpares
  <2> QED  BY <2>1, <2>2, <2>3 DEF Next
<1>2. LiveInv /\ [Next]_vars =>
        [\A s \in Sweepers :
           pc[s] # "idle" /\ (todo' # todo \/ withheld' # withheld) =>
               \A r \in Runs : run[r] = "live" =>
                   /\ files'[r] = files[r]
                   /\ \A x \in Residues : RunOf(x) = r =>
                          ws'[x] = ws[x] /\ tip'[x] = tip[x] /\ (x \in ref <=> x \in ref')]_vars
  <2> SUFFICES ASSUME LiveInv, Next, todo' # todo \/ withheld' # withheld,
                      NEW r \in Runs, run[r] = "live"
               PROVE  Untouched(r)
    BY DEF Untouched
  <2>1. ~UNCHANGED <<todo, withheld>>
    OBVIOUS
  <2> QED  BY <1>1, <2>1
<1> QED  BY <1>2, LiveHolds, PTL DEF Spec, LiveUntouched

\* Where git cannot list them (_control_dirs), a live Run is still safe from
\* any Sweep that stands in its own worktree.
OwnWorktreeSpared ==
    [][\A s \in Sweepers : Sweeping(s) =>
           \A r \in Runs : run[r] = "live" /\ Home[r] = SweepHome[s] => Untouched(r)]_vars

\* Whatever fails, a Sweep endangers only live Runs of other worktrees: the
\* exact extent of what a failed listing costs.
THEOREM OwnWorktreeSparedHolds == Spec => OwnWorktreeSpared
<1>1. ASSUME LiveInv, NEW s \in Sweepers, Sweeping(s),
             NEW r \in Runs, run[r] = "live", Home[r] = SweepHome[s]
      PROVE  Untouched(r)
  <2>1. pc[s] # "idle"
    BY <1>1, RetireStep, SweepStepFrame
    DEF Sweeping, LiveInv, Ask, KeepLog, ToBranches, ToLogs, EndSweep, SweepDies
  <2>2. Home[r] \in dirs[s]
    BY <1>1, <2>1 DEF LiveInv, ReadInv
  <2> QED  BY <1>1, <2>2, SweepingSpares
<1>2. LiveInv /\ [Next]_vars =>
          [\A s \in Sweepers : Sweeping(s) =>
               \A r \in Runs : run[r] = "live" /\ Home[r] = SweepHome[s] => Untouched(r)]_vars
  BY <1>1
<1> QED  BY <1>2, LiveHolds, PTL DEF Spec, OwnWorktreeSpared

\* A Lane's unseen work is lost at no step, also not where a Sweep has taken
\* its live Run for dead.
THEOREM UnseenWorkSurvivesHolds == Spec => UnseenWorkSurvives
<1>1. ResidueInv /\ [Next]_vars =>
          [\A x \in Residues : ~IsStage(x) /\ Kept(x) =>
               Kept(x)' \/ (Live(x) /\ tip'[x] = "work" /\ ws'[x] = "clean")]_vars
  <2> SUFFICES ASSUME ResidueInv, Next, NEW x \in Residues, ~IsStage(x), Kept(x)
               PROVE  Kept(x)' \/ (Live(x) /\ tip'[x] = "work" /\ ws'[x] = "clean")
    OBVIOUS
  <2>1. CASE UNCHANGED residueVars
    BY <2>1 DEF Kept, residueVars
  <2>2. ASSUME NEW y \in Residues, Cut(y) \/ Prepared(y) \/ Edit(y)
        PROVE  Kept(x)'
    BY <2>2 DEF Cut, Prepared, Edit, Kept, Cloned, ResidueInv, TypeOK, CutInv
  <2>3. ASSUME NEW y \in Residues, CommitWork(y)
        PROVE  Kept(x)' \/ (Live(x) /\ tip'[x] = "work" /\ ws'[x] = "clean")
    BY <2>3 DEF CommitWork, Kept, ResidueInv, TypeOK
  <2>4. ASSUME NEW y \in Residues, Publish(y) \/ DiscardStage(y) \/ DeletePublished(y)
        PROVE  Kept(x)'
    BY <2>4 DEF Publish, DiscardStage, DeletePublished, Kept, ResidueInv, TypeOK
  <2>5. ASSUME NEW y \in Residues, Checkpoint(y) PROVE Kept(x)'
    BY <2>5 DEF Checkpoint, Kept, ResidueInv, TypeOK
  <2>6. ASSUME NEW y \in Residues, TakeAway(y),
               ws[y] \in {"clean", "preparing"} \/ (ws[y] = "dirty" /\ IsStage(y))
        PROVE  Kept(x)'
    BY <2>6 DEF TakeAway, Kept, Cloned, ResidueInv, TypeOK, CutInv
  <2>7. ASSUME NEW s \in Sweepers, NEW y \in Residues, RemoveFails(s, y) PROVE Kept(x)'
    BY <2>7 DEF RemoveFails, Kept
  <2>8. ASSUME NEW s \in Sweepers, NEW y \in Residues, Collect(s, y) PROVE Kept(x)'
    BY <2>8 DEF Collect, Resolved, Kept
  <2>9. ASSUME RunSteps
        PROVE  \/ UNCHANGED residueVars
               \/ \E y \in Residues :
                      \/ Cut(y) \/ Prepared(y) \/ Edit(y) \/ CommitWork(y)
                      \/ Publish(y) \/ DiscardStage(y) \/ DeletePublished(y)
                      \/ Checkpoint(y)
                      \/ TakeAway(y) /\ ws[y] = "clean"
    BY <2>9 DEF RunSteps, StartRun, EndRun, CloseIssue, OwnSalvage, OwnReclaim
  <2>10. ASSUME NEW s \in Sweepers, BeginSweep(s) \/ Sweeping(s)
         PROVE  \/ UNCHANGED residueVars
                \/ \E y \in Residues :
                       \/ Checkpoint(y) \/ RemoveFails(s, y) \/ Collect(s, y)
                       \/ /\ TakeAway(y)
                          /\ ws[y] \in {"clean", "preparing"} \/ (ws[y] = "dirty" /\ IsStage(y))
    BY <2>10 DEF BeginSweep, Sweeping, Ask, RetireTrace, RetireControl, KeepLog, Rescue,
                 Remove, LeaveBranch, ToBranches, ToLogs, EndSweep, SweepDies, Over
  <2> QED
    BY <2>1, <2>2, <2>3, <2>4, <2>5, <2>6, <2>7, <2>8, <2>9, <2>10 DEF Next
<1>2. Init => ResidueInv
  BY InitKeeps DEF LiveInv
<1> QED  BY <1>1, <1>2, TypeStep, PTL DEF Spec, UnseenWorkSurvives

\* Only a landed branch of an open issue's Lane is ever deleted.
THEOREM OpenIssueKeepsWorkHolds == Spec => OpenIssueKeepsWork
<1>1. ResidueInv /\ [Next]_vars =>
          [\A x \in Residues :
               ~IsStage(x) /\ RunOf(x) \notin closed' /\ x \in ref /\ x \notin ref' =>
                   x \in landed]_vars
  <2> SUFFICES ASSUME ResidueInv, Next, NEW x \in Residues,
                      ~IsStage(x), RunOf(x) \notin closed', x \in ref, x \notin ref'
               PROVE  x \in landed
    OBVIOUS
  <2>1. ASSUME RunSteps PROVE x \in landed
    BY <2>1 DEF RunSteps, StartRun, EndRun, CloseIssue, Cut, Prepared, Edit, CommitWork,
                Publish, OwnSalvage, OwnReclaim, DiscardStage, DeletePublished, Checkpoint,
                TakeAway, residueVars
  <2>2. ASSUME NEW s \in Sweepers, BeginSweep(s) \/ Sweeping(s) PROVE x \in landed
    <3>1. CASE \E y \in Residues : Collect(s, y)
      BY <3>1 DEF Collect, Resolved, runVars
    <3>2. CASE ~\E y \in Residues : Collect(s, y)
      BY <2>2, <3>2 DEF BeginSweep, Sweeping, Ask, RetireTrace, RetireControl, KeepLog,
                        Rescue, Remove, RemoveFails, LeaveBranch, ToBranches, ToLogs,
                        EndSweep, SweepDies, Over, Checkpoint, TakeAway, residueVars
    <3> QED  BY <3>1, <3>2
  <2> QED  BY <2>1, <2>2 DEF Next
<1>2. Init => ResidueInv
  BY InitKeeps DEF LiveInv
<1> QED  BY <1>1, <1>2, TypeStep, PTL DEF Spec, OpenIssueKeepsWork

\* What proves a Run dead outlives the trace it proves dead, whichever Sweeps
\* retire it, fail or are killed between the two deletions.
ProofGoesLast == \A r \in Runs : "trace" \in files[r] => "control" \in files[r]

\* The safety half of RetentionCompletes: what an interrupted retention leaves
\* behind is always enough for the next Sweep to finish it.
THEOREM ProofGoesLastHolds == Spec => []ProofGoesLast
<1>1. Init => ProofGoesLast
  BY DEF Init, ProofGoesLast
<1>2. ASSUME ResidueInv, ProofGoesLast, [Next]_vars PROVE ProofGoesLast'
  <2>1. CASE files' = files
    BY <1>2, <2>1 DEF ProofGoesLast
  <2>2. ASSUME NEW r \in Runs, StartRun(r) PROVE ProofGoesLast'
    BY <1>2, <2>2 DEF StartRun, ProofGoesLast, ResidueInv, TypeOK
  <2>3. ASSUME NEW s \in Sweepers, NEW r \in Runs, RetireTrace(s, r) \/ RetireControl(s, r)
        PROVE  ProofGoesLast'
    <3>1. PICK T \in {{"trace"}, {"trace", "control"}} : files' = [files EXCEPT ![r] = @ \ T]
      BY <2>3 DEF RetireTrace, RetireControl
    <3>2. "trace" \notin files'[r] /\ \A q \in Runs \ {r} : files'[q] = files[q]
      BY <1>2, <3>1 DEF ResidueInv, TypeOK
    <3> QED  BY <1>2, <3>2 DEF ProofGoesLast
  <2>4. RunSteps => files' = files \/ \E r \in Runs : StartRun(r)
    BY RunStepFrame DEF RunSteps, EndRun, CloseIssue, runVars
  <2>5. ASSUME NEW s \in Sweepers, BeginSweep(s) \/ Sweeping(s)
        PROVE  \/ files' = files
               \/ \E r \in Runs : RetireTrace(s, r) \/ RetireControl(s, r)
    <3>1. ASSUME NEW x \in Residues,
                 \/ Rescue(s, x) \/ Remove(s, x) \/ RemoveFails(s, x)
                 \/ Collect(s, x) \/ LeaveBranch(s, x)
          PROVE  files' = files
      BY <1>2, <3>1, SweepStepFrame DEF runVars
    <3> QED
      BY <2>5, <3>1 DEF BeginSweep, Sweeping, Ask, KeepLog, ToBranches, ToLogs, EndSweep,
                        SweepDies, Over, runVars
  <2> QED  BY <1>2, <2>1, <2>2, <2>3, <2>4, <2>5 DEF Next, vars
<1>3. Init => ResidueInv
  BY InitKeeps DEF LiveInv
<1> QED  BY <1>1, <1>2, <1>3, TypeStep, PTL DEF Spec
=============================================================================
