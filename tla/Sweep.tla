------------------------------- MODULE Sweep -------------------------------
(***************************************************************************)
(* What Runs leave behind in a clone, and the Sweep that reclaims it.      *)
(*                                                                         *)
(* A live Run holds the lock of its control artifact, which lies beside    *)
(* its trace in the worktree it was started in.  The workspaces and the    *)
(* reserved branches it cuts belong to the whole clone.  A Sweep, at the   *)
(* start of a Run or by an operator's command, lists both, asks once for   *)
(* each Run whether it is dead, salvages and removes a dead Run's          *)
(* workspaces, deletes its resolved branches and retires old traces.       *)
(***************************************************************************)
EXTENDS Naturals, FiniteSets

CONSTANTS
    Runs,       \* numbered in the order of their start, as trace stems sort
    Residues,   \* <<run, "lane">> and <<run, "stage">>: what Runs may cut
    Places,     \* the registered worktrees of the clone
    Home,       \* the worktree each Run is started in
    Sweepers,   \* Sweeps that may be under way at once
    SweepHome,  \* the worktree each of them stands in
    Sandboxed,  \* stages are Issue clones instead of worktrees
    KeepLogs,   \* MAX_HISTORY_LOGS
    Failures,   \* the kinds of failure that may happen
    MaxFaults   \* bound: failures and killed Sweeps

ASSUME SweepAssumption ==
    /\ Runs \subseteq Nat /\ IsFiniteSet(Runs)
    /\ Residues \subseteq Runs \X {"lane", "stage"}
    /\ Home \in [Runs -> Places] /\ SweepHome \in [Sweepers -> Places]
    /\ Sandboxed \in BOOLEAN /\ KeepLogs \in Nat /\ MaxFaults \in Nat

VARIABLES
    run,       \* new, live or dead; a live Run holds its control lock
    files,     \* what is left of a Run's trace and control artifact
    ended,     \* Runs whose trace ends with wrapper.run.end
    ws,        \* workspaces: none, preparing, clean or dirty
    tip,       \* what a branch ends in: nothing yet, base, work, checkpoint
    landed,    \* branches whose tip base contains
    ref,       \* branches this clone has; an Issue clone's comes on import
    closed,    \* Runs whose issue has been closed
    pc,        \* a Sweep's pass: idle, spaces, branches or logs
    dirs,      \* the worktrees it looks for control artifacts in
    todo,      \* workspaces, branches or Runs it has not decided on yet
    memo,      \* what it has read of a Run: ask, alive, dead or unknown
    withheld,  \* branches it may not collect
    faults

vars == <<run, files, ended, ws, tip, landed, ref, closed,
          pc, dirs, todo, memo, withheld, faults>>

runVars == <<run, files, ended, closed>>
residueVars == <<ws, tip, landed, ref>>
sweepVars == <<pc, dirs, todo, memo, withheld>>

RunOf(x) == x[1]
IsStage(x) == x[2] = "stage"
Cloned(x) == ~IsStage(x) \/ Sandboxed

Init ==
    /\ run = [r \in Runs |-> "new"]
    /\ files = [r \in Runs |-> {}]
    /\ ended = {} /\ closed = {} /\ landed = {} /\ ref = {}
    /\ ws = [x \in Residues |-> "none"]
    /\ tip = [x \in Residues |-> "none"]
    /\ pc = [s \in Sweepers |-> "idle"]
    /\ dirs = [s \in Sweepers |-> {}]
    /\ todo = [s \in Sweepers |-> {}]
    /\ memo = [s \in Sweepers |-> [r \in Runs |-> "ask"]]
    /\ withheld = [s \in Sweepers |-> {}]
    /\ faults = 0

Fault(kind) ==
    kind \in Failures /\ faults < MaxFaults /\ faults' = faults + 1

Live(x) == run[RunOf(x)] = "live"

-----------------------------------------------------------------------------
(* A Run and its workspaces *)

\* RunControlArtifact.acquire: the lock is held before anything is cut.
StartRun(r) ==
    /\ run[r] = "new" /\ \A q \in Runs : q < r => run[q] # "new"
    /\ run' = [run EXCEPT ![r] = "live"]
    /\ files' = [files EXCEPT ![r] = {"trace", "control"}]
    /\ UNCHANGED <<ended, closed, residueVars, sweepVars, faults>>

\* A Run's exit reclaims what it can; what is left is as after a kill, but
\* for the run-end record.  Either way the lock is free.
EndRun(r) ==
    /\ run[r] = "live"
    /\ run' = [run EXCEPT ![r] = "dead"]
    /\ ended' \in {ended, ended \cup {r}}
    /\ UNCHANGED <<files, closed, residueVars, sweepVars, faults>>

\* A clone reserves its namespace first; a worktree has its branch at once.
Cut(x) ==
    /\ Live(x) /\ ws[x] = "none" /\ tip[x] = "none"
    /\ IsStage(x) => <<RunOf(x), "lane">> \in ref /\ ws[<<RunOf(x), "lane">>] = "none"
    /\ IF Cloned(x)
       THEN /\ ws' = [ws EXCEPT ![x] = "preparing"]
            /\ UNCHANGED <<tip, landed, ref>>
       ELSE /\ ws' = [ws EXCEPT ![x] = "clean"]
            /\ tip' = [tip EXCEPT ![x] = "base"]
            /\ landed' = landed \cup {x} /\ ref' = ref \cup {x}
    /\ UNCHANGED <<runVars, sweepVars, faults>>

Prepared(x) ==
    /\ Live(x) /\ ws[x] = "preparing"
    /\ ws' = [ws EXCEPT ![x] = "clean"]
    /\ tip' = [tip EXCEPT ![x] = "base"]
    /\ landed' = landed \cup {x}
    /\ UNCHANGED <<ref, runVars, sweepVars, faults>>

\* An Agent, or the merge of a contribution into its stage, leaves changes.
Edit(x) ==
    /\ Live(x) /\ ws[x] = "clean" /\ tip[x] # "checkpoint"
    /\ IsStage(x) => tip[x] = "base"
    /\ ws' = [ws EXCEPT ![x] = "dirty"]
    /\ UNCHANGED <<tip, landed, ref, runVars, sweepVars, faults>>

CommitWork(x) ==
    /\ Live(x) /\ ws[x] = "dirty"
    /\ ws' = [ws EXCEPT ![x] = "clean"]
    /\ tip' = [tip EXCEPT ![x] = "work"]
    /\ landed' = landed \ {x}
    /\ UNCHANGED <<ref, runVars, sweepVars, faults>>

\* A verified stage is published: base contains it and its contribution.
Publish(x) ==
    /\ Live(x) /\ IsStage(x) /\ ws[x] = "clean" /\ tip[x] = "work"
    /\ landed' = landed \cup {x, <<RunOf(x), "lane">>}
    /\ UNCHANGED <<ws, tip, ref, runVars, sweepVars, faults>>

\* What was never committed becomes a Checkpoint at the branch's tip.
Checkpoint(x) ==
    /\ ws' = [ws EXCEPT ![x] = "clean"]
    /\ tip' = [tip EXCEPT ![x] = "checkpoint"]
    /\ landed' = landed \ {x}
    /\ UNCHANGED ref

\* reclaim_issue_clone imports the branch before it removes the clone; a
\* clone still in preparation has nothing to import.
TakeAway(x) ==
    /\ ws' = [ws EXCEPT ![x] = "none"]
    /\ IF Cloned(x) /\ ws[x] # "preparing"
       THEN ref' = ref \cup {x} ELSE UNCHANGED ref
    /\ UNCHANGED <<tip, landed>>

\* A Run's own salvage, at the end of a Lane and at the Run's exit, and of a
\* stage whose Recovery an account failure interrupted.
OwnSalvage(x) ==
    /\ Live(x) /\ ws[x] = "dirty"
    /\ Checkpoint(x)
    /\ UNCHANGED <<runVars, sweepVars, faults>>

\* The removal that follows.  One that fails leaves residue.
OwnReclaim(x) ==
    /\ Live(x) /\ ws[x] = "clean"
    /\ TakeAway(x)
    /\ UNCHANGED <<runVars, sweepVars, faults>>

\* An unpublished, uninterrupted stage worktree is discarded as it stands.
DiscardStage(x) ==
    /\ Live(x) /\ IsStage(x) /\ ~Cloned(x)
    /\ ws[x] \in {"clean", "dirty"} /\ tip[x] # "checkpoint"
    /\ ws' = [ws EXCEPT ![x] = "none"]
    /\ ref' = ref \ {x}
    /\ UNCHANGED <<tip, landed, runVars, sweepVars, faults>>

\* The branch of what was published is deleted, unless it has Checkpoints.
DeletePublished(x) ==
    /\ Live(x) /\ x \in ref \cap landed /\ ws[x] = "none" /\ tip[x] = "work"
    /\ ref' = ref \ {x}
    /\ UNCHANGED <<ws, tip, landed, runVars, sweepVars, faults>>

CloseIssue(r) ==
    /\ run[r] # "new" /\ r \notin closed /\ \E x \in Residues : RunOf(x) = r
    /\ closed' = closed \cup {r}
    /\ UNCHANGED <<run, files, ended, residueVars, sweepVars, faults>>

-----------------------------------------------------------------------------
(* A Sweep: workspaces, then branches, then logs *)

\* Everything listed once.  git may fail to list worktrees, as any before
\* 2.36 does; the clones are read from its configuration all the same.
BeginSweep(s) ==
    /\ pc[s] = "idle"
    /\ pc' = [pc EXCEPT ![s] = "spaces"]
    /\ \/ /\ dirs' = [dirs EXCEPT ![s] = Places]
          /\ todo' = [todo EXCEPT ![s] = {x \in Residues : ws[x] # "none"}]
          /\ UNCHANGED faults
       \/ /\ Fault("worktrees")
          /\ dirs' = [dirs EXCEPT ![s] = {SweepHome[s]}]
          /\ todo' = [todo EXCEPT ![s] = {x \in Residues : ws[x] # "none" /\ Cloned(x)}]
    /\ UNCHANGED <<runVars, residueVars, memo, withheld>>

Dead(s, x) == memo[s][RunOf(x)] = "dead"
Decided(s, x) == todo' = [todo EXCEPT ![s] = @ \ {x}]

\* Mutant: an artifact nobody can read counts as one that is not there.
AskHopeful(s, r) ==
    /\ pc[s] \in {"spaces", "branches"} /\ memo[s][r] = "ask"
    /\ \E x \in todo[s] : RunOf(x) = r
    /\ \/ /\ memo' = [memo EXCEPT ![s][r] =
                 IF run[r] = "live" /\ Home[r] \in dirs[s] THEN "alive" ELSE "dead"]
          /\ UNCHANGED faults
       \/ Fault("locks") /\ memo' = [memo EXCEPT ![s][r] = "dead"]
    /\ UNCHANGED <<runVars, residueVars, pc, dirs, todo, withheld>>

\* The oracle of _liveness_by_run: any lock held is life, anything unreadable
\* is unknown, and the answer is kept for the length of the Sweep.
Ask(s, r) ==
    /\ pc[s] \in {"spaces", "branches"} /\ memo[s][r] = "ask"
    /\ \E x \in todo[s] : RunOf(x) = r
    /\ \/ /\ memo' = [memo EXCEPT ![s][r] =
                 IF run[r] = "live" /\ Home[r] \in dirs[s] THEN "alive" ELSE "dead"]
          /\ UNCHANGED faults
       \/ Fault("locks") /\ memo' = [memo EXCEPT ![s][r] = "unknown"]
    /\ UNCHANGED <<runVars, residueVars, pc, dirs, todo, withheld>>

\* Unseen work in a workspace is committed first; a stage is never salvaged.
Rescue(s, x) ==
    /\ pc[s] = "spaces" /\ x \in todo[s] /\ Dead(s, x)
    /\ ws[x] = "dirty" /\ ~IsStage(x)
    /\ Checkpoint(x)
    /\ withheld' = [withheld EXCEPT ![s] = @ \cup {x}]
    /\ UNCHANGED <<runVars, pc, dirs, todo, memo, faults>>

Remove(s, x) ==
    /\ pc[s] = "spaces" /\ x \in todo[s] /\ Dead(s, x)
    /\ ws[x] \in {"clean", "preparing"} \/ (ws[x] = "dirty" /\ IsStage(x))
    /\ TakeAway(x) /\ Decided(s, x)
    /\ UNCHANGED <<runVars, pc, dirs, memo, withheld, faults>>

\* The state, the commit, the import, the Checkpoint's push or the removal
\* fails, or the workspace is gone: it stays, and its branch with it.
RemoveFails(s, x) ==
    /\ pc[s] = "spaces" /\ x \in todo[s] /\ Dead(s, x)
    /\ \/ ws[x] = "none" /\ UNCHANGED <<ref, faults>>
       \/ /\ Fault("salvage")
          /\ ref' \in IF Cloned(x) /\ ws[x] = "clean" THEN {ref, ref \cup {x}} ELSE {ref}
    /\ withheld' = [withheld EXCEPT ![s] = @ \cup {x}] /\ Decided(s, x)
    /\ UNCHANGED <<ws, tip, landed, runVars, pc, dirs, memo>>

\* A pass is over when what is left belongs to Runs not known to be dead.
Passed(s) == \A x \in todo[s] : memo[s][RunOf(x)] \in {"alive", "unknown"}

ToBranches(s) ==
    /\ pc[s] = "spaces" /\ Passed(s)
    /\ pc' = [pc EXCEPT ![s] = "branches"]
    /\ todo' = [todo EXCEPT ![s] = ref \ withheld[s]]
    /\ UNCHANGED <<runVars, residueVars, dirs, memo, withheld, faults>>

\* Mutant: a closed issue resolves whatever its branch ends in.
ResolvedByIssue(x) == IsStage(x) \/ x \in landed \/ RunOf(x) \in closed

\* _is_resolved: a closed issue says nothing of a Checkpoint nobody has seen.
Resolved(x) ==
    \/ IsStage(x)
    \/ x \in landed
    \/ RunOf(x) \in closed /\ tip[x] # "checkpoint"

\* Mutant: a dead Run's branch is collected whether it is resolved or not.
CollectDead(s, x) ==
    /\ pc[s] = "branches" /\ x \in todo[s] /\ Dead(s, x)
    /\ ref' = IF ~Cloned(x) /\ ws[x] # "none" THEN ref ELSE ref \ {x}
    /\ Decided(s, x)
    /\ UNCHANGED <<ws, tip, landed, runVars, pc, dirs, memo, withheld, faults>>

\* git refuses to delete a branch that a worktree has checked out.
Collect(s, x) ==
    /\ pc[s] = "branches" /\ x \in todo[s] /\ Dead(s, x) /\ Resolved(x)
    /\ ref' = IF ~Cloned(x) /\ ws[x] # "none" THEN ref ELSE ref \ {x}
    /\ Decided(s, x)
    /\ UNCHANGED <<ws, tip, landed, runVars, pc, dirs, memo, withheld, faults>>

\* Every unanswerable question resolves to no.
LeaveBranch(s, x) ==
    /\ pc[s] = "branches" /\ x \in todo[s] /\ Dead(s, x)
    /\ (~Resolved(x) /\ UNCHANGED faults) \/ Fault("github")
    /\ Decided(s, x)
    /\ UNCHANGED <<residueVars, runVars, pc, dirs, memo, withheld>>

\* The traces beyond the newest KeepLogs of their worktree.
Old(r) ==
    Cardinality({q \in Runs : Home[q] = Home[r] /\ q > r /\ files[q] # {}}) >= KeepLogs

\* _run_finished: a free lock, or without an artifact a run-end record.
Finished(r) ==
    IF "control" \in files[r] THEN run[r] # "live" ELSE "trace" \in files[r] /\ r \in ended

\* From here on todo holds <<Run, step>> pairs.
ToLogs(s) ==
    /\ pc[s] = "branches" /\ Passed(s)
    /\ pc' = [pc EXCEPT ![s] = "logs"]
    /\ todo' = [todo EXCEPT ![s] =
           {<<r, "trace">> : r \in {q \in Runs : Home[q] \in dirs[s] /\ files[q] # {} /\ Old(q)}}]
    /\ UNCHANGED <<runVars, residueVars, dirs, memo, withheld, faults>>

\* Mutant: the control artifact goes before the trace it proves dead.
RetireControlFirst(s, r) ==
    /\ pc[s] = "logs" /\ <<r, "trace">> \in todo[s] /\ Finished(r)
    /\ files' = [files EXCEPT ![r] = @ \ {"control"}]
    /\ todo' = [todo EXCEPT ![s] = (@ \ {<<r, "trace">>}) \cup {<<r, "control">>}]
    /\ UNCHANGED <<run, ended, closed, residueVars, pc, dirs, memo, withheld, faults>>

\* Stop requests, diagnostics and trace go first.
RetireTrace(s, r) ==
    /\ pc[s] = "logs" /\ <<r, "trace">> \in todo[s] /\ Finished(r)
    /\ files' = [files EXCEPT ![r] = @ \ {"trace"}]
    /\ todo' = [todo EXCEPT ![s] = (@ \ {<<r, "trace">>}) \cup {<<r, "control">>}]
    /\ UNCHANGED <<run, ended, closed, residueVars, pc, dirs, memo, withheld, faults>>

\* The proof goes when everything it proves dead is gone.
RetireControl(s, r) ==
    /\ pc[s] = "logs" /\ <<r, "control">> \in todo[s]
    /\ files' = [files EXCEPT ![r] = @ \ {"trace", "control"}]
    /\ todo' = [todo EXCEPT ![s] = @ \ {<<r, "control">>}]
    /\ UNCHANGED <<run, ended, closed, residueVars, pc, dirs, memo, withheld, faults>>

\* An unfinished Run keeps its logs; a deletion that fails leaves the rest.
KeepLog(s, r) ==
    /\ pc[s] = "logs"
    /\ \E x \in todo[s] :
           /\ x[1] = r
           /\ (x[2] = "trace" /\ ~Finished(r) /\ UNCHANGED faults) \/ Fault("logs")
           /\ Decided(s, x)
    /\ UNCHANGED <<residueVars, runVars, pc, dirs, memo, withheld>>

\* Nothing a Sweep has read outlives it.
Over(s) ==
    /\ pc' = [pc EXCEPT ![s] = "idle"]
    /\ dirs' = [dirs EXCEPT ![s] = {}]
    /\ todo' = [todo EXCEPT ![s] = {}]
    /\ memo' = [memo EXCEPT ![s] = [r \in Runs |-> "ask"]]
    /\ withheld' = [withheld EXCEPT ![s] = {}]
    /\ UNCHANGED <<runVars, residueVars>>

\* Mutant: what was read of a Run is remembered by the next Sweep.
EndSweepRemembering(s) ==
    /\ pc[s] = "logs" /\ todo[s] = {}
    /\ pc' = [pc EXCEPT ![s] = "idle"]
    /\ UNCHANGED <<runVars, residueVars, dirs, todo, memo, withheld, faults>>

EndSweep(s) ==
    /\ pc[s] = "logs" /\ todo[s] = {} /\ Over(s)
    /\ UNCHANGED faults

\* A Sweep is killed with its process.
SweepDies(s) ==
    pc[s] # "idle" /\ Over(s) /\ Fault("kill")

RunSteps ==
    \/ \E r \in Runs : StartRun(r) \/ EndRun(r) \/ CloseIssue(r)
    \/ \E x \in Residues :
           \/ Cut(x) \/ Prepared(x) \/ Edit(x) \/ CommitWork(x) \/ Publish(x)
           \/ OwnSalvage(x) \/ OwnReclaim(x) \/ DiscardStage(x) \/ DeletePublished(x)

Sweeping(s) ==
    \/ \E r \in Runs : Ask(s, r) \/ RetireTrace(s, r) \/ RetireControl(s, r) \/ KeepLog(s, r)
    \/ \E x \in Residues :
           Rescue(s, x) \/ Remove(s, x) \/ RemoveFails(s, x) \/ Collect(s, x) \/ LeaveBranch(s, x)
    \/ ToBranches(s) \/ ToLogs(s) \/ EndSweep(s) \/ SweepDies(s)

Next == RunSteps \/ \E s \in Sweepers : BeginSweep(s) \/ Sweeping(s)

Spec == Init /\ [][Next]_vars

\* A Sweep goes on, and another one follows: every Run starts with one.
FairSpec == Spec /\ \A s \in Sweepers : WF_vars(Sweeping(s)) /\ WF_vars(BeginSweep(s))

-----------------------------------------------------------------------------
(* Properties *)

TypeOK ==
    /\ run \in [Runs -> {"new", "live", "dead"}]
    /\ files \in [Runs -> SUBSET {"trace", "control"}]
    /\ ended \subseteq Runs /\ closed \subseteq Runs
    /\ ws \in [Residues -> {"none", "preparing", "clean", "dirty"}]
    /\ tip \in [Residues -> {"none", "base", "work", "checkpoint"}]
    /\ landed \subseteq Residues /\ ref \subseteq Residues
    /\ pc \in [Sweepers -> {"idle", "spaces", "branches", "logs"}]
    /\ dirs \in [Sweepers -> SUBSET Places]
    /\ todo \in [Sweepers -> SUBSET (Residues \cup (Runs \X {"trace", "control"}))]
    /\ \A s \in Sweepers :
           todo[s] \subseteq IF pc[s] \in {"spaces", "branches"}
                             THEN Residues ELSE Runs \X {"trace", "control"}
    /\ memo \in [Sweepers -> [Runs -> {"ask", "alive", "dead", "unknown"}]]
    /\ withheld \in [Sweepers -> SUBSET Residues]
    /\ faults \in Nat

\* No Sweep takes a live Run's workspace, branch, trace or control artifact,
\* or commits in its workspace (_control_dirs), however Runs start and end
\* between its one reading and its last removal.
LiveUntouched ==
    [][\A s \in Sweepers :
           pc[s] # "idle" /\ (todo' # todo \/ withheld' # withheld) =>
               \A r \in Runs : run[r] = "live" =>
                   /\ files'[r] = files[r]
                   /\ \A x \in Residues : RunOf(x) = r =>
                          ws'[x] = ws[x] /\ tip'[x] = tip[x] /\ (x \in ref <=> x \in ref')]_vars

\* Work that nobody has committed, or only a salvage: it is in a workspace,
\* at the tip of a branch or in base.
Kept(x) ==
    \/ ws[x] = "dirty"
    \/ tip[x] = "checkpoint" /\ (x \in ref \/ ws[x] # "none")
    \/ x \in landed

\* A Lane's unseen work is lost at no step of Run, kill or Sweep.
UnseenWorkSurvives ==
    [][\A x \in Residues : ~IsStage(x) /\ Kept(x) =>
           Kept(x)' \/ (Live(x) /\ tip'[x] = "work" /\ ws'[x] = "clean")]_vars

\* The work of an open issue survives in a branch until base contains it.
OpenIssueKeepsWork ==
    [][\A x \in Residues :
           ~IsStage(x) /\ RunOf(x) \notin closed' /\ x \in ref /\ x \notin ref' =>
               x \in landed]_vars

\* A dead Run's workspaces go, and so do the branches that are resolved.
ResidueGoes ==
    \A x \in Residues :
        /\ run[RunOf(x)] = "dead" /\ ws[x] # "none" ~> ws[x] = "none"
        /\ run[RunOf(x)] = "dead" /\ x \in ref /\ Resolved(x) ~> x \notin ref

\* Retention that a failure or a kill cut short is taken up again: no
\* trace is left half removed with nothing to prove its Run dead.
RetentionCompletes ==
    \A r \in Runs :
        run[r] = "dead" /\ files[r] \in {{"trace"}, {"control"}} ~> files[r] = {}
=============================================================================
