---------------------------- MODULE Publication ----------------------------
(***************************************************************************)
(* How finished work reaches base, the upstream and the tracker.           *)
(*                                                                         *)
(* A Lane's verified Integration stage is published behind a durable       *)
(* journal (publication.py): journal, merge, Release-line commit, final    *)
(* SHA, push, close, journal removed.  A Run may die between any two of    *)
(* these steps; the next Run reconciles what the journal proves and stops  *)
(* on everything it does not prove.  A serial Iteration publishes onto the *)
(* same base without a journal: merge, push, reset on a failed push.       *)
(*                                                                         *)
(* Base is the sequence of its first-parent commits and a SHA is an index  *)
(* in it.  remote is the length of base's prefix that the upstream         *)
(* contains; foreign says that the upstream also holds commits base does   *)
(* not have, so that a push without force is rejected.                     *)
(***************************************************************************)
EXTENDS Naturals, Sequences, FiniteSets

CONSTANTS
    Issues,       \* the issues whose work is published
    Closing,      \* those whose contribution carries a finishing commit
    Releasing,    \* those that carry a vX.Y.Z Release-target label
    HasUpstream,  \* whether the base branch tracks an upstream
    NoJournal,    \* publication.json does not exist
    MaxCommits,   \* bound: commits of base
    MaxFaults     \* bound: crashes, refusals and failed calls

ASSUME PublicationAssumption ==
    /\ Closing \subseteq Issues
    /\ Releasing \subseteq Issues
    /\ HasUpstream \in BOOLEAN
    /\ MaxCommits \in Nat /\ MaxFaults \in Nat

Kinds == {"merge", "release", "serial", "operator"}

\* A commit of base; an operator's own commit is for no issue in particular.
Commit == [kind : Kinds, issue : Issues]

\* PendingPublication: 0 stands for a SHA that is not recorded yet.
\* owes has its close_requested and release_required.
Record == [issue : Issues, before : Nat, owes : SUBSET {"close", "release"},
           releaseParent : Nat, final : Nat, attempted : BOOLEAN]

\* The value that stands for a missing journal is not one of its records.
ASSUME NoJournalAssumption == NoJournal \notin Record

Owed(i) == {x \in {"close", "release"} :
                i \in IF x = "close" THEN Closing ELSE Releasing}

LanePcs == {"staged", "begun", "merged", "intent", "released", "final",
            "pushed", "closed"}
SerialPcs == {"smerged", "spushed"}
RecoveryPcs == {"recover", "marked", "repushed", "durable", "reclosed"}

VARIABLES
    base,     \* the first-parent commits of the base branch
    tree,     \* index and worktree of base: clean, dirty, or merging with
              \* a merge in progress
    remote,   \* how much of base the upstream contains
    foreign,  \* the upstream has commits base does not have
    journal,  \* publication.json
    tracker,  \* OPEN, CLOSED by a Run, or closed ELSEWHERE by someone else
    pc,       \* what the Run is about to do; "down" when no Run is alive
    cur,      \* the issue being published
    faults,   \* failures so far
    repushes  \* recovery pushes made for the pending record

vars == <<base, tree, remote, foreign, journal, tracker, pc, cur,
          faults, repushes>>

git == <<base, tree, remote, foreign>>

Init ==
    /\ base = <<>>
    /\ tree = "clean"
    /\ remote = 0
    /\ foreign = FALSE
    /\ journal = NoJournal
    /\ tracker = [i \in Issues |-> "OPEN"]
    /\ pc = "down"
    /\ cur \in Issues
    /\ faults = 0
    /\ repushes = 0

HeadSha == Len(base)

\* Ancestry in the upstream; without one the local base is the publication.
Contains(k) == ~HasUpstream \/ k <= remote

\* The k-th commit is of this kind and for this issue.
Is(k, kind, i) == base[k].kind = kind /\ base[k].issue = i

Goto(label) == pc' = label

\* One more crash, refusal or failed call.
Fault == faults < MaxFaults /\ faults' = faults + 1

Closed(i) == tracker[i] # "OPEN"

-----------------------------------------------------------------------------
(* Publishing a Lane's verified stage *)

\* A contribution's private stage is green.  Only open issues are worked.
Stage(i) ==
    /\ pc = "idle" /\ ~Closed(i) /\ HeadSha + 2 <= MaxCommits
    /\ cur' = i /\ Goto("staged")
    /\ UNCHANGED <<git, journal, tracker, faults, repushes>>

\* The fence refuses or history cannot be read; an upstream or tracker whose
\* identity cannot be read also ends the Run.  Nothing was written yet.
Withhold ==
    /\ pc = "staged" /\ Fault /\ pc' \in {"idle", "down"}
    /\ UNCHANGED <<git, journal, tracker, cur, repushes>>

\* PublicationJournal.begin: no record may exist and base must be clean.
Begin ==
    /\ pc = "staged"
    /\ IF journal = NoJournal /\ tree = "clean"
       THEN /\ journal' = [issue |-> cur, before |-> HeadSha,
                           owes |-> Owed(cur), releaseParent |-> 0,
                           final |-> 0, attempted |-> FALSE]
            /\ Goto("begun") /\ repushes' = 0
       ELSE Goto("down") /\ UNCHANGED <<journal, repushes>>
    /\ UNCHANGED <<git, tracker, cur, faults>>

\* git merge --no-ff of the stage branch makes one merge commit.
Merge ==
    /\ pc = "begun"
    /\ base' = Append(base, [kind |-> "merge", issue |-> cur])
    /\ Goto("merged")
    /\ UNCHANGED <<tree, remote, foreign, journal, tracker, cur,
                   faults, repushes>>

\* The stage held nothing base lacks: a proved no-op retires its record.
MergeNothing ==
    /\ pc = "begun" /\ tree = "clean" /\ Fault
    /\ journal' = NoJournal /\ Goto("idle")
    /\ UNCHANGED <<git, tracker, cur, repushes>>

\* A failed merge, with or without a merge left in progress, is not
\* published; the record it leaves stops the Run.
MergeFails ==
    /\ pc = "begun" /\ Fault
    /\ tree' \in {tree, "merging"} /\ Goto("down")
    /\ UNCHANGED <<base, remote, foreign, journal, tracker, cur, repushes>>

\* release_intent binds the prospective tree and its parent before the commit.
ReleaseIntent ==
    /\ pc = "merged" /\ cur \in Releasing
    /\ journal' = [journal EXCEPT !.releaseParent = HeadSha]
    /\ Goto("intent")
    /\ UNCHANGED <<git, tracker, cur, faults, repushes>>

ReleaseCommit ==
    /\ pc = "intent"
    /\ base' = Append(base, [kind |-> "release", issue |-> cur])
    /\ Goto("released")
    /\ UNCHANGED <<tree, remote, foreign, journal, tracker, cur,
                   faults, repushes>>

\* Mutant: a Release line that does not advance retires the record.
ReleaseFailsForgetful ==
    /\ pc = "merged" /\ cur \in Releasing /\ Fault
    /\ journal' = NoJournal /\ Goto("idle")
    /\ UNCHANGED <<git, tracker, cur, repushes>>

\* The line cannot be read, resolved, written or committed.  The restore may
\* itself fail and leave base dirty; a required result keeps the record.
ReleaseFails ==
    /\ pc = "intent" \/ (pc = "merged" /\ cur \in Releasing)
    /\ Fault /\ tree' \in {tree, "dirty"} /\ Goto("down")
    /\ UNCHANGED <<base, remote, foreign, journal, tracker, cur, repushes>>

Finalized ==
    /\ pc = "released" \/ (pc = "merged" /\ cur \notin Releasing)
    /\ journal' = [journal EXCEPT !.final = HeadSha]
    /\ Goto("final")
    /\ UNCHANGED <<git, tracker, cur, faults, repushes>>

\* The upstream takes base's head unless it holds commits base lacks.
Lands == remote' = HeadSha /\ UNCHANGED <<base, tree, foreign>>

\* _push_publication: head must still be the final SHA and base clean.
Push ==
    /\ pc = "final" /\ journal.final = HeadSha /\ tree = "clean"
    /\ IF HasUpstream THEN ~foreign /\ Lands ELSE UNCHANGED git
    /\ Goto("pushed")
    /\ UNCHANGED <<journal, tracker, cur, faults, repushes>>

\* Mutant: a failed push drops the record with the publication.
PushFailsForgetful ==
    /\ pc = "final" /\ Fault
    /\ journal' = NoJournal /\ Goto("idle")
    /\ UNCHANGED <<git, tracker, cur, repushes>>

\* Refused by the evidence, the fence or the upstream, or landed and its
\* acknowledgement lost: the record stays and stops the Run.
PushFails ==
    /\ pc = "final"
    /\ \/ /\ tree # "clean" \/ foreign \/ journal.final # HeadSha
          /\ UNCHANGED <<git, faults>>
       \/ Fault /\ HasUpstream /\ UNCHANGED git
       \/ Fault /\ HasUpstream /\ ~foreign /\ tree = "clean" /\ Lands
    /\ Goto("down")
    /\ UNCHANGED <<journal, tracker, cur, repushes>>

\* _close_published_issue closes for a finishing commit, and only an issue
\* that nobody has closed meanwhile.
Close ==
    /\ pc \in {"pushed", "spushed"}
    /\ tracker' = IF cur \in Closing /\ ~Closed(cur)
                  THEN [tracker EXCEPT ![cur] = "CLOSED"] ELSE tracker
    /\ Goto(IF pc = "pushed" THEN "closed" ELSE "idle")
    /\ UNCHANGED <<git, journal, cur, faults, repushes>>

\* Fenced off, or the tracker would not close it after two attempts.
CloseFails ==
    /\ pc \in {"pushed", "spushed"} /\ Fault
    /\ Goto(IF pc = "pushed" THEN "closed" ELSE "idle")
    /\ UNCHANGED <<git, journal, tracker, cur, repushes>>

\* Mutant: the record is removed whatever became of the close.
CompleteEarly ==
    /\ pc = "closed"
    /\ journal' = NoJournal /\ Goto("idle")
    /\ UNCHANGED <<git, tracker, cur, faults, repushes>>

\* The record goes once nothing is owed to the tracker; otherwise it stays,
\* and the Run stops at this Integration.
Complete ==
    /\ pc = "closed"
    /\ IF "close" \in journal.owes => Closed(cur)
       THEN journal' = NoJournal /\ Goto("idle")
       ELSE Goto("down") /\ UNCHANGED journal
    /\ UNCHANGED <<git, tracker, cur, faults, repushes>>

-----------------------------------------------------------------------------
(* A serial Iteration publishes its clone onto base *)

\* git merge takes a base whose uncommitted edits are elsewhere; a merge that
\* conflicts is aborted and leaves base as it was.
SerialMerge(i) ==
    /\ pc = "idle" /\ ~Closed(i) /\ HeadSha < MaxCommits
    /\ base' = Append(base, [kind |-> "serial", issue |-> i])
    /\ cur' = i /\ Goto("smerged")
    /\ UNCHANGED <<tree, remote, foreign, journal, tracker, faults, repushes>>

SerialPush ==
    /\ pc = "smerged"
    /\ IF HasUpstream THEN ~foreign /\ Lands ELSE UNCHANGED git
    /\ Goto("spushed")
    /\ UNCHANGED <<journal, tracker, cur, faults, repushes>>

\* Progress that an account failure protects is merged, not pushed or closed.
SerialKeep ==
    /\ pc = "smerged" /\ Fault /\ Goto("idle")
    /\ UNCHANGED <<git, journal, tracker, cur, repushes>>

\* Mutant: the reset after a failed serial push goes one commit too far.
SerialResetTooFar ==
    /\ pc = "smerged" /\ HasUpstream /\ Fault /\ HeadSha > 1
    /\ base' = SubSeq(base, 1, HeadSha - 2)
    /\ Goto("idle")
    /\ UNCHANGED <<tree, remote, foreign, journal, tracker, cur, repushes>>

\* A push that fails puts base back where it was, uncommitted edits to tracked
\* files included, also when it did land and only its acknowledgement was lost:
\* the upstream then holds a commit that base no longer has.
SerialReset ==
    /\ pc = "smerged" /\ HasUpstream
    /\ \/ foreign /\ UNCHANGED <<foreign, remote, faults>>
       \/ Fault /\ UNCHANGED <<foreign, remote>>
       \/ Fault /\ ~foreign /\ foreign' = TRUE /\ remote' = HeadSha - 1
    /\ base' = SubSeq(base, 1, HeadSha - 1) /\ tree' \in {tree, "clean"}
    /\ Goto("idle")
    /\ UNCHANGED <<journal, tracker, cur, repushes>>

-----------------------------------------------------------------------------
(* Reconciliation at the start of the next Run *)

\* _final: the merge of the recorded stage onto the recorded base, followed
\* by the recorded Release commit where one is required; 0 when the evidence
\* is missing or contradicts the record.
MergeAt(r) ==
    IF r.before + 1 <= HeadSha /\ Is(r.before + 1, "merge", r.issue)
    THEN r.before + 1 ELSE 0

ReleaseAt(r) ==
    LET m == MergeAt(r) IN
    IF /\ m # 0 /\ r.releaseParent = m /\ m + 1 <= HeadSha
       /\ Is(m + 1, "release", r.issue)
    THEN m + 1 ELSE 0

FinalOf(r) ==
    LET f == IF "release" \in r.owes THEN ReleaseAt(r) ELSE MergeAt(r)
    IN  IF r.final \in {0, f} THEN f ELSE 0

\* Mutant: a restart trusts the local evidence and does not ask the upstream.
StartTrusting ==
    /\ pc = "down" /\ tree = "clean"
    /\ IF journal = NoJournal THEN Goto("idle") /\ UNCHANGED cur
       ELSE /\ FinalOf(journal) # 0 /\ Goto("durable") /\ cur' = journal.issue
    /\ UNCHANGED <<git, journal, tracker, faults, repushes>>

\* An unfinished merge stops every start.  With a pending record so do a dirty
\* base, unresolved evidence or no Lease; else it is taken up for reconciliation.
Start ==
    /\ pc = "down" /\ tree # "merging"
    /\ \/ journal = NoJournal /\ Goto("idle") /\ UNCHANGED <<cur, faults>>
       \/ /\ journal # NoJournal /\ tree = "clean" /\ FinalOf(journal) # 0
          /\ cur' = journal.issue
          /\ Goto(IF Contains(FinalOf(journal)) THEN "durable" ELSE "recover")
          /\ UNCHANGED faults
       \/ journal # NoJournal /\ Fault /\ Goto("down") /\ UNCHANGED cur
    /\ UNCHANGED <<git, journal, tracker, repushes>>

\* Mutant: the recovery push sends base's tip, whatever an operator put there.
MarkTip ==
    /\ pc = "recover"
    /\ journal' = [journal EXCEPT !.final = HeadSha, !.attempted = TRUE]
    /\ Goto("marked")
    /\ UNCHANGED <<git, tracker, cur, faults, repushes>>

\* Mutant: the Run that marks the record leaves the push to the next one.
MarkOnly ==
    /\ pc = "recover"
    /\ IF HeadSha = FinalOf(journal) /\ ~journal.attempted /\ tree = "clean"
       THEN journal' = [journal EXCEPT !.final = HeadSha, !.attempted = TRUE]
       ELSE UNCHANGED journal
    /\ Goto("down")
    /\ UNCHANGED <<git, tracker, cur, faults, repushes>>

\* The recovery push is announced in the record before it is made: only for
\* base's exact tip, once, and with a clean base behind the fence.
Mark ==
    /\ pc = "recover"
    /\ IF HeadSha = FinalOf(journal) /\ ~journal.attempted /\ tree = "clean"
       THEN /\ journal' = [journal EXCEPT !.final = HeadSha, !.attempted = TRUE]
            /\ Goto("marked") /\ UNCHANGED faults
       ELSE Goto("down") /\ UNCHANGED <<journal, faults>>
    /\ UNCHANGED <<git, tracker, cur, repushes>>

RecoveryPush ==
    /\ pc = "marked" /\ ~foreign
    /\ remote' = journal.final /\ repushes' = repushes + 1
    /\ Goto("repushed")
    /\ UNCHANGED <<base, tree, foreign, journal, tracker, cur, faults>>

\* Rejected, failed, or landed with its acknowledgement lost.
RecoveryPushFails ==
    /\ pc = "marked"
    /\ repushes' = repushes + 1
    /\ \/ foreign /\ UNCHANGED <<git, faults>>
       \/ Fault /\ UNCHANGED git
       \/ /\ Fault /\ ~foreign /\ remote' = journal.final
          /\ UNCHANGED <<base, tree, foreign>>
    /\ Goto("down")
    /\ UNCHANGED <<journal, tracker, cur>>

\* The upstream is asked again before the tracker is touched.
Prove ==
    /\ pc = "repushed"
    /\ Goto(IF Contains(journal.final) THEN "durable" ELSE "down")
    /\ UNCHANGED <<git, journal, tracker, cur, faults, repushes>>

\* An open issue whose closure is owed is closed; a closed one is left alone.
RecoveryClose ==
    /\ pc = "durable"
    /\ tracker' = IF "close" \in journal.owes /\ ~Closed(cur)
                  THEN [tracker EXCEPT ![cur] = "CLOSED"] ELSE tracker
    /\ Goto("reclosed")
    /\ UNCHANGED <<git, journal, cur, faults, repushes>>

\* The fence, the tracker or the confirming read refuses anywhere on the way.
RecoveryRefused ==
    /\ pc \in {"recover", "durable", "reclosed"} /\ Fault /\ Goto("down")
    /\ UNCHANGED <<git, journal, tracker, cur, repushes>>

RecoveryComplete ==
    /\ pc = "reclosed"
    /\ journal' = NoJournal /\ Goto("idle")
    /\ UNCHANGED <<git, tracker, cur, faults, repushes>>

-----------------------------------------------------------------------------
(* The world around it *)

\* What a process killed at this step may leave of base: a merge half made, or
\* a half-written Release line or reset.
TornBy(label) ==
    CASE label \in {"idle", "begun"}             -> {"dirty", "merging"}
      [] label \in {"merged", "intent", "smerged"} -> {"dirty"}
      [] OTHER                                   -> {}

\* The process dies between two steps, or inside git: memory is gone.
Crash ==
    /\ pc # "down" /\ Fault /\ Goto("down")
    /\ tree' \in {tree} \cup TornBy(pc)
    /\ UNCHANGED <<base, remote, foreign, journal, tracker, cur, repushes>>

\* An operator cleans base up while no Run is alive.
OperatorCleans ==
    /\ pc = "down" /\ tree # "clean" /\ tree' = "clean"
    /\ UNCHANGED <<base, remote, foreign, journal, tracker, pc, cur,
                   faults, repushes>>

\* An operator edits the base checkout, also under a Run's feet, or commits to
\* it while no Run is alive.
OperatorDirties ==
    /\ tree = "clean" /\ Fault /\ tree' = "dirty"
    /\ UNCHANGED <<base, remote, foreign, journal, tracker, pc, cur, repushes>>

OperatorCommits(i) ==
    /\ pc = "down" /\ tree # "merging" /\ HeadSha < MaxCommits /\ Fault
    /\ base' = Append(base, [kind |-> "operator", issue |-> i])
    /\ UNCHANGED <<tree, remote, foreign, journal, tracker, pc, cur, repushes>>

\* Someone else pushes to the upstream, or base is brought up to date with it.
UpstreamMoves ==
    /\ HasUpstream /\ ~foreign /\ Fault /\ foreign' = TRUE
    /\ UNCHANGED <<base, tree, remote, journal, tracker, pc, cur, repushes>>

ClosedElsewhere(i) ==
    /\ ~Closed(i) /\ Fault
    /\ tracker' = [tracker EXCEPT ![i] = "ELSEWHERE"]
    /\ UNCHANGED <<git, journal, pc, cur, repushes>>

Lane ==
    \/ \E i \in Issues : Stage(i)
    \/ Withhold \/ Begin \/ Merge \/ MergeNothing \/ MergeFails
    \/ ReleaseIntent \/ ReleaseCommit \/ ReleaseFails \/ Finalized
    \/ Push \/ PushFails \/ Close \/ CloseFails \/ Complete

Serial ==
    \/ \E i \in Issues : SerialMerge(i)
    \/ SerialPush \/ SerialKeep \/ SerialReset

Reconcile ==
    \/ Mark \/ RecoveryPush \/ RecoveryPushFails \/ Prove
    \/ RecoveryClose \/ RecoveryRefused \/ RecoveryComplete

World ==
    \/ Crash \/ OperatorCleans \/ OperatorDirties \/ UpstreamMoves
    \/ \E i \in Issues : OperatorCommits(i) \/ ClosedElsewhere(i)

Next == Lane \/ Serial \/ Start \/ Reconcile \/ World

Spec == Init /\ [][Next]_vars

\* A live Run's steps go on; an operator whose Run ended starts another one
\* and cleans what a refused start told them to inspect.
FairSpec ==
    /\ Spec
    /\ WF_vars(Lane \/ Serial \/ Reconcile)
    /\ WF_vars(Start) /\ WF_vars(OperatorCleans)

-----------------------------------------------------------------------------
(* Properties *)

TypeOK ==
    /\ base \in Seq(Commit)
    /\ tree \in {"clean", "dirty", "merging"}
    /\ remote \in Nat /\ remote <= Len(base)
    /\ foreign \in BOOLEAN
    /\ journal \in Record \cup {NoJournal}
    /\ tracker \in [Issues -> {"OPEN", "CLOSED", "ELSEWHERE"}]
    /\ faults \in Nat /\ repushes \in Nat
    /\ pc \in {"down", "idle"} \cup LanePcs \cup SerialPcs \cup RecoveryPcs
    /\ cur \in Issues

\* A Run closes an issue only when a commit that publishes it is in the
\* upstream (_land_lane, _finish_serial_clone, reconcile), whatever crashed,
\* was refused or was acknowledged too late on the way.
ClosedIsDurable ==
    \A i \in Issues :
        tracker[i] = "CLOSED" =>
            \E k \in 1..Len(base) :
                (Is(k, "merge", i) \/ Is(k, "serial", i)) /\ Contains(k)

\* Every landed Lane that the upstream does not contain is the one the
\* pending record names: no crash leaves a publication nobody knows of, and
\* none starts on top of another's torn one.
TornIsJournaled ==
    \A i \in Issues : \A k \in 1..Len(base) :
        Is(k, "merge", i) /\ ~Contains(k) =>
            journal # NoJournal /\ journal.issue = i /\ journal.before + 1 = k

\* Finishing work lands on base once, however many Runs it takes: a restart
\* completes an interrupted publication and never repeats it.
LandsOnce ==
    \A i \in Closing : \A k, l \in 1..Len(base) :
        Is(k, "merge", i) /\ Is(l, "merge", i) => k = l

\* One recovery push at most for a pending record, across all the Runs that
\* find it (publication.py:224): its failure is for an operator to read.
RepushesOnce == repushes <= 1

\* A recovery push sends the recorded publication and nothing an operator
\* committed after it (publication.py:222).
NothingRidesAlong ==
    [][pc = "marked" /\ remote' # remote => remote' = FinalOf(journal)]_vars

\* What a Run or the next start can finish without anybody's help.
Provable ==
    /\ journal # NoJournal /\ FinalOf(journal) # 0
    /\ \/ Contains(FinalOf(journal))
       \/ HeadSha = FinalOf(journal) /\ ~journal.attempted /\ ~foreign

\* A record whose evidence is complete is taken off, by the Run that made it or
\* by a later one, unless one more thing goes wrong first: a crash, a refusal, a
\* failed call or somebody's edit.  The Run's own mark is no excuse: what it
\* announces it pushes, and what it pushed it closes.
PendingFinishes ==
    \A f \in 0..MaxFaults :
        Provable /\ faults = f ~> journal = NoJournal \/ faults # f

\* What each issue has reached, for the abstract specification.
Landed(i) == \E k \in 1..Len(base) : Is(k, "merge", i) /\ ~Contains(k)
Durable(i) ==
    \E k \in 1..Len(base) : (Is(k, "merge", i) \/ Is(k, "serial", i)) /\ Contains(k)

Published ==
    [i \in Issues |->
        CASE Landed(i) -> "landed"
          [] ~Landed(i) /\ tracker[i] = "CLOSED" -> "closed"
          [] ~Landed(i) /\ tracker[i] # "CLOSED" /\ Durable(i) -> "durable"
          [] OTHER -> "private"]

Promise == INSTANCE PublicationPromise WITH published <- Published

KeepsPromise == Promise!Spec

-----------------------------------------------------------------------------
(* The inductive invariant behind the theorems of PublicationProofs *)

\* The pending record belongs to the step the Run is at.
RecordInv ==
    /\ pc \in {"idle", "staged"} \cup SerialPcs => journal = NoJournal
    /\ pc \in (LanePcs \ {"staged"}) \cup RecoveryPcs =>
           journal # NoJournal /\ journal.issue = cur
    /\ journal # NoJournal =>
           /\ journal.owes = Owed(journal.issue)
           /\ ~journal.attempted => repushes = 0
    /\ repushes <= 1
    /\ pc = "marked" => repushes = 0 /\ journal.attempted

\* Which commit the recorded publication has produced so far.
MergedInv ==
    /\ pc = "begun" => journal.before = Len(base)
    /\ pc \in (LanePcs \ {"staged", "begun"}) \cup RecoveryPcs =>
           journal.before + 1 <= Len(base) /\ Is(journal.before + 1, "merge", cur)
    /\ pc = "intent" => journal.releaseParent = Len(base)
    /\ pc \in {"marked", "repushed"} => journal.final = Len(base)

\* What is about to be pushed is the whole recorded publication.
MarkedInv == pc = "marked" => FinalOf(journal) = journal.final

\* Where durability and closure are already proved.
DurableInv ==
    /\ pc \in {"pushed", "closed", "durable", "reclosed"} => Contains(journal.before + 1)
    /\ pc = "reclosed" /\ cur \in Closing => tracker[cur] # "OPEN"
    /\ pc = "smerged" => Len(base) > remote
    /\ pc \in SerialPcs => Len(base) > 0 /\ Is(Len(base), "serial", cur)
    /\ pc = "spushed" => Contains(Len(base))

\* A finishing landing is pending, or its issue is closed.
FinishedInv ==
    /\ \A i \in Closing : \A k \in 1..Len(base) :
           Is(k, "merge", i) =>
               \/ journal # NoJournal /\ journal.issue = i /\ journal.before + 1 = k
               \/ tracker[i] # "OPEN"
    /\ pc \in {"staged", "begun"} /\ cur \in Closing =>
           \A k \in 1..Len(base) : ~Is(k, "merge", cur)

PublicationInv ==
    /\ TypeOK /\ RecordInv /\ MergedInv /\ MarkedInv /\ DurableInv /\ FinishedInv
    /\ ClosedIsDurable /\ TornIsJournaled /\ LandsOnce

=============================================================================
