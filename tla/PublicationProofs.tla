------------------------- MODULE PublicationProofs -------------------------
(***************************************************************************)
(* Proofs about Publication, for any issues, any number of crashes, Runs   *)
(* and commits: each lemma carries one part of PublicationInv over a step. *)
(***************************************************************************)
EXTENDS Publication, SequenceTheorems, TLAPS

-----------------------------------------------------------------------------
(* What an append to base and a reset of base keep *)

LEMMA Appended ==
    ASSUME NEW b \in Seq(Commit), NEW c \in Commit
    PROVE  /\ Append(b, c) \in Seq(Commit)
           /\ Len(Append(b, c)) = Len(b) + 1
           /\ \A k \in 1..Len(b) : Append(b, c)[k] = b[k]
           /\ Append(b, c)[Len(b) + 1] = c
BY AppendProperties

LEMMA Reset ==
    ASSUME NEW b \in Seq(Commit), Len(b) > 0
    PROVE  /\ SubSeq(b, 1, Len(b) - 1) \in Seq(Commit)
           /\ Len(SubSeq(b, 1, Len(b) - 1)) = Len(b) - 1
           /\ \A k \in 1..(Len(b) - 1) : SubSeq(b, 1, Len(b) - 1)[k] = b[k]
<1>1. Len(b) \in Nat \ {0} /\ \A k \in 1..(Len(b) - 1) : b[k] \in Commit
    BY LenProperties
<1> DEFINE n == Len(b) - 1
           c == SubSeq(b, 1, n)
<1>2. n \in Nat /\ \A k \in 1..n : b[k] \in Commit
    BY <1>1
<1> HIDE DEF n
<1>3. /\ c \in Seq(Commit)
      /\ Len(c) = IF 1 <= n THEN n - 1 + 1 ELSE 0
      /\ \A k \in 1..(n - 1 + 1) : c[k] = b[1 + k - 1]
    BY <1>2, SubSeqProperties, n \in Int, 1 \in Int
<1> HIDE DEF c
<1>4. Len(c) = n /\ \A k \in 1..n : c[k] = b[k]
    BY <1>2, <1>3
<1> QED
    BY <1>3, <1>4 DEF c, n

-----------------------------------------------------------------------------
(* What the journal's writes produce *)

LEMMA BeginRecord ==
    ASSUME NEW i \in Issues, NEW n \in Nat, NEW r,
           r = [issue |-> i, before |-> n, owes |-> Owed(i),
                releaseParent |-> 0, final |-> 0, attempted |-> FALSE]
    PROVE  /\ r \in Record /\ r # NoJournal
           /\ r.issue = i /\ r.before = n /\ r.owes = Owed(i)
           /\ r.attempted = FALSE /\ r.final = 0
<1>1. Owed(i) \in SUBSET {"close", "release"}
    BY DEF Owed
<1> HIDE DEF Owed
<1>2. r \in Record
    BY <1>1 DEF Record
<1>3. r.issue = i /\ r.before = n /\ r.owes = Owed(i) /\ r.attempted = FALSE /\ r.final = 0
    OBVIOUS
<1> QED
    BY <1>2, <1>3, NoJournalAssumption

LEMMA ParentRecord ==
    ASSUME NEW q \in Record, NEW n \in Nat, NEW r,
           r = [q EXCEPT !.releaseParent = n]
    PROVE  /\ r \in Record /\ r # NoJournal
           /\ r.issue = q.issue /\ r.before = q.before /\ r.owes = q.owes
           /\ r.attempted = q.attempted /\ r.releaseParent = n
           /\ r.final = q.final
<1>1. r \in Record
    BY DEF Record
<1>2. /\ r.issue = q.issue /\ r.before = q.before /\ r.owes = q.owes
      /\ r.attempted = q.attempted /\ r.releaseParent = n
           /\ r.final = q.final
    BY DEF Record
<1> QED
    BY <1>1, <1>2, NoJournalAssumption

LEMMA FinalRecord ==
    ASSUME NEW q \in Record, NEW n \in Nat, NEW r,
           r = [q EXCEPT !.final = n]
    PROVE  /\ r \in Record /\ r # NoJournal
           /\ r.issue = q.issue /\ r.before = q.before /\ r.owes = q.owes
           /\ r.attempted = q.attempted /\ r.final = n
           /\ r.releaseParent = q.releaseParent
<1>1. r \in Record
    BY DEF Record
<1>2. /\ r.issue = q.issue /\ r.before = q.before /\ r.owes = q.owes
      /\ r.attempted = q.attempted /\ r.final = n
           /\ r.releaseParent = q.releaseParent
    BY DEF Record
<1> QED
    BY <1>1, <1>2, NoJournalAssumption

-----------------------------------------------------------------------------
(* Type correctness *)

LEMMA TypeInit == Init => TypeOK
<1> SUFFICES ASSUME Init PROVE TypeOK
    OBVIOUS
<1>1. base \in Seq(Commit) /\ Len(base) = 0
    BY EmptySeq DEF Init
<1>2. tracker \in [Issues -> {"OPEN", "CLOSED", "ELSEWHERE"}]
    BY DEF Init
<1>3. remote \in Nat /\ remote <= Len(base)
    BY <1>1 DEF Init
<1> QED
    BY <1>1, <1>2, <1>3 DEF Init, TypeOK

\* A reset drops exactly the serial commit that was merged, which the
\* upstream did not contain.
LEMMA ResetBase ==
    ASSUME TypeOK, DurableInv, SerialReset
    PROVE  /\ base' \in Seq(Commit) /\ Len(base) \in Nat \ {0}
           /\ Len(base') = Len(base) - 1
           /\ \A k \in 1..(Len(base) - 1) : base'[k] = base[k]
           /\ remote \in Nat /\ remote <= Len(base) - 1
           /\ remote' \in {remote, Len(base) - 1}
           /\ pc = "smerged" /\ pc' = "idle" /\ HasUpstream
           /\ UNCHANGED <<journal, tracker, cur, repushes>>
<1>1. base \in Seq(Commit) /\ Len(base) \in Nat
    BY LenProperties DEF TypeOK
<1>2. Len(base) > remote /\ remote \in Nat
    BY DEF SerialReset, DurableInv, TypeOK
<1>3. base' = SubSeq(base, 1, Len(base) - 1)
    BY DEF SerialReset, HeadSha
<1>4. remote' \in {remote, Len(base) - 1}
    BY DEF SerialReset, HeadSha
<1>5. /\ pc = "smerged" /\ pc' = "idle" /\ HasUpstream
      /\ UNCHANGED <<journal, tracker, cur, repushes>>
    BY DEF SerialReset, Goto
<1>6. Len(base) \in Nat \ {0} /\ remote <= Len(base) - 1
    BY <1>1, <1>2
<1> QED
    BY <1>1, <1>2, <1>3, <1>4, <1>5, <1>6, Reset

LEMMA TypeStep == PublicationInv /\ [Next]_vars => TypeOK'
<1> SUFFICES ASSUME TypeOK, RecordInv, MergedInv, DurableInv, [Next]_vars
             PROVE  TypeOK'
    BY DEF PublicationInv
<1> USE LenProperties DEF TypeOK, git, Goto, HeadSha, Fault, Closed, LanePcs, SerialPcs, RecoveryPcs
<1>1. CASE UNCHANGED vars
    BY <1>1 DEF vars
<1>2. ASSUME NEW i \in Issues, Stage(i) PROVE TypeOK'
    BY <1>2 DEF Stage
<1>3. ASSUME NEW i \in Issues, SerialMerge(i) PROVE TypeOK'
    BY <1>3, Appended DEF SerialMerge, Commit, Kinds
<1>4. ASSUME NEW i \in Issues, OperatorCommits(i) PROVE TypeOK'
    BY <1>4, Appended DEF OperatorCommits, Commit, Kinds
<1>5. ASSUME NEW i \in Issues, ClosedElsewhere(i) PROVE TypeOK'
    BY <1>5 DEF ClosedElsewhere
<1>6. CASE Withhold
    BY <1>6 DEF Withhold
<1>7. CASE Begin
    <2>1. Len(base) \in Nat /\ Owed(cur) \in SUBSET {"close", "release"}
        BY DEF Owed
    <2> DEFINE r == [issue |-> cur, before |-> Len(base), owes |-> Owed(cur),
                     releaseParent |-> 0, final |-> 0, attempted |-> FALSE]
    <2>2. r \in Record
        BY <2>1 DEF Record
    <2> HIDE DEF r
    <2>3. journal' \in {r, journal}
        BY <1>7 DEF Begin, r
    <2> QED
        BY <1>7, <2>2, <2>3 DEF Begin
<1>8. CASE Merge
    BY <1>8, Appended DEF Merge, Commit, Kinds
<1>9. CASE MergeNothing
    BY <1>9 DEF MergeNothing
<1>10. CASE MergeFails
    BY <1>10 DEF MergeFails
<1>11. CASE ReleaseIntent
    BY <1>11 DEF ReleaseIntent, RecordInv, Record
<1>12. CASE ReleaseCommit
    BY <1>12, Appended DEF ReleaseCommit, Commit, Kinds
<1>13. CASE ReleaseFails
    BY <1>13 DEF ReleaseFails
<1>14. CASE Finalized
    BY <1>14 DEF Finalized, RecordInv, Record
<1>15. CASE Push
    BY <1>15 DEF Push, Lands
<1>16. CASE PushFails
    BY <1>16 DEF PushFails, Lands
<1>17. CASE Close
    BY <1>17 DEF Close
<1>18. CASE CloseFails
    BY <1>18 DEF CloseFails
<1>19. CASE Complete
    BY <1>19 DEF Complete
<1>20. CASE SerialPush
    BY <1>20 DEF SerialPush, Lands
<1>21. CASE SerialKeep
    BY <1>21 DEF SerialKeep
<1>22. CASE SerialReset
    <2>1. /\ base' \in Seq(Commit) /\ Len(base) \in Nat \ {0}
          /\ Len(base') = Len(base) - 1
          /\ remote \in Nat /\ remote <= Len(base) - 1
          /\ remote' \in {remote, Len(base) - 1}
        BY <1>22, ResetBase
    <2>2. remote' \in Nat /\ remote' <= Len(base')
        BY <2>1
    <2>3. /\ UNCHANGED <<journal, tracker, cur, repushes>>
          /\ pc' = "idle" /\ tree' \in {tree, "clean"}
        BY <1>22 DEF SerialReset
    <2>4. foreign' \in {foreign, TRUE}
        BY <1>22 DEF SerialReset
    <2>5. faults' = faults \/ (faults < MaxFaults /\ faults' = faults + 1)
        BY <1>22 DEF SerialReset
    <2>6. foreign' \in BOOLEAN
        BY <2>4
    <2>7. faults' \in Nat /\ pc' \in {"down", "idle"} \cup LanePcs
        BY <2>3, <2>5
    <2> QED
        BY <2>1, <2>2, <2>3, <2>6, <2>7
<1>23. CASE Start
    BY <1>23 DEF Start, Record
<1>24. CASE Mark
    <2> DEFINE r == [journal EXCEPT !.final = Len(base), !.attempted = TRUE]
    <2>1. Len(base) \in Nat /\ journal \in Record
        BY <1>24 DEF Mark, RecordInv
    <2>2. r \in Record
        BY <2>1 DEF Record
    <2> HIDE DEF r
    <2>3. journal' \in {r, journal}
        BY <1>24 DEF Mark, r
    <2> QED
        BY <1>24, <2>2, <2>3 DEF Mark
<1>25. CASE RecoveryPush
    BY <1>25 DEF RecoveryPush, MergedInv, Record
<1>26. CASE RecoveryPushFails
    BY <1>26 DEF RecoveryPushFails, MergedInv, Record
<1>27. CASE Prove
    BY <1>27 DEF Prove
<1>28. CASE RecoveryClose
    BY <1>28 DEF RecoveryClose
<1>29. CASE RecoveryRefused
    BY <1>29 DEF RecoveryRefused
<1>30. CASE RecoveryComplete
    BY <1>30 DEF RecoveryComplete
<1>31. CASE Crash
    BY <1>31 DEF Crash, TornBy
<1>32. CASE OperatorCleans
    BY <1>32 DEF OperatorCleans
<1>33. CASE OperatorDirties
    BY <1>33 DEF OperatorDirties
<1>34. CASE UpstreamMoves
    BY <1>34 DEF UpstreamMoves
<1> QED
    BY <1>1, <1>2, <1>3, <1>4, <1>5, <1>6, <1>7, <1>8, <1>9, <1>10,
       <1>11, <1>12, <1>13, <1>14, <1>15, <1>16, <1>17, <1>18, <1>19,
       <1>20, <1>21, <1>22, <1>23, <1>24, <1>25, <1>26, <1>27, <1>28,
       <1>29, <1>30, <1>31, <1>32, <1>33, <1>34
       DEF Next, Lane, Serial, Reconcile, World

-----------------------------------------------------------------------------
(* What the steps that write the journal, and those that extend base, do *)

LEMMA BeginEffect ==
    ASSUME TypeOK, Begin
    PROVE  /\ UNCHANGED <<base, tree, remote, foreign, tracker, cur>>
           /\ pc = "staged"
           /\ \/ /\ pc' = "begun" /\ repushes' = 0 /\ journal = NoJournal
                 /\ journal' \in Record /\ journal' # NoJournal
                 /\ journal'.issue = cur /\ journal'.before = Len(base)
                 /\ journal'.owes = Owed(cur) /\ journal'.attempted = FALSE
                 /\ journal'.final = 0
              \/ pc' = "down" /\ UNCHANGED <<journal, repushes>>
<1>1. CASE journal = NoJournal /\ tree = "clean"
    <2> DEFINE r == [issue |-> cur, before |-> Len(base), owes |-> Owed(cur),
                     releaseParent |-> 0, final |-> 0, attempted |-> FALSE]
    <2>1. /\ r \in Record /\ r # NoJournal
          /\ r.issue = cur /\ r.before = Len(base) /\ r.owes = Owed(cur)
          /\ r.attempted = FALSE /\ r.final = 0
        <3>1. Len(base) \in Nat /\ cur \in Issues
            BY LenProperties DEF TypeOK
        <3> QED
            BY <3>1, BeginRecord
    <2> HIDE DEF r
    <2>2. journal' = r
        BY <1>1 DEF Begin, HeadSha, r
    <2> QED
        BY <1>1, <2>1, <2>2 DEF Begin, git, Goto
<1>2. CASE ~(journal = NoJournal /\ tree = "clean")
    BY <1>2 DEF Begin, git, Goto
<1> QED
    BY <1>1, <1>2

LEMMA ReleaseIntentEffect ==
    ASSUME TypeOK, RecordInv, ReleaseIntent
    PROVE  /\ UNCHANGED <<base, tree, remote, foreign, tracker, cur, repushes>>
           /\ pc = "merged" /\ pc' = "intent"
           /\ journal \in Record /\ journal' \in Record
           /\ journal # NoJournal /\ journal' # NoJournal
           /\ journal'.issue = journal.issue /\ journal'.before = journal.before
           /\ journal'.owes = journal.owes
           /\ journal'.attempted = journal.attempted
           /\ journal'.releaseParent = Len(base)
           /\ journal'.final = journal.final
<1> DEFINE r == [journal EXCEPT !.releaseParent = Len(base)]
<1>1. journal \in Record /\ journal # NoJournal /\ Len(base) \in Nat
    BY LenProperties DEF TypeOK, RecordInv, ReleaseIntent, LanePcs
<1>2. /\ r \in Record /\ r # NoJournal
      /\ r.issue = journal.issue /\ r.before = journal.before
      /\ r.owes = journal.owes /\ r.attempted = journal.attempted
      /\ r.releaseParent = Len(base) /\ r.final = journal.final
    BY <1>1, ParentRecord
<1>3. journal' = r
    BY DEF ReleaseIntent, HeadSha
<1> HIDE DEF r
<1> QED
    BY <1>1, <1>2, <1>3 DEF ReleaseIntent, git, Goto

LEMMA FinalizedEffect ==
    ASSUME TypeOK, RecordInv, Finalized
    PROVE  /\ UNCHANGED <<base, tree, remote, foreign, tracker, cur, repushes>>
           /\ pc \in {"merged", "released"} /\ pc' = "final"
           /\ journal \in Record /\ journal' \in Record
           /\ journal # NoJournal /\ journal' # NoJournal
           /\ journal'.issue = journal.issue /\ journal'.before = journal.before
           /\ journal'.owes = journal.owes
           /\ journal'.attempted = journal.attempted
           /\ journal'.releaseParent = journal.releaseParent
           /\ journal'.final = Len(base)
<1> DEFINE r == [journal EXCEPT !.final = Len(base)]
<1>1. journal \in Record /\ journal # NoJournal /\ Len(base) \in Nat
    BY LenProperties DEF TypeOK, RecordInv, Finalized, LanePcs
<1>2. /\ r \in Record /\ r # NoJournal
      /\ r.issue = journal.issue /\ r.before = journal.before
      /\ r.owes = journal.owes /\ r.attempted = journal.attempted
          /\ r.releaseParent = journal.releaseParent /\ r.final = Len(base)
    BY <1>1, FinalRecord
<1>3. journal' = r
    BY DEF Finalized, HeadSha
<1> HIDE DEF r
<1> QED
    BY <1>1, <1>2, <1>3 DEF Finalized, git, Goto

LEMMA MarkEffect ==
    ASSUME TypeOK, RecordInv, Mark
    PROVE  /\ UNCHANGED <<base, tree, remote, foreign, tracker, cur, repushes>>
           /\ pc = "recover" /\ journal \in Record /\ journal # NoJournal
           /\ \/ /\ pc' = "marked" /\ ~journal.attempted
                 /\ Len(base) = FinalOf(journal)
                 /\ journal' \in Record /\ journal' # NoJournal
                 /\ journal'.issue = journal.issue
                 /\ journal'.before = journal.before
                 /\ journal'.owes = journal.owes
                 /\ journal'.releaseParent = journal.releaseParent
                 /\ journal'.attempted = TRUE /\ journal'.final = Len(base)
              \/ pc' = "down" /\ UNCHANGED journal
<1>1. journal \in Record /\ journal # NoJournal /\ Len(base) \in Nat
    BY LenProperties DEF TypeOK, RecordInv, Mark, RecoveryPcs
<1>2. CASE HeadSha = FinalOf(journal) /\ ~journal.attempted /\ tree = "clean"
    <2> DEFINE r == [journal EXCEPT !.final = Len(base), !.attempted = TRUE]
    <2>1. /\ r \in Record /\ r # NoJournal
          /\ r.issue = journal.issue /\ r.before = journal.before
          /\ r.owes = journal.owes
              /\ r.releaseParent = journal.releaseParent
              /\ r.attempted = TRUE /\ r.final = Len(base)
        <3>1. r \in Record
            BY <1>1 DEF Record
        <3>2. /\ r.issue = journal.issue /\ r.before = journal.before
              /\ r.owes = journal.owes
              /\ r.releaseParent = journal.releaseParent
              /\ r.attempted = TRUE /\ r.final = Len(base)
            BY <1>1 DEF Record
        <3> QED
            BY <3>1, <3>2, NoJournalAssumption
    <2>2. journal' = r
        BY <1>2 DEF Mark, HeadSha
    <2> HIDE DEF r
    <2> QED
        BY <1>1, <1>2, <2>1, <2>2 DEF Mark, git, Goto, HeadSha
<1>3. CASE ~(HeadSha = FinalOf(journal) /\ ~journal.attempted /\ tree = "clean")
    BY <1>1, <1>3 DEF Mark, git, Goto
<1> QED
    BY <1>2, <1>3

\* base' is base and one more commit.
Extends(kind, i) ==
    /\ base' \in Seq(Commit) /\ Len(base') = Len(base) + 1
    /\ \A k \in 1..Len(base) : base'[k] = base[k]
    /\ base'[Len(base) + 1].kind = kind /\ base'[Len(base) + 1].issue = i

LEMMA Extending ==
    ASSUME TypeOK, NEW kind \in Kinds, NEW i \in Issues,
           base' = Append(base, [kind |-> kind, issue |-> i])
    PROVE  Extends(kind, i)
<1> DEFINE c == [kind |-> kind, issue |-> i]
<1>1. c \in Commit /\ c.kind = kind /\ c.issue = i
    BY DEF Commit
<1>2. base \in Seq(Commit) /\ base' = Append(base, c)
    BY DEF TypeOK
<1> HIDE DEF c
<1> QED
    BY <1>1, <1>2, Appended DEF Extends

LEMMA MergeEffect ==
    ASSUME TypeOK, Merge
    PROVE  /\ Extends("merge", cur) /\ pc = "begun" /\ pc' = "merged"
           /\ UNCHANGED <<tree, remote, foreign, journal, tracker, cur, repushes>>
BY Extending DEF Merge, Goto, Kinds, TypeOK

LEMMA ReleaseCommitEffect ==
    ASSUME TypeOK, ReleaseCommit
    PROVE  /\ Extends("release", cur) /\ pc = "intent" /\ pc' = "released"
           /\ UNCHANGED <<tree, remote, foreign, journal, tracker, cur, repushes>>
BY Extending DEF ReleaseCommit, Goto, Kinds, TypeOK

LEMMA SerialMergeEffect ==
    ASSUME TypeOK, NEW i \in Issues, SerialMerge(i)
    PROVE  /\ Extends("serial", i) /\ pc = "idle" /\ pc' = "smerged"
           /\ cur' = i /\ tracker[i] = "OPEN"
           /\ UNCHANGED <<tree, remote, foreign, journal, tracker, repushes>>
BY Extending DEF SerialMerge, Goto, Kinds, TypeOK, Closed

LEMMA OperatorCommitsEffect ==
    ASSUME TypeOK, NEW i \in Issues, OperatorCommits(i)
    PROVE  /\ Extends("operator", i) /\ pc = "down" /\ pc' = "down"
           /\ UNCHANGED <<tree, remote, foreign, journal, tracker, cur, repushes>>
BY Extending DEF OperatorCommits, Kinds, TypeOK

-----------------------------------------------------------------------------
(* The pending record belongs to the step the Run is at *)

LEMMA RecordStep == PublicationInv /\ [Next]_vars => RecordInv'
<1> SUFFICES ASSUME TypeOK, RecordInv, MergedInv, MarkedInv, DurableInv,
                    FinishedInv, ClosedIsDurable, TornIsJournaled, LandsOnce, [Next]_vars
             PROVE  RecordInv'
    BY DEF PublicationInv
<1> USE NoJournalAssumption DEF TypeOK, RecordInv,
         git, Goto, HeadSha, Fault, Closed, LanePcs, SerialPcs, RecoveryPcs
<1>1. CASE UNCHANGED vars
    BY <1>1 DEF vars
<1>2. ASSUME NEW i \in Issues, Stage(i) PROVE RecordInv'
    BY <1>2 DEF Stage
<1>3. ASSUME NEW i \in Issues, SerialMerge(i) PROVE RecordInv'
    BY <1>3, SerialMergeEffect
<1>4. ASSUME NEW i \in Issues, OperatorCommits(i) PROVE RecordInv'
    BY <1>4, OperatorCommitsEffect
<1>5. ASSUME NEW i \in Issues, ClosedElsewhere(i) PROVE RecordInv'
    BY <1>5 DEF ClosedElsewhere
<1>6. CASE Withhold
    BY <1>6 DEF Withhold
<1>7. CASE Begin
    <2>1. CASE pc' = "begun"
        <3>1. /\ journal' # NoJournal /\ journal'.issue = cur' /\ pc' = "begun"
              /\ journal'.owes = Owed(cur') /\ repushes' = 0 /\ cur' = cur
            BY <1>7, <2>1, BeginEffect
        <3> QED
            BY <3>1
    <2>2. CASE pc' # "begun"
        BY <1>7, <2>2, BeginEffect
    <2> QED
        BY <2>1, <2>2
<1>8. CASE Merge
    BY <1>8, MergeEffect
<1>9. CASE MergeNothing
    BY <1>9 DEF MergeNothing
<1>10. CASE MergeFails
    BY <1>10 DEF MergeFails
<1>11. CASE ReleaseIntent
    BY <1>11, ReleaseIntentEffect
<1>12. CASE ReleaseCommit
    BY <1>12, ReleaseCommitEffect
<1>13. CASE ReleaseFails
    BY <1>13 DEF ReleaseFails
<1>14. CASE Finalized
    BY <1>14, FinalizedEffect
<1>15. CASE Push
    BY <1>15 DEF Push, Lands
<1>16. CASE PushFails
    BY <1>16 DEF PushFails, Lands
<1>17. CASE Close
    BY <1>17 DEF Close
<1>18. CASE CloseFails
    BY <1>18 DEF CloseFails
<1>19. CASE Complete
    BY <1>19 DEF Complete
<1>20. CASE SerialPush
    BY <1>20 DEF SerialPush, Lands
<1>21. CASE SerialKeep
    BY <1>21 DEF SerialKeep
<1>22. CASE SerialReset
    BY <1>22, ResetBase
<1>23. CASE Start
    BY <1>23 DEF Start
<1>24. CASE Mark
    BY <1>24, MarkEffect
<1>25. CASE RecoveryPush
    <2>1. repushes' = 1 /\ pc' = "repushed" /\ UNCHANGED <<journal, cur>>
        BY <1>25 DEF RecoveryPush
    <2>2. journal # NoJournal /\ journal.attempted /\ journal.issue = cur
        BY <1>25 DEF RecoveryPush
    <2> QED
        BY <2>1, <2>2
<1>26. CASE RecoveryPushFails
    <2>1. repushes' = 1 /\ pc' = "down" /\ UNCHANGED <<journal, cur>>
        BY <1>26 DEF RecoveryPushFails
    <2>2. journal # NoJournal /\ journal.attempted /\ journal.issue = cur
        BY <1>26 DEF RecoveryPushFails
    <2> QED
        BY <2>1, <2>2
<1>27. CASE Prove
    BY <1>27 DEF Prove
<1>28. CASE RecoveryClose
    BY <1>28 DEF RecoveryClose
<1>29. CASE RecoveryRefused
    BY <1>29 DEF RecoveryRefused
<1>30. CASE RecoveryComplete
    BY <1>30 DEF RecoveryComplete
<1>31. CASE Crash
    BY <1>31 DEF Crash
<1>32. CASE OperatorCleans
    BY <1>32 DEF OperatorCleans
<1>33. CASE OperatorDirties
    BY <1>33 DEF OperatorDirties
<1>34. CASE UpstreamMoves
    BY <1>34 DEF UpstreamMoves
<1> QED
    BY <1>1, <1>2, <1>3, <1>4, <1>5, <1>6, <1>7, <1>8, <1>9, <1>10,
       <1>11, <1>12, <1>13, <1>14, <1>15, <1>16, <1>17, <1>18, <1>19,
       <1>20, <1>21, <1>22, <1>23, <1>24, <1>25, <1>26, <1>27, <1>28,
       <1>29, <1>30, <1>31, <1>32, <1>33, <1>34
       DEF Next, Lane, Serial, Reconcile, World

-----------------------------------------------------------------------------
(* Which commit the recorded publication has produced so far *)

\* A complete evidence proves the recorded merge.
LEMMA FinalFacts ==
    ASSUME base \in Seq(Commit), NEW r \in Record, FinalOf(r) # 0
    PROVE  /\ r.before \in Nat /\ r.before + 1 <= Len(base)
           /\ Is(r.before + 1, "merge", r.issue)
           /\ FinalOf(r) \in {r.before + 1, r.before + 2}
           /\ FinalOf(r) <= Len(base)
<1>1. Len(base) \in Nat /\ r.before \in Nat
    BY LenProperties DEF Record
<1>2. MergeAt(r) # 0
    BY DEF FinalOf, ReleaseAt
<1>3. r.before + 1 <= Len(base) /\ Is(r.before + 1, "merge", r.issue)
      /\ MergeAt(r) = r.before + 1
    BY <1>2 DEF MergeAt, HeadSha
<1>4. FinalOf(r) = MergeAt(r) \/ FinalOf(r) = ReleaseAt(r)
    BY DEF FinalOf
<1>5. CASE FinalOf(r) = MergeAt(r)
    BY <1>1, <1>3, <1>5
<1>6. CASE FinalOf(r) = ReleaseAt(r)
    <2>1. ReleaseAt(r) # 0
        BY <1>6
    <2>2. ReleaseAt(r) = r.before + 1 + 1 /\ r.before + 1 + 1 <= Len(base)
        BY <2>1, <1>3 DEF ReleaseAt, HeadSha
    <2> QED
        BY <1>1, <1>3, <1>6, <2>2
<1> QED
    BY <1>4, <1>5, <1>6

LEMMA MergedStep == PublicationInv /\ [Next]_vars => MergedInv'
<1> SUFFICES ASSUME TypeOK, RecordInv, MergedInv, MarkedInv, DurableInv,
                    FinishedInv, ClosedIsDurable, TornIsJournaled, LandsOnce, [Next]_vars
             PROVE  MergedInv'
    BY DEF PublicationInv
<1> USE DEF TypeOK, MergedInv, Is,
         git, Goto, HeadSha, Fault, Closed, LanePcs, SerialPcs, RecoveryPcs
<1>1. CASE UNCHANGED vars
    BY <1>1 DEF vars
<1>2. ASSUME NEW i \in Issues, Stage(i) PROVE MergedInv'
    BY <1>2 DEF Stage
<1>3. ASSUME NEW i \in Issues, SerialMerge(i) PROVE MergedInv'
    BY <1>3, SerialMergeEffect DEF Extends
<1>4. ASSUME NEW i \in Issues, OperatorCommits(i) PROVE MergedInv'
    BY <1>4, OperatorCommitsEffect DEF Extends
<1>5. ASSUME NEW i \in Issues, ClosedElsewhere(i) PROVE MergedInv'
    BY <1>5 DEF ClosedElsewhere
<1>6. CASE Withhold
    BY <1>6 DEF Withhold
<1>7. CASE Begin
    BY <1>7, BeginEffect DEF Extends
<1>8. CASE Merge
    <2>1. Extends("merge", cur) /\ pc = "begun" /\ pc' = "merged"
          /\ cur' = cur /\ journal' = journal /\ journal \in Record
        BY <1>8, MergeEffect DEF RecordInv
    <2>2. journal.before = Len(base) /\ Len(base) \in Nat
        BY <2>1, LenProperties DEF TypeOK
    <2>3. journal'.before + 1 <= Len(base') /\ Is(journal.before + 1, "merge", cur)'
        BY <2>1, <2>2 DEF Extends, Is
    <2> QED
        BY <2>1, <2>3
<1>9. CASE MergeNothing
    BY <1>9 DEF MergeNothing
<1>10. CASE MergeFails
    BY <1>10 DEF MergeFails
<1>11. CASE ReleaseIntent
    BY <1>11, ReleaseIntentEffect DEF Extends
<1>12. CASE ReleaseCommit
    <2>1. Extends("release", cur) /\ pc = "intent" /\ pc' = "released"
          /\ cur' = cur /\ journal' = journal /\ journal \in Record
        BY <1>12, ReleaseCommitEffect DEF RecordInv
    <2>2. /\ Len(base) \in Nat /\ journal.before \in Nat
          /\ journal.before + 1 <= Len(base)
          /\ Is(journal.before + 1, "merge", cur)
        BY <2>1, LenProperties DEF TypeOK, Record
    <2>3. journal'.before + 1 <= Len(base') /\ Is(journal.before + 1, "merge", cur)'
        BY <2>1, <2>2 DEF Extends, Is
    <2> QED
        BY <2>1, <2>3
<1>13. CASE ReleaseFails
    BY <1>13 DEF ReleaseFails
<1>14. CASE Finalized
    BY <1>14, FinalizedEffect DEF Extends
<1>15. CASE Push
    BY <1>15 DEF Push, Lands
<1>16. CASE PushFails
    BY <1>16 DEF PushFails, Lands
<1>17. CASE Close
    BY <1>17 DEF Close
<1>18. CASE CloseFails
    BY <1>18 DEF CloseFails
<1>19. CASE Complete
    BY <1>19 DEF Complete
<1>20. CASE SerialPush
    BY <1>20 DEF SerialPush, Lands
<1>21. CASE SerialKeep
    BY <1>21 DEF SerialKeep
<1>22. CASE SerialReset
    BY <1>22, ResetBase DEF Extends
<1>23. CASE Start
    <2>1. CASE pc' \in {"durable", "recover"}
        <3>1. /\ journal \in Record /\ FinalOf(journal) # 0
              /\ cur' = journal.issue /\ journal' = journal /\ base' = base
            BY <1>23, <2>1 DEF Start
        <3>2. journal.before + 1 <= Len(base) /\ Is(journal.before + 1, "merge", journal.issue)
            BY <3>1, FinalFacts
        <3>3. journal'.before + 1 <= Len(base') /\ Is(journal.before + 1, "merge", cur)'
            BY <3>1, <3>2 DEF Is
        <3> QED
            BY <2>1, <3>3
    <2>2. CASE pc' \in {"idle", "down"}
        BY <2>2
    <2> QED
        BY <1>23, <2>1, <2>2 DEF Start
<1>24. CASE Mark
    BY <1>24, MarkEffect DEF Extends
<1>25. CASE RecoveryPush
    BY <1>25 DEF RecoveryPush
<1>26. CASE RecoveryPushFails
    BY <1>26 DEF RecoveryPushFails
<1>27. CASE Prove
    BY <1>27 DEF Prove
<1>28. CASE RecoveryClose
    BY <1>28 DEF RecoveryClose
<1>29. CASE RecoveryRefused
    BY <1>29 DEF RecoveryRefused
<1>30. CASE RecoveryComplete
    BY <1>30 DEF RecoveryComplete
<1>31. CASE Crash
    BY <1>31 DEF Crash
<1>32. CASE OperatorCleans
    BY <1>32 DEF OperatorCleans
<1>33. CASE OperatorDirties
    BY <1>33 DEF OperatorDirties
<1>34. CASE UpstreamMoves
    BY <1>34 DEF UpstreamMoves
<1> QED
    BY <1>1, <1>2, <1>3, <1>4, <1>5, <1>6, <1>7, <1>8, <1>9, <1>10,
       <1>11, <1>12, <1>13, <1>14, <1>15, <1>16, <1>17, <1>18, <1>19,
       <1>20, <1>21, <1>22, <1>23, <1>24, <1>25, <1>26, <1>27, <1>28,
       <1>29, <1>30, <1>31, <1>32, <1>33, <1>34
       DEF Next, Lane, Serial, Reconcile, World

LEMMA MarkedStep == PublicationInv /\ [Next]_vars => MarkedInv'
<1> SUFFICES ASSUME TypeOK, RecordInv, MergedInv, MarkedInv, DurableInv,
                    FinishedInv, ClosedIsDurable, TornIsJournaled, LandsOnce, [Next]_vars
             PROVE  MarkedInv'
    BY DEF PublicationInv
<1> USE DEF TypeOK, MarkedInv,
         git, Goto, HeadSha, Fault, Closed, LanePcs, SerialPcs, RecoveryPcs
<1>1. CASE UNCHANGED vars
    <2>1. pc' = "marked" => pc = "marked" /\ UNCHANGED <<base, journal>>
        BY <1>1 DEF vars
    <2> QED
        BY <2>1 DEF FinalOf, MergeAt, ReleaseAt, Is
<1>2. ASSUME NEW i \in Issues, Stage(i) PROVE MarkedInv'
    BY <1>2 DEF Stage
<1>3. ASSUME NEW i \in Issues, SerialMerge(i) PROVE MarkedInv'
    BY <1>3, SerialMergeEffect
<1>4. ASSUME NEW i \in Issues, OperatorCommits(i) PROVE MarkedInv'
    BY <1>4, OperatorCommitsEffect
<1>5. ASSUME NEW i \in Issues, ClosedElsewhere(i) PROVE MarkedInv'
    <2>1. pc' = "marked" => pc = "marked" /\ UNCHANGED <<base, journal>>
        BY <1>5 DEF ClosedElsewhere
    <2> QED
        BY <2>1 DEF FinalOf, MergeAt, ReleaseAt, Is
<1>6. CASE Withhold
    BY <1>6 DEF Withhold
<1>7. CASE Begin
    BY <1>7, BeginEffect
<1>8. CASE Merge
    BY <1>8, MergeEffect
<1>9. CASE MergeNothing
    BY <1>9 DEF MergeNothing
<1>10. CASE MergeFails
    BY <1>10 DEF MergeFails
<1>11. CASE ReleaseIntent
    BY <1>11, ReleaseIntentEffect
<1>12. CASE ReleaseCommit
    BY <1>12, ReleaseCommitEffect
<1>13. CASE ReleaseFails
    BY <1>13 DEF ReleaseFails
<1>14. CASE Finalized
    BY <1>14, FinalizedEffect
<1>15. CASE Push
    BY <1>15 DEF Push
<1>16. CASE PushFails
    BY <1>16 DEF PushFails
<1>17. CASE Close
    BY <1>17 DEF Close
<1>18. CASE CloseFails
    BY <1>18 DEF CloseFails
<1>19. CASE Complete
    BY <1>19 DEF Complete
<1>20. CASE SerialPush
    BY <1>20 DEF SerialPush
<1>21. CASE SerialKeep
    BY <1>21 DEF SerialKeep
<1>22. CASE SerialReset
    BY <1>22, ResetBase
<1>23. CASE Start
    BY <1>23 DEF Start
<1>24. CASE Mark
    <2>1. CASE pc' = "marked"
        <3>1. /\ Len(base) = FinalOf(journal) /\ journal'.final = Len(base)
              /\ journal'.issue = journal.issue /\ journal'.before = journal.before
              /\ journal'.owes = journal.owes /\ base' = base
              /\ journal'.releaseParent = journal.releaseParent
            BY <1>24, <2>1, MarkEffect
        <3>2. MergeAt(journal)' = MergeAt(journal)
            BY <3>1 DEF MergeAt, Is, HeadSha
        <3>3. ReleaseAt(journal)' = ReleaseAt(journal)
            BY <3>1, <3>2 DEF ReleaseAt, Is, HeadSha
        <3>4. journal \in Record /\ journal.before + 1 <= Len(base)
            BY <1>24, MarkEffect DEF MergedInv
        <3>5. Len(base) # 0
            BY <3>4 DEF Record
        <3>6. FinalOf(journal)' = Len(base)
            BY <3>1, <3>2, <3>3, <3>5 DEF FinalOf
        <3> QED
            BY <3>1, <3>6
    <2>2. CASE pc' # "marked"
        BY <2>2
    <2> QED
        BY <2>1, <2>2
<1>25. CASE RecoveryPush
    BY <1>25 DEF RecoveryPush
<1>26. CASE RecoveryPushFails
    BY <1>26 DEF RecoveryPushFails
<1>27. CASE Prove
    BY <1>27 DEF Prove
<1>28. CASE RecoveryClose
    BY <1>28 DEF RecoveryClose
<1>29. CASE RecoveryRefused
    BY <1>29 DEF RecoveryRefused
<1>30. CASE RecoveryComplete
    BY <1>30 DEF RecoveryComplete
<1>31. CASE Crash
    <2>1. pc' = "marked" => pc = "marked" /\ UNCHANGED <<base, journal>>
        BY <1>31 DEF Crash
    <2> QED
        BY <2>1 DEF FinalOf, MergeAt, ReleaseAt, Is
<1>32. CASE OperatorCleans
    <2>1. pc' = "marked" => pc = "marked" /\ UNCHANGED <<base, journal>>
        BY <1>32 DEF OperatorCleans
    <2> QED
        BY <2>1 DEF FinalOf, MergeAt, ReleaseAt, Is
<1>33. CASE OperatorDirties
    <2>1. pc' = "marked" => pc = "marked" /\ UNCHANGED <<base, journal>>
        BY <1>33 DEF OperatorDirties
    <2> QED
        BY <2>1 DEF FinalOf, MergeAt, ReleaseAt, Is
<1>34. CASE UpstreamMoves
    <2>1. pc' = "marked" => pc = "marked" /\ UNCHANGED <<base, journal>>
        BY <1>34 DEF UpstreamMoves
    <2> QED
        BY <2>1 DEF FinalOf, MergeAt, ReleaseAt, Is
<1> QED
    BY <1>1, <1>2, <1>3, <1>4, <1>5, <1>6, <1>7, <1>8, <1>9, <1>10,
       <1>11, <1>12, <1>13, <1>14, <1>15, <1>16, <1>17, <1>18, <1>19,
       <1>20, <1>21, <1>22, <1>23, <1>24, <1>25, <1>26, <1>27, <1>28,
       <1>29, <1>30, <1>31, <1>32, <1>33, <1>34
       DEF Next, Lane, Serial, Reconcile, World

-----------------------------------------------------------------------------
(* Nothing that the upstream contains is ever lost *)

Keeps ==
    /\ remote <= remote'
    /\ \A k \in 1..Len(base) :
           Contains(k) =>
               /\ k \in 1..Len(base') /\ base'[k] = base[k]
               /\ ~HasUpstream \/ k <= remote'

LEMMA KeptStep == PublicationInv /\ [Next]_vars => Keeps
<1> SUFFICES ASSUME TypeOK, RecordInv, MergedInv, MarkedInv, DurableInv,
                    FinishedInv, ClosedIsDurable, TornIsJournaled, LandsOnce, [Next]_vars
             PROVE  Keeps
    BY DEF PublicationInv
<1> USE LenProperties DEF TypeOK, Contains,
         git, Goto, HeadSha, Fault, Closed, LanePcs, SerialPcs, RecoveryPcs
<1>1. CASE UNCHANGED vars
    BY <1>1 DEF vars, Keeps
<1>2. ASSUME NEW i \in Issues, Stage(i) PROVE Keeps
    <2>1. UNCHANGED <<base, remote>>
        BY <1>2 DEF Stage
    <2> QED
        BY <2>1 DEF Keeps
<1>3. ASSUME NEW i \in Issues, SerialMerge(i) PROVE Keeps
    <2>1. base' \in Seq(Commit) /\ remote' = remote /\ Len(base') = Len(base) + 1
          /\ \A k \in 1..Len(base) : base'[k] = base[k]
        BY <1>3, SerialMergeEffect DEF Extends
    <2> QED
        BY <2>1, LenProperties DEF Keeps
<1>4. ASSUME NEW i \in Issues, OperatorCommits(i) PROVE Keeps
    <2>1. base' \in Seq(Commit) /\ remote' = remote /\ Len(base') = Len(base) + 1
          /\ \A k \in 1..Len(base) : base'[k] = base[k]
        BY <1>4, OperatorCommitsEffect DEF Extends
    <2> QED
        BY <2>1, LenProperties DEF Keeps
<1>5. ASSUME NEW i \in Issues, ClosedElsewhere(i) PROVE Keeps
    <2>1. UNCHANGED <<base, remote>>
        BY <1>5 DEF ClosedElsewhere
    <2> QED
        BY <2>1 DEF Keeps
<1>6. CASE Withhold
    <2>1. UNCHANGED <<base, remote>>
        BY <1>6 DEF Withhold
    <2> QED
        BY <2>1 DEF Keeps
<1>7. CASE Begin
    <2>1. UNCHANGED <<base, remote>>
        BY <1>7, BeginEffect
    <2> QED
        BY <2>1 DEF Keeps
<1>8. CASE Merge
    <2>1. base' \in Seq(Commit) /\ remote' = remote /\ Len(base') = Len(base) + 1
          /\ \A k \in 1..Len(base) : base'[k] = base[k]
        BY <1>8, MergeEffect DEF Extends
    <2> QED
        BY <2>1, LenProperties DEF Keeps
<1>9. CASE MergeNothing
    <2>1. UNCHANGED <<base, remote>>
        BY <1>9 DEF MergeNothing
    <2> QED
        BY <2>1 DEF Keeps
<1>10. CASE MergeFails
    <2>1. UNCHANGED <<base, remote>>
        BY <1>10 DEF MergeFails
    <2> QED
        BY <2>1 DEF Keeps
<1>11. CASE ReleaseIntent
    <2>1. UNCHANGED <<base, remote>>
        BY <1>11, ReleaseIntentEffect
    <2> QED
        BY <2>1 DEF Keeps
<1>12. CASE ReleaseCommit
    <2>1. base' \in Seq(Commit) /\ remote' = remote /\ Len(base') = Len(base) + 1
          /\ \A k \in 1..Len(base) : base'[k] = base[k]
        BY <1>12, ReleaseCommitEffect DEF Extends
    <2> QED
        BY <2>1, LenProperties DEF Keeps
<1>13. CASE ReleaseFails
    <2>1. UNCHANGED <<base, remote>>
        BY <1>13 DEF ReleaseFails
    <2> QED
        BY <2>1 DEF Keeps
<1>14. CASE Finalized
    <2>1. UNCHANGED <<base, remote>>
        BY <1>14, FinalizedEffect
    <2> QED
        BY <2>1 DEF Keeps
<1>15. CASE Push
    <2>1. base' = base /\ remote' \in {remote, Len(base)}
        BY <1>15 DEF Push, Lands
    <2> QED
        BY <2>1, LenProperties DEF Keeps
<1>16. CASE PushFails
    <2>1. base' = base /\ remote' \in {remote, Len(base)}
        BY <1>16 DEF PushFails, Lands
    <2> QED
        BY <2>1, LenProperties DEF Keeps
<1>17. CASE Close
    <2>1. UNCHANGED <<base, remote>>
        BY <1>17 DEF Close
    <2> QED
        BY <2>1 DEF Keeps
<1>18. CASE CloseFails
    <2>1. UNCHANGED <<base, remote>>
        BY <1>18 DEF CloseFails
    <2> QED
        BY <2>1 DEF Keeps
<1>19. CASE Complete
    <2>1. UNCHANGED <<base, remote>>
        BY <1>19 DEF Complete
    <2> QED
        BY <2>1 DEF Keeps
<1>20. CASE SerialPush
    <2>1. base' = base /\ remote' \in {remote, Len(base)}
        BY <1>20 DEF SerialPush, Lands
    <2> QED
        BY <2>1, LenProperties DEF Keeps
<1>21. CASE SerialKeep
    <2>1. UNCHANGED <<base, remote>>
        BY <1>21 DEF SerialKeep
    <2> QED
        BY <2>1 DEF Keeps
<1>22. CASE SerialReset
    <2>1. /\ base' \in Seq(Commit) /\ Len(base) \in Nat \ {0}
          /\ Len(base') = Len(base) - 1
          /\ \A k \in 1..(Len(base) - 1) : base'[k] = base[k]
          /\ remote \in Nat /\ remote <= Len(base) - 1
          /\ remote' \in {remote, Len(base) - 1} /\ HasUpstream
        BY <1>22, ResetBase
    <2> QED
        BY <2>1 DEF Keeps
<1>23. CASE Start
    <2>1. UNCHANGED <<base, remote>>
        BY <1>23 DEF Start
    <2> QED
        BY <2>1 DEF Keeps
<1>24. CASE Mark
    <2>1. UNCHANGED <<base, remote>>
        BY <1>24, MarkEffect
    <2> QED
        BY <2>1 DEF Keeps
<1>25. CASE RecoveryPush
    <2>1. base' = base /\ remote' \in {remote, journal.final} /\ pc = "marked"
        BY <1>25 DEF RecoveryPush
    <2>2. journal.final = Len(base)
        BY <2>1 DEF MergedInv
    <2> QED
        BY <2>1, <2>2, LenProperties DEF Keeps
<1>26. CASE RecoveryPushFails
    <2>1. base' = base /\ remote' \in {remote, journal.final} /\ pc = "marked"
        BY <1>26 DEF RecoveryPushFails
    <2>2. journal.final = Len(base)
        BY <2>1 DEF MergedInv
    <2> QED
        BY <2>1, <2>2, LenProperties DEF Keeps
<1>27. CASE Prove
    <2>1. UNCHANGED <<base, remote>>
        BY <1>27 DEF Prove
    <2> QED
        BY <2>1 DEF Keeps
<1>28. CASE RecoveryClose
    <2>1. UNCHANGED <<base, remote>>
        BY <1>28 DEF RecoveryClose
    <2> QED
        BY <2>1 DEF Keeps
<1>29. CASE RecoveryRefused
    <2>1. UNCHANGED <<base, remote>>
        BY <1>29 DEF RecoveryRefused
    <2> QED
        BY <2>1 DEF Keeps
<1>30. CASE RecoveryComplete
    <2>1. UNCHANGED <<base, remote>>
        BY <1>30 DEF RecoveryComplete
    <2> QED
        BY <2>1 DEF Keeps
<1>31. CASE Crash
    <2>1. UNCHANGED <<base, remote>>
        BY <1>31 DEF Crash
    <2> QED
        BY <2>1 DEF Keeps
<1>32. CASE OperatorCleans
    <2>1. UNCHANGED <<base, remote>>
        BY <1>32 DEF OperatorCleans
    <2> QED
        BY <2>1 DEF Keeps
<1>33. CASE OperatorDirties
    <2>1. UNCHANGED <<base, remote>>
        BY <1>33 DEF OperatorDirties
    <2> QED
        BY <2>1 DEF Keeps
<1>34. CASE UpstreamMoves
    <2>1. UNCHANGED <<base, remote>>
        BY <1>34 DEF UpstreamMoves
    <2> QED
        BY <2>1 DEF Keeps
<1> QED
    BY <1>1, <1>2, <1>3, <1>4, <1>5, <1>6, <1>7, <1>8, <1>9, <1>10,
       <1>11, <1>12, <1>13, <1>14, <1>15, <1>16, <1>17, <1>18, <1>19,
       <1>20, <1>21, <1>22, <1>23, <1>24, <1>25, <1>26, <1>27, <1>28,
       <1>29, <1>30, <1>31, <1>32, <1>33, <1>34
       DEF Next, Lane, Serial, Reconcile, World

-----------------------------------------------------------------------------
(* Where durability and closure are already proved *)

LEMMA DurableStep == PublicationInv /\ [Next]_vars => DurableInv'
<1> SUFFICES ASSUME TypeOK, RecordInv, MergedInv, MarkedInv, DurableInv,
                    FinishedInv, ClosedIsDurable, TornIsJournaled, LandsOnce, [Next]_vars
             PROVE  DurableInv'
    BY DEF PublicationInv
<1> USE LenProperties DEF TypeOK, DurableInv, Contains, Is,
         git, Goto, HeadSha, Fault, Closed, LanePcs, SerialPcs, RecoveryPcs
<1>1. CASE UNCHANGED vars
    BY <1>1 DEF vars
<1>2. ASSUME NEW i \in Issues, Stage(i) PROVE DurableInv'
    BY <1>2 DEF Stage
<1>3. ASSUME NEW i \in Issues, SerialMerge(i) PROVE DurableInv'
    <2>1. Extends("serial", i) /\ cur' = i /\ pc' = "smerged" /\ remote' = remote
        BY <1>3, SerialMergeEffect
    <2>2. Len(base) \in Nat /\ Len(base') = Len(base) + 1
        BY <2>1, LenProperties DEF Extends
    <2> QED
        BY <2>1, <2>2 DEF Extends, Is
<1>4. ASSUME NEW i \in Issues, OperatorCommits(i) PROVE DurableInv'
    BY <1>4, OperatorCommitsEffect
<1>5. ASSUME NEW i \in Issues, ClosedElsewhere(i) PROVE DurableInv'
    BY <1>5 DEF ClosedElsewhere
<1>6. CASE Withhold
    BY <1>6 DEF Withhold
<1>7. CASE Begin
    BY <1>7, BeginEffect
<1>8. CASE Merge
    BY <1>8, MergeEffect
<1>9. CASE MergeNothing
    BY <1>9 DEF MergeNothing
<1>10. CASE MergeFails
    BY <1>10 DEF MergeFails
<1>11. CASE ReleaseIntent
    BY <1>11, ReleaseIntentEffect
<1>12. CASE ReleaseCommit
    BY <1>12, ReleaseCommitEffect
<1>13. CASE ReleaseFails
    BY <1>13 DEF ReleaseFails
<1>14. CASE Finalized
    BY <1>14, FinalizedEffect
<1>15. CASE Push
    <2>1. journal \in Record /\ journal.before + 1 <= Len(base)
        BY <1>15 DEF Push, RecordInv, MergedInv
    <2>2. journal.before \in Nat /\ Len(base) \in Nat
        BY <2>1, LenProperties DEF Record
    <2>3. ~HasUpstream \/ remote' = Len(base)
        BY <1>15 DEF Push, Lands
    <2>4. UNCHANGED journal /\ pc' = "pushed"
        BY <1>15 DEF Push
    <2> QED
        BY <2>1, <2>2, <2>3, <2>4
<1>16. CASE PushFails
    BY <1>16 DEF PushFails, Lands
<1>17. CASE Close
    BY <1>17 DEF Close
<1>18. CASE CloseFails
    BY <1>18 DEF CloseFails
<1>19. CASE Complete
    BY <1>19 DEF Complete
<1>20. CASE SerialPush
    <2>1. ~HasUpstream \/ remote' = Len(base)
        BY <1>20 DEF SerialPush, Lands
    <2>2. base' = base /\ pc' = "spushed" /\ cur' = cur
        BY <1>20 DEF SerialPush, Lands
    <2>3. Len(base) > 0 /\ Is(Len(base), "serial", cur) /\ Len(base) \in Nat
        BY <1>20, LenProperties DEF SerialPush
    <2> QED
        BY <2>1, <2>2, <2>3 DEF Is
<1>21. CASE SerialKeep
    BY <1>21 DEF SerialKeep
<1>22. CASE SerialReset
    BY <1>22, ResetBase
<1>23. CASE Start
    <2>1. CASE pc' = "durable"
        <3>1. /\ journal \in Record /\ FinalOf(journal) # 0
              /\ Contains(FinalOf(journal))
              /\ UNCHANGED <<journal, base, remote>>
            BY <1>23, <2>1 DEF Start
        <3>2. FinalOf(journal) \in {journal.before + 1, journal.before + 2}
              /\ journal.before \in Nat
            BY <3>1, FinalFacts
        <3>3. Contains(journal.before + 1)
            BY <3>1, <3>2
        <3> QED
            BY <2>1, <3>1, <3>3
    <2>2. CASE pc' \in {"idle", "down", "recover"}
        BY <2>2
    <2> QED
        BY <1>23, <2>1, <2>2 DEF Start
<1>24. CASE Mark
    BY <1>24, MarkEffect
<1>25. CASE RecoveryPush
    BY <1>25 DEF RecoveryPush
<1>26. CASE RecoveryPushFails
    BY <1>26 DEF RecoveryPushFails
<1>27. CASE Prove
    <2>1. journal \in Record /\ journal.before + 1 <= Len(base) /\ journal.final = Len(base)
        BY <1>27 DEF Prove, RecordInv, MergedInv
    <2>2. journal.before \in Nat /\ Len(base) \in Nat
        BY <2>1, LenProperties DEF Record
    <2>3. CASE pc' = "durable"
        <3>1. Contains(journal.final)
            BY <1>27, <2>3 DEF Prove
        <3> QED
            BY <1>27, <2>1, <2>2, <2>3, <3>1 DEF Prove
    <2>4. CASE pc' = "down"
        BY <2>4
    <2> QED
        BY <1>27, <2>3, <2>4 DEF Prove
<1>28. CASE RecoveryClose
    <2>1. journal \in Record /\ journal.issue = cur /\ journal.owes = Owed(cur)
        BY <1>28 DEF RecoveryClose, RecordInv
    <2>2. cur \in Closing => "close" \in journal.owes
        BY <2>1 DEF Owed
    <2>3. cur \in Closing => tracker'[cur] # "OPEN"
        BY <1>28, <2>2 DEF RecoveryClose
    <2>4. Contains(journal.before + 1) /\ UNCHANGED <<journal, remote, cur>> /\ pc' = "reclosed"
        BY <1>28 DEF RecoveryClose
    <2> QED
        BY <2>3, <2>4
<1>29. CASE RecoveryRefused
    BY <1>29 DEF RecoveryRefused
<1>30. CASE RecoveryComplete
    BY <1>30 DEF RecoveryComplete
<1>31. CASE Crash
    BY <1>31 DEF Crash
<1>32. CASE OperatorCleans
    BY <1>32 DEF OperatorCleans
<1>33. CASE OperatorDirties
    BY <1>33 DEF OperatorDirties
<1>34. CASE UpstreamMoves
    BY <1>34 DEF UpstreamMoves
<1> QED
    BY <1>1, <1>2, <1>3, <1>4, <1>5, <1>6, <1>7, <1>8, <1>9, <1>10,
       <1>11, <1>12, <1>13, <1>14, <1>15, <1>16, <1>17, <1>18, <1>19,
       <1>20, <1>21, <1>22, <1>23, <1>24, <1>25, <1>26, <1>27, <1>28,
       <1>29, <1>30, <1>31, <1>32, <1>33, <1>34
       DEF Next, Lane, Serial, Reconcile, World

-----------------------------------------------------------------------------
(* Which steps touch the tracker, the merges of base and the record *)

TrackerKept ==
    \/ UNCHANGED tracker
    \/ Close \/ RecoveryClose \/ \E i \in Issues : ClosedElsewhere(i)

LEMMA TrackerWriters == PublicationInv /\ [Next]_vars => TrackerKept
<1> SUFFICES ASSUME TypeOK, RecordInv, MergedInv, MarkedInv, DurableInv,
                    FinishedInv, ClosedIsDurable, TornIsJournaled, LandsOnce, [Next]_vars
             PROVE  TrackerKept
    BY DEF PublicationInv
<1> USE DEF TrackerKept
<1>1. CASE UNCHANGED vars
    BY <1>1 DEF vars
<1>2. ASSUME NEW i \in Issues, Stage(i) PROVE TrackerKept
    BY <1>2 DEF Stage
<1>3. ASSUME NEW i \in Issues, SerialMerge(i) PROVE TrackerKept
    BY <1>3, SerialMergeEffect
<1>4. ASSUME NEW i \in Issues, OperatorCommits(i) PROVE TrackerKept
    BY <1>4, OperatorCommitsEffect
<1>5. ASSUME NEW i \in Issues, ClosedElsewhere(i) PROVE TrackerKept
    BY <1>5
<1>6. CASE Withhold
    BY <1>6 DEF Withhold
<1>7. CASE Begin
    BY <1>7, BeginEffect
<1>8. CASE Merge
    BY <1>8, MergeEffect
<1>9. CASE MergeNothing
    BY <1>9 DEF MergeNothing
<1>10. CASE MergeFails
    BY <1>10 DEF MergeFails
<1>11. CASE ReleaseIntent
    BY <1>11, ReleaseIntentEffect
<1>12. CASE ReleaseCommit
    BY <1>12, ReleaseCommitEffect
<1>13. CASE ReleaseFails
    BY <1>13 DEF ReleaseFails
<1>14. CASE Finalized
    BY <1>14, FinalizedEffect
<1>15. CASE Push
    BY <1>15 DEF Push
<1>16. CASE PushFails
    BY <1>16 DEF PushFails
<1>17. CASE Close
    BY <1>17
<1>18. CASE CloseFails
    BY <1>18 DEF CloseFails
<1>19. CASE Complete
    BY <1>19 DEF Complete
<1>20. CASE SerialPush
    BY <1>20 DEF SerialPush
<1>21. CASE SerialKeep
    BY <1>21 DEF SerialKeep
<1>22. CASE SerialReset
    BY <1>22, ResetBase
<1>23. CASE Start
    BY <1>23 DEF Start
<1>24. CASE Mark
    BY <1>24, MarkEffect
<1>25. CASE RecoveryPush
    BY <1>25 DEF RecoveryPush
<1>26. CASE RecoveryPushFails
    BY <1>26 DEF RecoveryPushFails
<1>27. CASE Prove
    BY <1>27 DEF Prove
<1>28. CASE RecoveryClose
    BY <1>28
<1>29. CASE RecoveryRefused
    BY <1>29 DEF RecoveryRefused
<1>30. CASE RecoveryComplete
    BY <1>30 DEF RecoveryComplete
<1>31. CASE Crash
    BY <1>31 DEF Crash
<1>32. CASE OperatorCleans
    BY <1>32 DEF OperatorCleans
<1>33. CASE OperatorDirties
    BY <1>33 DEF OperatorDirties
<1>34. CASE UpstreamMoves
    BY <1>34 DEF UpstreamMoves
<1> QED
    BY <1>1, <1>2, <1>3, <1>4, <1>5, <1>6, <1>7, <1>8, <1>9, <1>10,
       <1>11, <1>12, <1>13, <1>14, <1>15, <1>16, <1>17, <1>18, <1>19,
       <1>20, <1>21, <1>22, <1>23, <1>24, <1>25, <1>26, <1>27, <1>28,
       <1>29, <1>30, <1>31, <1>32, <1>33, <1>34
       DEF Next, Lane, Serial, Reconcile, World

NoNewMerge ==
    \A k \in 1..Len(base') : \A i \in Issues :
        base'[k].kind = "merge" /\ base'[k].issue = i =>
            k \in 1..Len(base) /\ Is(k, "merge", i)

LEMMA MergeWriters == PublicationInv /\ [Next]_vars => (NoNewMerge \/ Merge)
<1> SUFFICES ASSUME TypeOK, RecordInv, MergedInv, MarkedInv, DurableInv,
                    FinishedInv, ClosedIsDurable, TornIsJournaled, LandsOnce, [Next]_vars
             PROVE  (NoNewMerge \/ Merge)
    BY DEF PublicationInv
<1> USE DEF TypeOK
<1>1. CASE UNCHANGED vars
    <2>1. UNCHANGED base
        BY <1>1 DEF vars
    <2> QED
        BY <2>1 DEF NoNewMerge, Is
<1>2. ASSUME NEW i \in Issues, Stage(i) PROVE (NoNewMerge \/ Merge)
    <2>1. UNCHANGED base
        BY <1>2 DEF Stage, git
    <2> QED
        BY <2>1 DEF NoNewMerge, Is
<1>3. ASSUME NEW i \in Issues, SerialMerge(i) PROVE (NoNewMerge \/ Merge)
    <2>1. Extends("serial", i)
        BY <1>3, SerialMergeEffect
    <2> QED
        BY <2>1, LenProperties DEF Extends, TypeOK, NoNewMerge, Is
<1>4. ASSUME NEW i \in Issues, OperatorCommits(i) PROVE (NoNewMerge \/ Merge)
    <2>1. Extends("operator", i)
        BY <1>4, OperatorCommitsEffect
    <2> QED
        BY <2>1, LenProperties DEF Extends, TypeOK, NoNewMerge, Is
<1>5. ASSUME NEW i \in Issues, ClosedElsewhere(i) PROVE (NoNewMerge \/ Merge)
    <2>1. UNCHANGED base
        BY <1>5 DEF ClosedElsewhere, git
    <2> QED
        BY <2>1 DEF NoNewMerge, Is
<1>6. CASE Withhold
    <2>1. UNCHANGED base
        BY <1>6 DEF Withhold, git
    <2> QED
        BY <2>1 DEF NoNewMerge, Is
<1>7. CASE Begin
    <2>1. UNCHANGED base
        BY <1>7, BeginEffect
    <2> QED
        BY <2>1 DEF NoNewMerge, Is
<1>8. CASE Merge
    BY <1>8
<1>9. CASE MergeNothing
    <2>1. UNCHANGED base
        BY <1>9 DEF MergeNothing, git
    <2> QED
        BY <2>1 DEF NoNewMerge, Is
<1>10. CASE MergeFails
    <2>1. UNCHANGED base
        BY <1>10 DEF MergeFails, git
    <2> QED
        BY <2>1 DEF NoNewMerge, Is
<1>11. CASE ReleaseIntent
    <2>1. UNCHANGED base
        BY <1>11, ReleaseIntentEffect
    <2> QED
        BY <2>1 DEF NoNewMerge, Is
<1>12. CASE ReleaseCommit
    <2>1. Extends("release", cur)
        BY <1>12, ReleaseCommitEffect
    <2> QED
        BY <2>1, LenProperties DEF Extends, TypeOK, NoNewMerge, Is
<1>13. CASE ReleaseFails
    <2>1. UNCHANGED base
        BY <1>13 DEF ReleaseFails, git
    <2> QED
        BY <2>1 DEF NoNewMerge, Is
<1>14. CASE Finalized
    <2>1. UNCHANGED base
        BY <1>14, FinalizedEffect
    <2> QED
        BY <2>1 DEF NoNewMerge, Is
<1>15. CASE Push
    <2>1. UNCHANGED base
        BY <1>15 DEF Push, Lands, git
    <2> QED
        BY <2>1 DEF NoNewMerge, Is
<1>16. CASE PushFails
    <2>1. UNCHANGED base
        BY <1>16 DEF PushFails, Lands, git
    <2> QED
        BY <2>1 DEF NoNewMerge, Is
<1>17. CASE Close
    <2>1. UNCHANGED base
        BY <1>17 DEF Close, git
    <2> QED
        BY <2>1 DEF NoNewMerge, Is
<1>18. CASE CloseFails
    <2>1. UNCHANGED base
        BY <1>18 DEF CloseFails, git
    <2> QED
        BY <2>1 DEF NoNewMerge, Is
<1>19. CASE Complete
    <2>1. UNCHANGED base
        BY <1>19 DEF Complete, git
    <2> QED
        BY <2>1 DEF NoNewMerge, Is
<1>20. CASE SerialPush
    <2>1. UNCHANGED base
        BY <1>20 DEF SerialPush, Lands, git
    <2> QED
        BY <2>1 DEF NoNewMerge, Is
<1>21. CASE SerialKeep
    <2>1. UNCHANGED base
        BY <1>21 DEF SerialKeep, git
    <2> QED
        BY <2>1 DEF NoNewMerge, Is
<1>22. CASE SerialReset
    <2>1. /\ Len(base) \in Nat \ {0} /\ Len(base') = Len(base) - 1
          /\ \A k \in 1..(Len(base) - 1) : base'[k] = base[k]
        BY <1>22, ResetBase
    <2> QED
        BY <2>1 DEF NoNewMerge, Is
<1>23. CASE Start
    <2>1. UNCHANGED base
        BY <1>23 DEF Start, git
    <2> QED
        BY <2>1 DEF NoNewMerge, Is
<1>24. CASE Mark
    <2>1. UNCHANGED base
        BY <1>24, MarkEffect
    <2> QED
        BY <2>1 DEF NoNewMerge, Is
<1>25. CASE RecoveryPush
    <2>1. UNCHANGED base
        BY <1>25 DEF RecoveryPush, git
    <2> QED
        BY <2>1 DEF NoNewMerge, Is
<1>26. CASE RecoveryPushFails
    <2>1. UNCHANGED base
        BY <1>26 DEF RecoveryPushFails, git
    <2> QED
        BY <2>1 DEF NoNewMerge, Is
<1>27. CASE Prove
    <2>1. UNCHANGED base
        BY <1>27 DEF Prove, git
    <2> QED
        BY <2>1 DEF NoNewMerge, Is
<1>28. CASE RecoveryClose
    <2>1. UNCHANGED base
        BY <1>28 DEF RecoveryClose, git
    <2> QED
        BY <2>1 DEF NoNewMerge, Is
<1>29. CASE RecoveryRefused
    <2>1. UNCHANGED base
        BY <1>29 DEF RecoveryRefused, git
    <2> QED
        BY <2>1 DEF NoNewMerge, Is
<1>30. CASE RecoveryComplete
    <2>1. UNCHANGED base
        BY <1>30 DEF RecoveryComplete, git
    <2> QED
        BY <2>1 DEF NoNewMerge, Is
<1>31. CASE Crash
    <2>1. UNCHANGED base
        BY <1>31 DEF Crash, git
    <2> QED
        BY <2>1 DEF NoNewMerge, Is
<1>32. CASE OperatorCleans
    <2>1. UNCHANGED base
        BY <1>32 DEF OperatorCleans, git
    <2> QED
        BY <2>1 DEF NoNewMerge, Is
<1>33. CASE OperatorDirties
    <2>1. UNCHANGED base
        BY <1>33 DEF OperatorDirties, git
    <2> QED
        BY <2>1 DEF NoNewMerge, Is
<1>34. CASE UpstreamMoves
    <2>1. UNCHANGED base
        BY <1>34 DEF UpstreamMoves, git
    <2> QED
        BY <2>1 DEF NoNewMerge, Is
<1> QED
    BY <1>1, <1>2, <1>3, <1>4, <1>5, <1>6, <1>7, <1>8, <1>9, <1>10,
       <1>11, <1>12, <1>13, <1>14, <1>15, <1>16, <1>17, <1>18, <1>19,
       <1>20, <1>21, <1>22, <1>23, <1>24, <1>25, <1>26, <1>27, <1>28,
       <1>29, <1>30, <1>31, <1>32, <1>33, <1>34
       DEF Next, Lane, Serial, Reconcile, World

RecordKept ==
    \/ journal = NoJournal
    \/ /\ journal' # NoJournal
       /\ journal'.issue = journal.issue /\ journal'.before = journal.before

LEMMA RecordWriters == PublicationInv /\ [Next]_vars => (RecordKept \/ MergeNothing \/ Complete \/ RecoveryComplete)
<1> SUFFICES ASSUME TypeOK, RecordInv, MergedInv, MarkedInv, DurableInv,
                    FinishedInv, ClosedIsDurable, TornIsJournaled, LandsOnce, [Next]_vars
             PROVE  (RecordKept \/ MergeNothing \/ Complete \/ RecoveryComplete)
    BY DEF PublicationInv
<1> USE DEF TypeOK
<1>1. CASE UNCHANGED vars
    BY <1>1 DEF vars, RecordKept
<1>2. ASSUME NEW i \in Issues, Stage(i) PROVE (RecordKept \/ MergeNothing \/ Complete \/ RecoveryComplete)
    BY <1>2 DEF Stage, RecordKept
<1>3. ASSUME NEW i \in Issues, SerialMerge(i) PROVE (RecordKept \/ MergeNothing \/ Complete \/ RecoveryComplete)
    BY <1>3, SerialMergeEffect DEF RecordKept
<1>4. ASSUME NEW i \in Issues, OperatorCommits(i) PROVE (RecordKept \/ MergeNothing \/ Complete \/ RecoveryComplete)
    BY <1>4, OperatorCommitsEffect DEF RecordKept
<1>5. ASSUME NEW i \in Issues, ClosedElsewhere(i) PROVE (RecordKept \/ MergeNothing \/ Complete \/ RecoveryComplete)
    BY <1>5 DEF ClosedElsewhere, RecordKept
<1>6. CASE Withhold
    BY <1>6 DEF Withhold, RecordKept
<1>7. CASE Begin
    BY <1>7, BeginEffect DEF RecordKept
<1>8. CASE Merge
    BY <1>8, MergeEffect DEF RecordKept
<1>9. CASE MergeNothing
    BY <1>9
<1>10. CASE MergeFails
    BY <1>10 DEF MergeFails, RecordKept
<1>11. CASE ReleaseIntent
    BY <1>11, ReleaseIntentEffect DEF RecordKept
<1>12. CASE ReleaseCommit
    BY <1>12, ReleaseCommitEffect DEF RecordKept
<1>13. CASE ReleaseFails
    BY <1>13 DEF ReleaseFails, RecordKept
<1>14. CASE Finalized
    BY <1>14, FinalizedEffect DEF RecordKept
<1>15. CASE Push
    BY <1>15 DEF Push, RecordKept
<1>16. CASE PushFails
    BY <1>16 DEF PushFails, RecordKept
<1>17. CASE Close
    BY <1>17 DEF Close, RecordKept
<1>18. CASE CloseFails
    BY <1>18 DEF CloseFails, RecordKept
<1>19. CASE Complete
    BY <1>19
<1>20. CASE SerialPush
    BY <1>20 DEF SerialPush, RecordKept
<1>21. CASE SerialKeep
    BY <1>21 DEF SerialKeep, RecordKept
<1>22. CASE SerialReset
    BY <1>22, ResetBase DEF RecordKept
<1>23. CASE Start
    BY <1>23 DEF Start, RecordKept
<1>24. CASE Mark
    BY <1>24, MarkEffect DEF RecordKept
<1>25. CASE RecoveryPush
    BY <1>25 DEF RecoveryPush, RecordKept
<1>26. CASE RecoveryPushFails
    BY <1>26 DEF RecoveryPushFails, RecordKept
<1>27. CASE Prove
    BY <1>27 DEF Prove, RecordKept
<1>28. CASE RecoveryClose
    BY <1>28 DEF RecoveryClose, RecordKept
<1>29. CASE RecoveryRefused
    BY <1>29 DEF RecoveryRefused, RecordKept
<1>30. CASE RecoveryComplete
    BY <1>30
<1>31. CASE Crash
    BY <1>31 DEF Crash, RecordKept
<1>32. CASE OperatorCleans
    BY <1>32 DEF OperatorCleans, RecordKept
<1>33. CASE OperatorDirties
    BY <1>33 DEF OperatorDirties, RecordKept
<1>34. CASE UpstreamMoves
    BY <1>34 DEF UpstreamMoves, RecordKept
<1> QED
    BY <1>1, <1>2, <1>3, <1>4, <1>5, <1>6, <1>7, <1>8, <1>9, <1>10,
       <1>11, <1>12, <1>13, <1>14, <1>15, <1>16, <1>17, <1>18, <1>19,
       <1>20, <1>21, <1>22, <1>23, <1>24, <1>25, <1>26, <1>27, <1>28,
       <1>29, <1>30, <1>31, <1>32, <1>33, <1>34
       DEF Next, Lane, Serial, Reconcile, World

StagedHere ==
    pc' \in {"staged", "begun"} =>
        \/ pc = "idle" /\ tracker[cur'] = "OPEN"
        \/ pc \in {"staged", "begun"} /\ cur' = cur

LEMMA StagedFrom == PublicationInv /\ [Next]_vars => StagedHere
<1> SUFFICES ASSUME TypeOK, RecordInv, MergedInv, MarkedInv, DurableInv,
                    FinishedInv, ClosedIsDurable, TornIsJournaled, LandsOnce, [Next]_vars
             PROVE  StagedHere
    BY DEF PublicationInv
<1> USE DEF TypeOK, Goto, Closed
<1>1. CASE UNCHANGED vars
    BY <1>1 DEF vars, StagedHere
<1>2. ASSUME NEW i \in Issues, Stage(i) PROVE StagedHere
    BY <1>2 DEF Stage, StagedHere
<1>3. ASSUME NEW i \in Issues, SerialMerge(i) PROVE StagedHere
    BY <1>3, SerialMergeEffect DEF StagedHere
<1>4. ASSUME NEW i \in Issues, OperatorCommits(i) PROVE StagedHere
    BY <1>4, OperatorCommitsEffect DEF StagedHere
<1>5. ASSUME NEW i \in Issues, ClosedElsewhere(i) PROVE StagedHere
    BY <1>5 DEF ClosedElsewhere, StagedHere
<1>6. CASE Withhold
    BY <1>6 DEF Withhold, StagedHere
<1>7. CASE Begin
    BY <1>7, BeginEffect DEF StagedHere
<1>8. CASE Merge
    BY <1>8, MergeEffect DEF StagedHere
<1>9. CASE MergeNothing
    BY <1>9 DEF MergeNothing, StagedHere
<1>10. CASE MergeFails
    BY <1>10 DEF MergeFails, StagedHere
<1>11. CASE ReleaseIntent
    BY <1>11, ReleaseIntentEffect DEF StagedHere
<1>12. CASE ReleaseCommit
    BY <1>12, ReleaseCommitEffect DEF StagedHere
<1>13. CASE ReleaseFails
    BY <1>13 DEF ReleaseFails, StagedHere
<1>14. CASE Finalized
    BY <1>14, FinalizedEffect DEF StagedHere
<1>15. CASE Push
    BY <1>15 DEF Push, StagedHere
<1>16. CASE PushFails
    BY <1>16 DEF PushFails, StagedHere
<1>17. CASE Close
    BY <1>17 DEF Close, StagedHere
<1>18. CASE CloseFails
    BY <1>18 DEF CloseFails, StagedHere
<1>19. CASE Complete
    BY <1>19 DEF Complete, StagedHere
<1>20. CASE SerialPush
    BY <1>20 DEF SerialPush, StagedHere
<1>21. CASE SerialKeep
    BY <1>21 DEF SerialKeep, StagedHere
<1>22. CASE SerialReset
    BY <1>22, ResetBase DEF StagedHere
<1>23. CASE Start
    BY <1>23 DEF Start, StagedHere
<1>24. CASE Mark
    BY <1>24, MarkEffect DEF StagedHere
<1>25. CASE RecoveryPush
    BY <1>25 DEF RecoveryPush, StagedHere
<1>26. CASE RecoveryPushFails
    BY <1>26 DEF RecoveryPushFails, StagedHere
<1>27. CASE Prove
    BY <1>27 DEF Prove, StagedHere
<1>28. CASE RecoveryClose
    BY <1>28 DEF RecoveryClose, StagedHere
<1>29. CASE RecoveryRefused
    BY <1>29 DEF RecoveryRefused, StagedHere
<1>30. CASE RecoveryComplete
    BY <1>30 DEF RecoveryComplete, StagedHere
<1>31. CASE Crash
    BY <1>31 DEF Crash, StagedHere
<1>32. CASE OperatorCleans
    BY <1>32 DEF OperatorCleans, StagedHere
<1>33. CASE OperatorDirties
    BY <1>33 DEF OperatorDirties, StagedHere
<1>34. CASE UpstreamMoves
    BY <1>34 DEF UpstreamMoves, StagedHere
<1> QED
    BY <1>1, <1>2, <1>3, <1>4, <1>5, <1>6, <1>7, <1>8, <1>9, <1>10,
       <1>11, <1>12, <1>13, <1>14, <1>15, <1>16, <1>17, <1>18, <1>19,
       <1>20, <1>21, <1>22, <1>23, <1>24, <1>25, <1>26, <1>27, <1>28,
       <1>29, <1>30, <1>31, <1>32, <1>33, <1>34
       DEF Next, Lane, Serial, Reconcile, World

MarkedPushes ==
    pc = "marked" /\ remote' # remote => remote' = journal.final

LEMMA RemoteWriters == PublicationInv /\ [Next]_vars => MarkedPushes
<1> SUFFICES ASSUME TypeOK, RecordInv, MergedInv, MarkedInv, DurableInv,
                    FinishedInv, ClosedIsDurable, TornIsJournaled, LandsOnce, [Next]_vars
             PROVE  MarkedPushes
    BY DEF PublicationInv
<1> USE DEF TypeOK
<1>1. CASE UNCHANGED vars
    BY <1>1 DEF vars, MarkedPushes
<1>2. ASSUME NEW i \in Issues, Stage(i) PROVE MarkedPushes
    BY <1>2 DEF Stage, MarkedPushes, git
<1>3. ASSUME NEW i \in Issues, SerialMerge(i) PROVE MarkedPushes
    BY <1>3, SerialMergeEffect DEF MarkedPushes
<1>4. ASSUME NEW i \in Issues, OperatorCommits(i) PROVE MarkedPushes
    BY <1>4, OperatorCommitsEffect DEF MarkedPushes
<1>5. ASSUME NEW i \in Issues, ClosedElsewhere(i) PROVE MarkedPushes
    BY <1>5 DEF ClosedElsewhere, MarkedPushes, git
<1>6. CASE Withhold
    BY <1>6 DEF Withhold, MarkedPushes, git
<1>7. CASE Begin
    BY <1>7, BeginEffect DEF MarkedPushes
<1>8. CASE Merge
    BY <1>8, MergeEffect DEF MarkedPushes
<1>9. CASE MergeNothing
    BY <1>9 DEF MergeNothing, MarkedPushes, git
<1>10. CASE MergeFails
    BY <1>10 DEF MergeFails, MarkedPushes, git
<1>11. CASE ReleaseIntent
    BY <1>11, ReleaseIntentEffect DEF MarkedPushes
<1>12. CASE ReleaseCommit
    BY <1>12, ReleaseCommitEffect DEF MarkedPushes
<1>13. CASE ReleaseFails
    BY <1>13 DEF ReleaseFails, MarkedPushes, git
<1>14. CASE Finalized
    BY <1>14, FinalizedEffect DEF MarkedPushes
<1>15. CASE Push
    BY <1>15 DEF Push, MarkedPushes, git
<1>16. CASE PushFails
    BY <1>16 DEF PushFails, MarkedPushes, git
<1>17. CASE Close
    BY <1>17 DEF Close, MarkedPushes, git
<1>18. CASE CloseFails
    BY <1>18 DEF CloseFails, MarkedPushes, git
<1>19. CASE Complete
    BY <1>19 DEF Complete, MarkedPushes, git
<1>20. CASE SerialPush
    BY <1>20 DEF SerialPush, MarkedPushes, git
<1>21. CASE SerialKeep
    BY <1>21 DEF SerialKeep, MarkedPushes, git
<1>22. CASE SerialReset
    BY <1>22, ResetBase DEF MarkedPushes
<1>23. CASE Start
    BY <1>23 DEF Start, MarkedPushes, git
<1>24. CASE Mark
    BY <1>24, MarkEffect DEF MarkedPushes
<1>25. CASE RecoveryPush
    BY <1>25 DEF RecoveryPush, MarkedPushes, git
<1>26. CASE RecoveryPushFails
    BY <1>26 DEF RecoveryPushFails, MarkedPushes, git
<1>27. CASE Prove
    BY <1>27 DEF Prove, MarkedPushes, git
<1>28. CASE RecoveryClose
    BY <1>28 DEF RecoveryClose, MarkedPushes, git
<1>29. CASE RecoveryRefused
    BY <1>29 DEF RecoveryRefused, MarkedPushes, git
<1>30. CASE RecoveryComplete
    BY <1>30 DEF RecoveryComplete, MarkedPushes, git
<1>31. CASE Crash
    BY <1>31 DEF Crash, MarkedPushes, git
<1>32. CASE OperatorCleans
    BY <1>32 DEF OperatorCleans, MarkedPushes, git
<1>33. CASE OperatorDirties
    BY <1>33 DEF OperatorDirties, MarkedPushes, git
<1>34. CASE UpstreamMoves
    BY <1>34 DEF UpstreamMoves, MarkedPushes, git
<1> QED
    BY <1>1, <1>2, <1>3, <1>4, <1>5, <1>6, <1>7, <1>8, <1>9, <1>10,
       <1>11, <1>12, <1>13, <1>14, <1>15, <1>16, <1>17, <1>18, <1>19,
       <1>20, <1>21, <1>22, <1>23, <1>24, <1>25, <1>26, <1>27, <1>28,
       <1>29, <1>30, <1>31, <1>32, <1>33, <1>34
       DEF Next, Lane, Serial, Reconcile, World

-----------------------------------------------------------------------------
(* The safety properties, over a step *)

LEMMA ClosedStep == PublicationInv /\ [Next]_vars => ClosedIsDurable'
<1> SUFFICES ASSUME PublicationInv, [Next]_vars,
                    NEW i \in Issues, tracker'[i] = "CLOSED"
             PROVE  \E k \in 1..Len(base') :
                        (Is(k, "merge", i) \/ Is(k, "serial", i))' /\ Contains(k)'
    BY DEF ClosedIsDurable
<1>1. SUFFICES \E k \in 1..Len(base) :
                   (Is(k, "merge", i) \/ Is(k, "serial", i)) /\ Contains(k)'
                   /\ k \in 1..Len(base') /\ base'[k] = base[k]
    BY DEF Is
<1>2. CASE tracker[i] = "CLOSED"
    <2>1. PICK k \in 1..Len(base) :
              (Is(k, "merge", i) \/ Is(k, "serial", i)) /\ Contains(k)
        BY <1>2 DEF PublicationInv, ClosedIsDurable
    <2>2. k \in 1..Len(base') /\ base'[k] = base[k] /\ Contains(k)'
        BY <2>1, KeptStep DEF Keeps, Contains
    <2> QED
        BY <2>1, <2>2
<1>3. CASE tracker[i] # "CLOSED"
    <2>1. TypeOK /\ RecordInv /\ MergedInv /\ DurableInv
        BY DEF PublicationInv
    <2>2. Close \/ RecoveryClose
        <3>1. CASE \E j \in Issues : ClosedElsewhere(j)
            <4>1. PICK j \in Issues : ClosedElsewhere(j)
                BY <3>1
            <4> QED
                BY <4>1, <1>3, <2>1 DEF ClosedElsewhere, TypeOK
        <3> QED
            BY <1>3, <3>1, TrackerWriters DEF TrackerKept
    <2>3. i = cur /\ UNCHANGED <<base, remote>>
        BY <1>3, <2>1, <2>2 DEF Close, RecoveryClose, TypeOK, git
    <2>4. Len(base) \in Nat
        BY <2>1, LenProperties DEF TypeOK
    <2>5. CASE pc = "spushed"
        <3>1. /\ Len(base) > 0 /\ Is(Len(base), "serial", cur)
              /\ Contains(Len(base))
            BY <2>1, <2>5 DEF DurableInv, SerialPcs
        <3>2. Len(base) \in 1..Len(base) /\ Contains(Len(base))'
            BY <2>3, <2>4, <3>1 DEF Contains
        <3> QED
            BY <2>3, <3>1, <3>2
    <2>6. CASE pc \in {"pushed", "durable"}
        <3>1. journal \in Record
            BY <2>1, <2>6 DEF TypeOK, RecordInv, LanePcs, RecoveryPcs
        <3>2. journal.before \in Nat
            BY <3>1 DEF Record
        <3>3. /\ journal.before + 1 <= Len(base)
              /\ Is(journal.before + 1, "merge", cur)
              /\ Contains(journal.before + 1)
            BY <2>1, <2>6 DEF MergedInv, DurableInv, LanePcs, RecoveryPcs
        <3>4. journal.before + 1 \in 1..Len(base)
            BY <3>2, <3>3, <2>4
        <3>5. PICK m \in 1..Len(base) : m = journal.before + 1
            BY <3>4
        <3>6. /\ Is(m, "merge", cur) /\ (~HasUpstream \/ m <= remote')
              /\ m \in 1..Len(base') /\ base'[m] = base[m]
            BY <2>3, <3>3, <3>5 DEF Contains
        <3> QED
            BY <2>3, <3>6 DEF Contains
    <2> QED
        BY <2>2, <2>5, <2>6 DEF Close, RecoveryClose
<1> QED
    BY <1>2, <1>3

\* Where the record may go without the upstream having its merge: nowhere.
LEMMA RecordGone ==
    ASSUME PublicationInv, MergeNothing \/ Complete \/ RecoveryComplete,
           NEW k \in 1..Len(base), journal.before + 1 = k
    PROVE  Contains(k)
<1>1. CASE MergeNothing
    <2>1. journal.before = Len(base) /\ Len(base) \in Nat
        BY <1>1, LenProperties DEF MergeNothing, PublicationInv, MergedInv, TypeOK
    <2> QED
        BY <2>1
<1>2. CASE Complete \/ RecoveryComplete
    BY <1>2 DEF Complete, RecoveryComplete, PublicationInv, DurableInv
<1> QED
    BY <1>1, <1>2

LEMMA TornStep == PublicationInv /\ [Next]_vars => TornIsJournaled'
<1> SUFFICES ASSUME PublicationInv, [Next]_vars,
                    NEW i \in Issues, NEW k \in 1..Len(base'),
                    base'[k].kind = "merge", base'[k].issue = i, ~Contains(k)'
             PROVE  /\ journal' # NoJournal /\ journal'.issue = i
                    /\ journal'.before + 1 = k
    BY DEF TornIsJournaled, Is
<1>1. TypeOK /\ RecordInv /\ MergedInv /\ TornIsJournaled /\ Len(base) \in Nat
    BY LenProperties DEF PublicationInv, TypeOK
<1>2. CASE k \in 1..Len(base) /\ Is(k, "merge", i)
    <2>1. ~Contains(k)
        BY <1>1, <1>2, KeptStep DEF Keeps, Contains
    <2>2. /\ journal # NoJournal /\ journal.issue = i
          /\ journal.before + 1 = k
        BY <1>1, <1>2, <2>1 DEF TornIsJournaled
    <2>3. RecordKept
        BY <1>2, <2>1, <2>2, RecordGone, RecordWriters
    <2> QED
        BY <2>2, <2>3 DEF RecordKept
<1>3. CASE Merge /\ k = Len(base) + 1
    <2>1. /\ Extends("merge", cur) /\ pc = "begun"
          /\ UNCHANGED journal
        BY <1>1, <1>3, MergeEffect
    <2>2. journal # NoJournal /\ journal.issue = cur /\ journal.before = Len(base)
        BY <1>1, <2>1 DEF RecordInv, MergedInv, LanePcs
    <2>3. i = cur
        BY <1>3, <2>1 DEF Extends
    <2> QED
        BY <1>3, <2>1, <2>2, <2>3
<1>4. CASE Merge /\ k # Len(base) + 1
    <2>1. Extends("merge", cur)
        BY <1>1, <1>4, MergeEffect
    <2>2. k \in 1..Len(base) /\ Is(k, "merge", i)
        BY <1>1, <1>4, <2>1 DEF Extends, Is
    <2> QED
        BY <1>2, <2>2
<1> QED
    BY <1>2, <1>3, <1>4, MergeWriters DEF NoNewMerge

\* A closed issue stays closed, whoever closed it.
LEMMA ClosedStays ==
    ASSUME PublicationInv, [Next]_vars, NEW i \in Issues, tracker[i] # "OPEN"
    PROVE  tracker'[i] # "OPEN"
<1>1. TypeOK
    BY DEF PublicationInv
<1>2. CASE UNCHANGED tracker
    BY <1>2
<1>3. CASE Close \/ RecoveryClose
    BY <1>1, <1>3 DEF Close, RecoveryClose, TypeOK
<1>4. ASSUME NEW j \in Issues, ClosedElsewhere(j) PROVE tracker'[i] # "OPEN"
    BY <1>1, <1>4 DEF ClosedElsewhere, TypeOK
<1> QED
    BY <1>2, <1>3, <1>4, TrackerWriters DEF TrackerKept

\* Whoever removes the record of a finishing landing has seen its issue closed.
LEMMA RecordClosed ==
    ASSUME PublicationInv, MergeNothing \/ Complete \/ RecoveryComplete,
           NEW i \in Closing, NEW k \in 1..Len(base),
           journal.issue = i, journal.before + 1 = k
    PROVE  RecordKept \/ tracker[i] # "OPEN"
<1>1. TypeOK /\ RecordInv /\ MergedInv /\ DurableInv /\ Len(base) \in Nat
    BY LenProperties DEF PublicationInv, TypeOK
<1>2. CASE MergeNothing
    <2>1. journal.before = Len(base)
        BY <1>1, <1>2 DEF MergeNothing, MergedInv
    <2> QED
        BY <1>1, <2>1
<1>3. CASE RecoveryComplete
    <2>1. journal.issue = cur /\ pc = "reclosed"
        BY <1>1, <1>3 DEF RecoveryComplete, RecordInv, RecoveryPcs
    <2> QED
        BY <1>1, <2>1 DEF DurableInv
<1>4. CASE Complete
    <2>1. journal # NoJournal /\ journal.issue = cur /\ journal.owes = Owed(cur)
        BY <1>1, <1>4 DEF Complete, RecordInv, LanePcs
    <2>2. "close" \in journal.owes
        BY <2>1 DEF Owed
    <2> QED
        BY <1>4, <2>1, <2>2 DEF Complete, Closed, RecordKept
<1> QED
    BY <1>2, <1>3, <1>4

LEMMA FinishedStep == PublicationInv /\ [Next]_vars => FinishedInv'
<1> SUFFICES ASSUME PublicationInv, [Next]_vars PROVE FinishedInv'
    OBVIOUS
<1>1. /\ TypeOK /\ RecordInv /\ MergedInv /\ FinishedInv /\ Len(base) \in Nat
      /\ Closing \subseteq Issues
    BY LenProperties, PublicationAssumption DEF PublicationInv, TypeOK
<1>2. ASSUME NEW i \in Closing, NEW k \in 1..Len(base'),
             base'[k].kind = "merge", base'[k].issue = i
      PROVE  \/ /\ journal' # NoJournal /\ journal'.issue = i
                /\ journal'.before + 1 = k
             \/ tracker'[i] # "OPEN"
    <2>1. CASE k \in 1..Len(base) /\ Is(k, "merge", i)
        <3>1. CASE tracker[i] # "OPEN"
            BY <1>1, <3>1, ClosedStays
        <3>2. CASE /\ journal # NoJournal /\ journal.issue = i
                   /\ journal.before + 1 = k
            <4>1. RecordKept \/ tracker[i] # "OPEN"
                BY <2>1, <3>2, RecordClosed, RecordWriters
            <4> QED
                BY <3>1, <3>2, <4>1 DEF RecordKept
        <3> QED
            BY <1>1, <2>1, <3>1, <3>2 DEF FinishedInv
    <2>2. CASE Merge /\ k = Len(base) + 1
        <3>1. /\ Extends("merge", cur) /\ pc = "begun"
              /\ UNCHANGED journal
            BY <1>1, <2>2, MergeEffect
        <3>2. journal # NoJournal /\ journal.issue = cur /\ journal.before = Len(base)
            BY <1>1, <3>1 DEF RecordInv, MergedInv, LanePcs
        <3>3. i = cur
            BY <1>2, <2>2, <3>1 DEF Extends
        <3> QED
            BY <2>2, <3>1, <3>2, <3>3
    <2>3. CASE Merge /\ k # Len(base) + 1
        <3>1. Extends("merge", cur)
            BY <1>1, <2>3, MergeEffect
        <3>2. k \in 1..Len(base) /\ Is(k, "merge", i)
            BY <1>1, <1>2, <2>3, <3>1 DEF Extends, Is
        <3> QED
            BY <2>1, <3>2
    <2> QED
        BY <1>1, <1>2, <2>1, <2>2, <2>3, MergeWriters DEF NoNewMerge
<1>3. ASSUME pc' \in {"staged", "begun"}, cur' \in Closing,
             NEW k \in 1..Len(base'),
             base'[k].kind = "merge", base'[k].issue = cur'
      PROVE  FALSE
    <2>1. \/ pc = "idle" /\ tracker[cur'] = "OPEN"
          \/ pc \in {"staged", "begun"} /\ cur' = cur
        BY <1>3, StagedFrom DEF StagedHere
    <2>2. ~Merge
        BY <1>3 DEF Merge, Goto
    <2>3. k \in 1..Len(base) /\ Is(k, "merge", cur')
        BY <1>1, <1>3, <2>2, MergeWriters DEF NoNewMerge
    <2>4. CASE pc = "idle" /\ tracker[cur'] = "OPEN"
        <3>1. journal = NoJournal
            BY <1>1, <2>4 DEF RecordInv
        <3> QED
            BY <1>1, <1>3, <2>3, <2>4, <3>1 DEF FinishedInv
    <2>5. CASE pc \in {"staged", "begun"} /\ cur' = cur
        BY <1>1, <1>3, <2>3, <2>5 DEF FinishedInv
    <2> QED
        BY <2>1, <2>4, <2>5
<1> QED
    BY <1>2, <1>3 DEF FinishedInv, Is

LEMMA OnceStep == PublicationInv /\ [Next]_vars => LandsOnce'
<1> SUFFICES ASSUME PublicationInv, [Next]_vars,
                    NEW i \in Closing, NEW k \in 1..Len(base'), NEW l \in 1..Len(base'),
                    base'[k].kind = "merge", base'[k].issue = i,
                    base'[l].kind = "merge", base'[l].issue = i
             PROVE  k = l
    BY DEF LandsOnce, Is
<1>1. /\ TypeOK /\ RecordInv /\ FinishedInv /\ LandsOnce /\ Len(base) \in Nat
      /\ Closing \subseteq Issues
    BY LenProperties, PublicationAssumption DEF PublicationInv, TypeOK
<1>2. CASE NoNewMerge
    BY <1>1, <1>2 DEF NoNewMerge, LandsOnce
<1>3. CASE Merge
    <2>1. Extends("merge", cur) /\ pc = "begun"
        BY <1>1, <1>3, MergeEffect
    <2>2. ASSUME NEW m \in 1..Len(base'),
                 base'[m].kind = "merge", base'[m].issue = i,
                 m # Len(base) + 1
          PROVE  m \in 1..Len(base) /\ Is(m, "merge", i)
        BY <1>1, <2>1, <2>2 DEF Extends, Is
    <2>3. CASE i = cur
        <3>1. ASSUME NEW m \in 1..Len(base) PROVE ~Is(m, "merge", i)
            BY <1>1, <2>1, <2>3, <3>1 DEF FinishedInv
        <3> QED
            BY <2>2, <3>1
    <2>4. CASE i # cur
        <3>1. k # Len(base) + 1 /\ l # Len(base) + 1
            BY <2>1, <2>4 DEF Extends
        <3> QED
            BY <1>1, <2>2, <3>1 DEF LandsOnce
    <2> QED
        BY <2>3, <2>4
<1> QED
    BY <1>2, <1>3, MergeWriters

-----------------------------------------------------------------------------
(* The theorems *)

LEMMA PublicationInit == Init => PublicationInv
<1> SUFFICES ASSUME Init PROVE PublicationInv
    OBVIOUS
<1>1. TypeOK /\ base = <<>> /\ Len(base) = 0
    BY TypeInit, EmptySeq DEF Init
<1>2. RecordInv /\ MergedInv /\ MarkedInv /\ DurableInv
    BY <1>1 DEF Init, RecordInv, MergedInv, MarkedInv, DurableInv, LanePcs, SerialPcs, RecoveryPcs
<1>3. FinishedInv /\ TornIsJournaled /\ LandsOnce
    BY <1>1 DEF Init, FinishedInv, TornIsJournaled, LandsOnce
<1>4. ClosedIsDurable
    BY DEF Init, ClosedIsDurable
<1> QED
    BY <1>1, <1>2, <1>3, <1>4 DEF PublicationInv

\* The invariant of publication holds of every behaviour: an interrupted
\* publication, wherever it stopped, is one of the cases it describes.
THEOREM PublicationHolds == Spec => []PublicationInv
<1>1. PublicationInv /\ [Next]_vars => PublicationInv'
    BY TypeStep, RecordStep, MergedStep, MarkedStep, DurableStep, FinishedStep,
       ClosedStep, TornStep, OnceStep DEF PublicationInv
<1> QED
    BY <1>1, PublicationInit, PTL DEF Spec

\* Every variable of publication keeps its type.
THEOREM TypeCorrect == Spec => []TypeOK
<1>1. PublicationInv => TypeOK
    BY DEF PublicationInv
<1> QED
    BY <1>1, PublicationHolds, PTL

\* No crash, refusal or lost acknowledgement lets a Run close an issue whose
\* work the upstream does not contain.
THEOREM ClosedIsDurableHolds == Spec => []ClosedIsDurable
<1>1. PublicationInv => ClosedIsDurable
    BY DEF PublicationInv
<1> QED
    BY <1>1, PublicationHolds, PTL

\* Whatever lies on base and not upstream is the pending record's, so a
\* restart that reads the journal misses nothing.
THEOREM TornIsJournaledHolds == Spec => []TornIsJournaled
<1>1. PublicationInv => TornIsJournaled
    BY DEF PublicationInv
<1> QED
    BY <1>1, PublicationHolds, PTL

\* Finishing work lands on base once, across any number of restarts.
THEOREM LandsOnceHolds == Spec => []LandsOnce
<1>1. PublicationInv => LandsOnce
    BY DEF PublicationInv
<1> QED
    BY <1>1, PublicationHolds, PTL

\* A record is pushed again at most once, by all the Runs that find it.
THEOREM RepushesOnceHolds == Spec => []RepushesOnce
<1>1. PublicationInv => RepushesOnce
    BY DEF PublicationInv, RecordInv, RepushesOnce
<1> QED
    BY <1>1, PublicationHolds, PTL

\* A recovery push sends the recorded publication and no operator's commit.
THEOREM NothingRidesAlongHolds == Spec => NothingRidesAlong
<1>1. ASSUME PublicationInv, [Next]_vars, pc = "marked", remote' # remote
      PROVE  remote' = FinalOf(journal)
    <2>1. TypeOK /\ MarkedInv /\ RecordInv /\ DurableInv
        BY <1>1 DEF PublicationInv
    <2>2. remote' = journal.final
        BY <1>1, RemoteWriters DEF MarkedPushes
    <2> QED
        BY <1>1, <2>1, <2>2 DEF MarkedInv
<1>2. PublicationInv /\ [Next]_vars =>
          [pc = "marked" /\ remote' # remote => remote' = FinalOf(journal)]_vars
    BY <1>1
<1> QED
    BY <1>2, PublicationHolds, PTL DEF Spec, NothingRidesAlong

-----------------------------------------------------------------------------
(* Publication implements PublicationPromise: each step of the Run, of its *)
(* successors and of the world is a step of the promise or leaves it.      *)

\* A torn landing is of an issue that no Run has closed.
TornIsOpen ==
    /\ pc \in {"staged", "begun"} => tracker[cur] # "CLOSED"
    /\ \A i \in Issues : Landed(i) => tracker[i] # "CLOSED"

PromiseInv == PublicationInv /\ TornIsOpen

-----------------------------------------------------------------------------
(* What the mapping says of an issue *)

Reads(value, landed, closed, durable) ==
    /\ value \in {"private", "landed", "durable", "closed"}
    /\ value = "landed" <=> landed
    /\ value = "closed" <=> ~landed /\ closed
    /\ value = "durable" <=> ~landed /\ ~closed /\ durable
    /\ value = "private" <=> ~landed /\ ~closed /\ ~durable

LEMMA PublishedReads ==
  ASSUME NEW i \in Issues
  PROVE  Reads(Published[i], Landed(i), tracker[i] = "CLOSED", Durable(i))
<1>1. Published[i] = CASE Landed(i) -> "landed"
                       [] ~Landed(i) /\ tracker[i] = "CLOSED" -> "closed"
                       [] ~Landed(i) /\ tracker[i] # "CLOSED" /\ Durable(i) -> "durable"
                       [] OTHER -> "private"
  BY DEF Published
<1> QED  BY <1>1 DEF Reads

LEMMA PublishedReadsNext ==
  ASSUME NEW i \in Issues
  PROVE  Reads(Published'[i], Landed(i)', tracker'[i] = "CLOSED", Durable(i)')
<1>1. Published'[i] = CASE Landed(i)' -> "landed"
                        [] ~Landed(i)' /\ tracker'[i] = "CLOSED" -> "closed"
                        [] ~Landed(i)' /\ tracker'[i] # "CLOSED" /\ Durable(i)' -> "durable"
                        [] OTHER -> "private"
  BY DEF Published
<1> QED  BY <1>1 DEF Reads

LEMMA PublishedFunction ==
  /\ Published = [i \in Issues |-> Published[i]]
  /\ Published' = [i \in Issues |-> Published'[i]]
BY DEF Published

-----------------------------------------------------------------------------
(* Three kinds of step *)

\* Nothing the promise sees has changed.
LEMMA SameView ==
  ASSUME \A i \in Issues :
             /\ Landed(i)' <=> Landed(i)
             /\ Durable(i)' <=> Durable(i)
             /\ tracker'[i] = "CLOSED" <=> tracker[i] = "CLOSED"
  PROVE  UNCHANGED Published
<1>1. ASSUME NEW i \in Issues PROVE Published'[i] = Published[i]
  BY PublishedReads, PublishedReadsNext DEF Reads
<1> QED  BY <1>1, PublishedFunction

\* Nothing is torn any more and nothing that was durable is lost.
LEMMA Persisting ==
  ASSUME TornIsOpen, UNCHANGED tracker,
         \A i \in Issues :
             ~Landed(i)' /\ (Durable(i) => Durable(i)') /\ (Landed(i) => Durable(i)')
  PROVE  Promise!Next
<1> DEFINE S == {i \in Issues : Published[i] \in {"private", "landed"} /\ Durable(i)'}
<1>1. \A i \in S : Published[i] \in {"private", "landed"}
  OBVIOUS
<1>2. Promise!Torn \subseteq S
  BY PublishedReads DEF Promise!Torn, Reads
<1>3. ASSUME NEW i \in Issues
      PROVE  Published'[i] = IF i \in S THEN "durable" ELSE Published[i]
  <2>1. Landed(i) => tracker[i] # "CLOSED"
    BY DEF TornIsOpen
  <2> QED  BY <2>1, PublishedReads, PublishedReadsNext DEF Reads
<1>4. Published' = [i \in Issues |-> IF i \in S THEN "durable" ELSE Published[i]]
  BY <1>3, PublishedFunction
<1>5. S \in SUBSET Issues
  OBVIOUS
<1> HIDE DEF S
<1> QED  BY <1>1, <1>2, <1>4, <1>5 DEF Promise!Next, Promise!Persist

\* Only the issue i has moved.
LEMMA OneMoved ==
  ASSUME NEW i \in Issues, NEW v, Published'[i] = v,
         \A j \in Issues \ {i} : Published'[j] = Published[j]
  PROVE  Published' = [Published EXCEPT ![i] = v]
<1>1. \A j \in Issues : Published'[j] = IF j = i THEN v ELSE Published[j]
  OBVIOUS
<1> QED  BY <1>1, PublishedFunction

-----------------------------------------------------------------------------
(* Steps of base and the upstream *)

\* Every step that touches base or the upstream is one of these.
HistoryKept ==
    \/ UNCHANGED <<base, remote>>
    \/ UNCHANGED <<base, tracker>> /\ remote' = Len(base)
    \/ Merge \/ ReleaseCommit \/ SerialReset
    \/ \E i \in Issues : SerialMerge(i) \/ OperatorCommits(i)

LEMMA HistoryWriters == PublicationInv /\ [Next]_vars => HistoryKept
<1> SUFFICES ASSUME PublicationInv, [Next]_vars PROVE HistoryKept
  OBVIOUS
<1> USE DEF HistoryKept
<1>1. CASE (\E i \in Issues : Stage(i)) \/ Withhold \/ MergeNothing \/ MergeFails
  BY <1>1 DEF Stage, Withhold, MergeNothing, MergeFails, git
<1>2. CASE Begin \/ ReleaseIntent \/ ReleaseFails \/ Finalized
  BY <1>2 DEF Begin, ReleaseIntent, ReleaseFails, Finalized, git
<1>3. CASE Push \/ PushFails \/ SerialPush
  BY <1>3 DEF Push, PushFails, SerialPush, Lands, HeadSha, git
<1>4. CASE Close \/ CloseFails \/ Complete \/ SerialKeep \/ Start \/ Mark
  BY <1>4 DEF Close, CloseFails, Complete, SerialKeep, Start, Mark, git
<1>5. CASE RecoveryPush \/ RecoveryPushFails
  <2>1. journal.final = Len(base)
    BY <1>5 DEF RecoveryPush, RecoveryPushFails, PublicationInv, MergedInv
  <2> QED  BY <1>5, <2>1 DEF RecoveryPush, RecoveryPushFails, git
<1>6. CASE Prove \/ RecoveryClose \/ RecoveryRefused \/ RecoveryComplete
  BY <1>6 DEF Prove, RecoveryClose, RecoveryRefused, RecoveryComplete, git
<1>7. CASE Crash \/ OperatorCleans \/ OperatorDirties \/ UpstreamMoves
  BY <1>7 DEF Crash, OperatorCleans, OperatorDirties, UpstreamMoves
<1>8. CASE \E i \in Issues : ClosedElsewhere(i)
  BY <1>8 DEF ClosedElsewhere, git
<1>9. CASE UNCHANGED vars
  BY <1>9 DEF vars
<1> QED
  BY <1>1, <1>2, <1>3, <1>4, <1>5, <1>6, <1>7, <1>8, <1>9
     DEF Next, Lane, Serial, Reconcile, World

\* With base and the upstream as they were, what has landed is as it was.
LEMMA SameHistory ==
  ASSUME UNCHANGED <<base, remote>>, NEW i \in Issues
  PROVE  (Landed(i)' <=> Landed(i)) /\ (Durable(i)' <=> Durable(i))
BY DEF Landed, Durable, Contains, Is

\* A commit that publishes nothing, or serial work the upstream lacks.
LEMMA ExtendedHistory ==
  ASSUME TypeOK, NEW kind, NEW i \in Issues, Extends(kind, i), UNCHANGED remote,
         kind # "merge", kind = "serial" => HasUpstream, NEW j \in Issues
  PROVE  (Landed(j)' <=> Landed(j)) /\ (Durable(j)' <=> Durable(j))
<1>1. PICK n \in Nat : n = Len(base)
  BY LenProperties DEF TypeOK
<1>2. /\ remote <= n /\ remote \in Nat /\ Len(base') = n + 1
      /\ \A k \in 1..n : base'[k] = base[k]
      /\ base'[n + 1].kind = kind
  BY <1>1 DEF TypeOK, Extends
<1>3. \A k \in 1..n : /\ Is(k, "merge", j)' <=> Is(k, "merge", j)
                      /\ Is(k, "serial", j)' <=> Is(k, "serial", j)
  BY <1>2 DEF Is
<1>4. ~Is(n + 1, "merge", j)' /\ ~(Is(n + 1, "serial", j)' /\ Contains(n + 1)')
  BY <1>2 DEF Is, Contains
<1>5. \A k \in Nat : Contains(k)' <=> Contains(k)
  BY DEF Contains
<1>6. Landed(j)' <=> Landed(j)
  <2>1. Landed(j)' <=> \E k \in 1..(n + 1) : Is(k, "merge", j)' /\ ~Contains(k)'
    BY <1>2 DEF Landed
  <2>2. Landed(j) <=> \E k \in 1..n : Is(k, "merge", j) /\ ~Contains(k)
    BY <1>1 DEF Landed
  <2>3. 1..(n + 1) = 1..n \cup {n + 1} /\ 1..n \subseteq Nat
    OBVIOUS
  <2> QED  BY <1>3, <1>4, <1>5, <2>1, <2>2, <2>3
<1>7. Durable(j)' <=> Durable(j)
  <2>1. Durable(j)' <=>
            \E k \in 1..(n + 1) : (Is(k, "merge", j)' \/ Is(k, "serial", j)') /\ Contains(k)'
    BY <1>2 DEF Durable
  <2>2. Durable(j) <=>
            \E k \in 1..n : (Is(k, "merge", j) \/ Is(k, "serial", j)) /\ Contains(k)
    BY <1>1 DEF Durable
  <2>3. 1..(n + 1) = 1..n \cup {n + 1} /\ 1..n \subseteq Nat
    OBVIOUS
  <2> QED  BY <1>3, <1>4, <1>5, <2>1, <2>2, <2>3
<1> QED  BY <1>6, <1>7

\* Without an upstream nothing is ever torn.
LEMMA LocalIsDurable ==
  ASSUME ~HasUpstream, NEW i \in Issues
  PROVE  ~Landed(i) /\ ~Landed(i)'
BY DEF Landed, Contains

\* What is durable stays so.
LEMMA DurableStays ==
  ASSUME Keeps, NEW i \in Issues, Durable(i)
  PROVE  Durable(i)'
<1>1. PICK k \in 1..Len(base) : (Is(k, "merge", i) \/ Is(k, "serial", i)) /\ Contains(k)
  BY DEF Durable
<1>2. k \in 1..Len(base') /\ base'[k] = base[k] /\ (~HasUpstream \/ k <= remote')
  BY <1>1 DEF Keeps
<1> QED  BY <1>1, <1>2 DEF Durable, Is, Contains

\* Without a pending record nothing is torn.
LEMMA NothingTorn ==
  ASSUME TornIsJournaled, NEW i \in Issues,
         journal = NoJournal \/ Contains(journal.before + 1)
  PROVE  ~Landed(i)
BY DEF TornIsJournaled, Landed

-----------------------------------------------------------------------------
(* Each kind of step *)

\* What a step owes: the promise, and that what is torn is open.
Owes == [Promise!Next]_Published /\ \A i \in Issues : Landed(i)' => tracker'[i] # "CLOSED"

LEMMA SameViewOwes ==
  ASSUME TornIsOpen,
         \A i \in Issues :
             /\ Landed(i)' <=> Landed(i)
             /\ Durable(i)' <=> Durable(i)
             /\ tracker'[i] = "CLOSED" <=> tracker[i] = "CLOSED"
  PROVE  Owes
<1>1. UNCHANGED Published
  BY SameView
<1>2. \A i \in Issues : Landed(i)' => tracker'[i] # "CLOSED"
  BY DEF TornIsOpen
<1> QED  BY <1>1, <1>2 DEF Owes

LEMMA PersistingOwes ==
  ASSUME TornIsOpen, UNCHANGED tracker,
         \A i \in Issues :
             ~Landed(i)' /\ (Durable(i) => Durable(i)') /\ (Landed(i) => Durable(i)')
  PROVE  Owes
<1>1. Promise!Next
  BY Persisting
<1> QED  BY <1>1 DEF Owes

\* A push takes everything on base with it, or what it adds was local.
LEMMA PushOwes ==
  ASSUME PromiseInv, UNCHANGED <<base, tracker>>, remote' = Len(base)
  PROVE  Owes
<1>1. PICK n \in Nat : n = Len(base)
  BY LenProperties DEF PromiseInv, PublicationInv, TypeOK
<1>2. remote \in Nat /\ remote <= n /\ remote' = n /\ Len(base') = n
  BY <1>1 DEF PromiseInv, PublicationInv, TypeOK
<1>3. \A k \in 1..n : Contains(k)'
  BY <1>2 DEF Contains
<1>4. ASSUME NEW i \in Issues
      PROVE  ~Landed(i)' /\ (Durable(i) => Durable(i)') /\ (Landed(i) => Durable(i)')
  <2>1. \A k \in 1..n : /\ Is(k, "merge", i)' <=> Is(k, "merge", i)
                        /\ Is(k, "serial", i)' <=> Is(k, "serial", i)
    BY DEF Is
  <2>2. Durable(i)' <=> \E k \in 1..n : Is(k, "merge", i) \/ Is(k, "serial", i)
    BY <1>2, <1>3, <2>1 DEF Durable
  <2>3. ~Landed(i)'
    BY <1>2, <1>3 DEF Landed
  <2> QED  BY <1>1, <2>2, <2>3 DEF Durable, Landed
<1> QED  BY <1>4, PersistingOwes DEF PromiseInv

\* The reset takes one serial commit away, and may have published the rest.
LEMMA ResetOwes ==
  ASSUME PromiseInv, Keeps, SerialReset
  PROVE  Owes
<1>1. /\ \A i \in Issues : ~Landed(i)
      /\ UNCHANGED tracker /\ remote <= remote'
      /\ Len(base) \in Nat \ {0} /\ Len(base') = Len(base) - 1
      /\ \A k \in 1..(Len(base) - 1) : base'[k] = base[k]
  <2>1. PublicationInv /\ pc = "smerged"
    BY ResetBase DEF PromiseInv, PublicationInv
  <2>2. journal = NoJournal
    BY <2>1 DEF PublicationInv, RecordInv, SerialPcs
  <2>3. \A i \in Issues : ~Landed(i)
    BY <2>1, <2>2, NothingTorn DEF PublicationInv
  <2> QED  BY <2>1, <2>3, ResetBase DEF PublicationInv, Keeps
<1>2. PICK n \in Nat : n = Len(base')
  BY <1>1
<1>3. ASSUME NEW i \in Issues PROVE ~Landed(i)'
  <2>1. SUFFICES ASSUME NEW k \in 1..n, Is(k, "merge", i)', ~Contains(k)' PROVE FALSE
    BY <1>2 DEF Landed
  <2>2. k \in 1..Len(base) /\ Is(k, "merge", i)
    BY <1>1, <1>2, <2>1 DEF Is
  <2>3. ~Contains(k)
    BY <1>1, <2>1 DEF Contains, PromiseInv, PublicationInv, TypeOK, Keeps
  <2> QED  BY <1>1, <2>2, <2>3 DEF Landed
<1>4. \A i \in Issues : Durable(i) => Durable(i)'
  BY DurableStays
<1> QED  BY <1>1, <1>3, <1>4, PersistingOwes DEF PromiseInv

\* A merge lands where nothing is torn.
LEMMA MergeOwes ==
  ASSUME PromiseInv, Keeps, Merge
  PROVE  Owes
<1>1. /\ Extends("merge", cur) /\ pc = "begun" /\ UNCHANGED <<remote, journal, tracker, cur>>
      /\ cur \in Issues
  BY MergeEffect DEF PromiseInv, PublicationInv, TypeOK
<1>2. PICK n \in Nat : n = Len(base)
  BY LenProperties DEF PromiseInv, PublicationInv, TypeOK
<1>3. /\ journal # NoJournal /\ journal.before = n
      /\ remote \in Nat /\ remote <= n /\ tracker[cur] # "CLOSED"
      /\ Len(base') = n + 1 /\ \A k \in 1..n : base'[k] = base[k]
      /\ base'[n + 1].kind = "merge" /\ base'[n + 1].issue = cur
  BY <1>1, <1>2 DEF PromiseInv, PublicationInv, TypeOK, RecordInv, MergedInv, TornIsOpen,
                    Extends, LanePcs
<1>4. \A i \in Issues : ~Landed(i)
  BY <1>2, <1>3 DEF PromiseInv, PublicationInv, TornIsJournaled, Landed
<1>5. \A i \in Issues : Durable(i) => Durable(i)'
  BY DurableStays
<1>6. CASE ~HasUpstream
  BY <1>1, <1>4, <1>5, <1>6, LocalIsDurable, PersistingOwes DEF PromiseInv
<1>7. CASE HasUpstream
  <2>1. Landed(cur)'
    <3>1. Is(n + 1, "merge", cur)' /\ ~Contains(n + 1)' /\ n + 1 \in 1..Len(base')
      BY <1>1, <1>3, <1>7 DEF Is, Contains
    <3> QED  BY <3>1 DEF Landed
  <2>2. ASSUME NEW i \in Issues, i # cur
        PROVE  ~Landed(i)' /\ (Durable(i)' <=> Durable(i))
    <3>1. \A k \in 1..n : /\ Is(k, "merge", i)' <=> Is(k, "merge", i)
                          /\ Is(k, "serial", i)' <=> Is(k, "serial", i)
                          /\ Contains(k)' <=> Contains(k)
      BY <1>1, <1>3 DEF Is, Contains
    <3>2. ~Is(n + 1, "merge", i)' /\ ~Is(n + 1, "serial", i)'
      BY <1>3, <2>2 DEF Is
    <3>3. 1..(n + 1) = 1..n \cup {n + 1}
      OBVIOUS
    <3>4. Landed(i)' <=> \E k \in 1..(n + 1) : Is(k, "merge", i)' /\ ~Contains(k)'
      BY <1>3 DEF Landed
    <3>5. Durable(i)' <=>
              \E k \in 1..(n + 1) : (Is(k, "merge", i)' \/ Is(k, "serial", i)') /\ Contains(k)'
      BY <1>3 DEF Durable
    <3>6. ~Landed(i)'
      BY <1>2, <1>4, <3>1, <3>2, <3>3, <3>4 DEF Landed
    <3> QED  BY <1>2, <3>1, <3>2, <3>3, <3>5, <3>6 DEF Durable
  <2>3. Published'[cur] = "landed" /\ Published[cur] \in {"private", "durable"}
    <3>1. Published[cur] \in {"private", "durable"}
      BY <1>1, <1>3, <1>4, PublishedReads DEF Reads
    <3>2. PICK c \in Issues : c = cur
      BY <1>1
    <3>3. Landed(c)'
      BY <1>1, <2>1, <3>2
    <3>4. Published'[c] = "landed"
      BY <3>3, PublishedReadsNext DEF Reads
    <3> QED  BY <3>1, <3>2, <3>4
  <2>4. \A i \in Issues \ {cur} : Published'[i] = Published[i]
    BY <1>1, <1>4, <2>2, PublishedReads, PublishedReadsNext DEF Reads
  <2>5. Published' = [Published EXCEPT ![cur] = "landed"]
    BY <1>1, <2>3, <2>4, OneMoved
  <2>6. Promise!Torn = {}
    BY <1>4, PublishedReads DEF Promise!Torn, Reads
  <2>7. Promise!Next
    BY <1>1, <2>3, <2>5, <2>6 DEF Promise!Next, Promise!Land
  <2>8. \A i \in Issues : Landed(i)' => tracker'[i] # "CLOSED"
    BY <1>1, <1>3, <2>2
  <2> QED  BY <2>7, <2>8 DEF Owes
<1> QED  BY <1>6, <1>7

\* A Run closes what is durable while nothing is torn.
LEMMA CloseOwes ==
  ASSUME PromiseInv, Close \/ RecoveryClose
  PROVE  Owes
<1>1. /\ UNCHANGED <<base, remote, cur>> /\ cur \in Issues
      /\ pc \in {"pushed", "spushed", "durable"}
      /\ UNCHANGED tracker \/ (tracker[cur] # "CLOSED"
                               /\ tracker' = [tracker EXCEPT ![cur] = "CLOSED"])
  BY DEF Close, RecoveryClose, git, PromiseInv, PublicationInv, TypeOK, Closed
<1>2. \A i \in Issues : (Landed(i)' <=> Landed(i)) /\ (Durable(i)' <=> Durable(i))
  BY <1>1, SameHistory
<1>3. (\A i \in Issues : ~Landed(i)) /\ Durable(cur)
  <2>1. CASE pc = "spushed"
    <3>1. journal = NoJournal /\ Len(base) > 0 /\ Is(Len(base), "serial", cur)
          /\ Contains(Len(base)) /\ Len(base) \in Nat
      BY <2>1, LenProperties
         DEF PromiseInv, PublicationInv, TypeOK, RecordInv, DurableInv, SerialPcs
    <3> QED  BY <1>1, <3>1, NothingTorn DEF PromiseInv, PublicationInv, Durable
  <2>2. CASE pc \in {"pushed", "durable"}
    <3>1. /\ Contains(journal.before + 1) /\ journal.before + 1 <= Len(base)
          /\ Is(journal.before + 1, "merge", cur) /\ journal \in Record
      BY <2>2 DEF PromiseInv, PublicationInv, TypeOK, RecordInv, MergedInv, DurableInv, LanePcs,
                  RecoveryPcs
    <3>2. journal.before + 1 \in 1..Len(base)
      BY <3>1, LenProperties DEF PromiseInv, PublicationInv, TypeOK, Record
    <3> QED  BY <1>1, <3>1, <3>2, NothingTorn DEF PromiseInv, PublicationInv, Durable
  <2> QED  BY <1>1, <2>1, <2>2
<1>4. CASE UNCHANGED tracker
  BY <1>2, <1>4, SameViewOwes DEF PromiseInv
<1>5. CASE tracker[cur] # "CLOSED" /\ tracker' = [tracker EXCEPT ![cur] = "CLOSED"]
  <2>1. tracker'[cur] = "CLOSED" /\ \A i \in Issues \ {cur} : tracker'[i] = tracker[i]
    BY <1>1, <1>5 DEF PromiseInv, PublicationInv, TypeOK
  <2>2. Published[cur] = "durable" /\ Published'[cur] = "closed"
    BY <1>1, <1>2, <1>3, <1>5, <2>1, PublishedReads, PublishedReadsNext DEF Reads
  <2>3. \A i \in Issues \ {cur} : Published'[i] = Published[i]
    BY <1>2, <2>1, PublishedReads, PublishedReadsNext DEF Reads
  <2>4. Published' = [Published EXCEPT ![cur] = "closed"]
    BY <1>1, <2>2, <2>3, OneMoved
  <2>5. Promise!Next
    BY <1>1, <2>2, <2>4 DEF Promise!Next, Promise!Close
  <2> QED  BY <1>2, <1>3, <2>5 DEF Owes
<1> QED  BY <1>1, <1>4, <1>5

LEMMA StepOwes == PromiseInv /\ [Next]_vars => Owes
<1> SUFFICES ASSUME PromiseInv, [Next]_vars PROVE Owes
  OBVIOUS
<1>1. PublicationInv /\ TypeOK /\ TornIsOpen
  BY DEF PromiseInv, PublicationInv
<1>2. Keeps /\ HistoryKept /\ TrackerKept
  BY <1>1, KeptStep, HistoryWriters, TrackerWriters
<1>3. CASE Close \/ RecoveryClose
  BY <1>3, CloseOwes
<1>4. ASSUME NEW i \in Issues, ClosedElsewhere(i) PROVE Owes
  <2>1. /\ UNCHANGED <<base, remote>>
        /\ \A j \in Issues : tracker'[j] = "CLOSED" <=> tracker[j] = "CLOSED"
    BY <1>1, <1>4 DEF ClosedElsewhere, git, TypeOK, Closed
  <2> QED  BY <1>1, <2>1, SameHistory, SameViewOwes
<1>5. CASE UNCHANGED tracker
  <2>1. CASE UNCHANGED <<base, remote>>
    BY <1>1, <1>5, <2>1, SameHistory, SameViewOwes
  <2>2. CASE UNCHANGED base /\ remote' = Len(base)
    BY <1>5, <2>2, PushOwes
  <2>3. CASE Merge
    BY <1>2, <2>3, MergeOwes
  <2>4. CASE SerialReset
    BY <1>2, <2>4, ResetOwes
  <2>5. ASSUME NEW kind \in {"release", "operator"}, NEW i \in Issues, Extends(kind, i),
               UNCHANGED remote
        PROVE  Owes
    <3>1. \A j \in Issues : (Landed(j)' <=> Landed(j)) /\ (Durable(j)' <=> Durable(j))
      BY <1>1, <2>5, ExtendedHistory
    <3> QED  BY <1>1, <1>5, <3>1, SameViewOwes
  <2>6. CASE ReleaseCommit
    BY <1>1, <2>5, <2>6, ReleaseCommitEffect DEF TypeOK
  <2>7. CASE \E i \in Issues : OperatorCommits(i)
    BY <1>1, <2>5, <2>7, OperatorCommitsEffect
  <2>8. ASSUME NEW i \in Issues, SerialMerge(i) PROVE Owes
    <3>1. Extends("serial", i) /\ UNCHANGED remote
      BY <1>1, <2>8, SerialMergeEffect
    <3>2. CASE HasUpstream
      <4>1. \A j \in Issues : (Landed(j)' <=> Landed(j)) /\ (Durable(j)' <=> Durable(j))
        BY <1>1, <3>1, <3>2, ExtendedHistory
      <4> QED  BY <1>1, <1>5, <4>1, SameViewOwes
    <3>3. CASE ~HasUpstream
      BY <1>1, <1>2, <1>5, <3>3, LocalIsDurable, DurableStays, PersistingOwes
    <3> QED  BY <3>2, <3>3
  <2> QED  BY <1>2, <2>1, <2>2, <2>3, <2>4, <2>6, <2>7, <2>8 DEF HistoryKept
<1> QED  BY <1>2, <1>3, <1>4, <1>5 DEF TrackerKept

-----------------------------------------------------------------------------
(* The theorem *)

\* A landing is only ever of an issue that no Run has closed.
THEOREM PromiseHolds == Spec => []PromiseInv
<1>1. Init => TornIsOpen
  BY DEF Init, TornIsOpen, Landed
<1>2. PublicationInv /\ TornIsOpen /\ [Next]_vars => TornIsOpen'
  <2> SUFFICES ASSUME PublicationInv, TornIsOpen, [Next]_vars PROVE TornIsOpen'
    OBVIOUS
  <2>1. Owes /\ StagedHere /\ TrackerKept
    BY StepOwes, StagedFrom, TrackerWriters DEF PromiseInv
  <2>2. pc' \in {"staged", "begun"} => tracker'[cur'] # "CLOSED"
    <3> SUFFICES ASSUME pc' \in {"staged", "begun"} PROVE tracker'[cur'] # "CLOSED"
      OBVIOUS
    <3>1. tracker[cur'] # "CLOSED" /\ cur' \in Issues
      BY <2>1, TypeStep DEF StagedHere, TornIsOpen, TypeOK
    <3>2. ~(Close \/ RecoveryClose)
      BY DEF Close, RecoveryClose, Goto
    <3>3. CASE UNCHANGED tracker
      BY <3>1, <3>3
    <3>4. CASE \E i \in Issues : ClosedElsewhere(i)
      BY <3>1, <3>4 DEF ClosedElsewhere, PublicationInv, TypeOK
    <3> QED  BY <2>1, <3>2, <3>3, <3>4 DEF TrackerKept
  <2> QED  BY <2>1, <2>2 DEF Owes, TornIsOpen
<1> QED  BY <1>1, <1>2, PublicationHolds, PTL DEF Spec, PromiseInv

\* The Run with its journal, its crashes and its successors keeps the
\* promise: work is private, landed one at a time, durable, and then closed.
THEOREM KeepsPromiseHolds == Spec => KeepsPromise
<1>1. Init => Promise!Init
  <2> SUFFICES ASSUME Init PROVE Promise!Init
    OBVIOUS
  <2>1. ASSUME NEW i \in Issues PROVE Published[i] = "private"
    <3>1. ~Landed(i) /\ ~Durable(i) /\ tracker[i] # "CLOSED"
      BY DEF Init, Landed, Durable
    <3> QED  BY <3>1, PublishedReads DEF Reads
  <2> QED  BY <2>1, PublishedFunction DEF Promise!Init
<1>2. PromiseInv /\ [Next]_vars => [Promise!Next]_Published
  BY StepOwes DEF Owes
<1> QED  BY <1>1, <1>2, PromiseHolds, PTL DEF Spec, KeepsPromise, Promise!Spec

-----------------------------------------------------------------------------
(* A publication is whole: what a record names is all there when it goes *)

\* How much of the recorded publication is on base, step by step.
WholeInv ==
    /\ pc \in {"begun", "merged", "intent", "released"} => journal.final = 0
    /\ pc \in {"merged", "intent"} => Len(base) = journal.before + 1
    /\ pc \in {"intent", "released"} => cur \in Releasing
    /\ pc = "released" =>
           /\ Len(base) = journal.before + 2
           /\ journal.releaseParent = journal.before + 1
           /\ Is(journal.before + 2, "release", cur)
    /\ pc \in {"final", "repushed"} =>
           FinalOf(journal) # 0 /\ FinalOf(journal) = journal.final
    /\ pc \in {"pushed", "closed", "durable", "reclosed"} =>
           FinalOf(journal) # 0 /\ Contains(FinalOf(journal))

\* A record whose commits are there proves its final SHA.
LEMMA ProvesFinal ==
    ASSUME base \in Seq(Commit), NEW r \in Record, NEW f \in Nat,
           r.before + 1 <= Len(base), Is(r.before + 1, "merge", r.issue),
           IF "release" \in r.owes
           THEN /\ f = r.before + 2 /\ f <= Len(base) /\ Is(f, "release", r.issue)
                /\ r.releaseParent = r.before + 1
           ELSE f = r.before + 1,
           r.final \in {0, f}
    PROVE  FinalOf(r) = f /\ f # 0
<1>1. Len(base) \in Nat /\ r.before \in Nat
    BY LenProperties DEF Record
<1>2. MergeAt(r) = r.before + 1
    BY <1>1 DEF MergeAt, HeadSha
<1>3. "release" \in r.owes => ReleaseAt(r) = f
    BY <1>1, <1>2 DEF ReleaseAt, HeadSha
<1> QED
    BY <1>1, <1>2, <1>3 DEF FinalOf

\* A final SHA that a Releasing issue's record proves is its Release line.
LEMMA FinalIsRelease ==
    ASSUME base \in Seq(Commit), NEW r \in Record, FinalOf(r) # 0, "release" \in r.owes
    PROVE  /\ FinalOf(r) = r.before + 2 /\ r.before + 2 <= Len(base)
           /\ Is(r.before + 2, "release", r.issue)
<1>1. Len(base) \in Nat /\ r.before \in Nat
    BY LenProperties DEF Record
<1>2. FinalOf(r) = ReleaseAt(r) /\ ReleaseAt(r) # 0
    BY DEF FinalOf
<1>3. MergeAt(r) = r.before + 1
    BY <1>2 DEF ReleaseAt, MergeAt
<1>4. (r.before + 1) + 1 = r.before + 2
    BY <1>1
<1> QED
    BY <1>1, <1>2, <1>3, <1>4 DEF ReleaseAt, HeadSha

\* The steps that leave the record, base and the Run's place alone.
LEMMA WholeStays ==
    ASSUME WholeInv, UNCHANGED <<base, journal, remote, pc, cur>>
    PROVE  WholeInv'
BY DEF WholeInv, FinalOf, MergeAt, ReleaseAt, HeadSha, Is, Contains

\* The steps after which nothing about the record has to hold.
LEMMA WholeElsewhere ==
    ASSUME pc' \in {"idle", "down", "staged", "smerged", "spushed", "recover", "marked"}
    PROVE  WholeInv'
BY DEF WholeInv

\* The steps that only move the Run on.
LEMMA WholeOnward ==
    ASSUME UNCHANGED <<base, journal>>,
           pc' \in {"final", "repushed"} =>
               FinalOf(journal) # 0 /\ FinalOf(journal) = journal.final,
           pc' \in {"pushed", "closed", "durable", "reclosed"} =>
               FinalOf(journal) # 0 /\ (~HasUpstream \/ FinalOf(journal) <= remote'),
           pc' \in {"final", "repushed", "pushed", "closed", "durable", "reclosed"}
    PROVE  WholeInv'
<1>1. FinalOf(journal)' = FinalOf(journal)
    BY DEF FinalOf, MergeAt, ReleaseAt, HeadSha, Is
<1> QED
    BY <1>1 DEF WholeInv, Contains

LEMMA WholeStep == PublicationInv /\ WholeInv /\ [Next]_vars => WholeInv'
<1> SUFFICES ASSUME PublicationInv, WholeInv, [Next]_vars PROVE WholeInv'
    OBVIOUS
<1>0. TypeOK /\ RecordInv /\ MergedInv /\ MarkedInv /\ DurableInv /\ Len(base) \in Nat
    BY LenProperties DEF PublicationInv, TypeOK
<1>r. pc \in (LanePcs \ {"staged"}) \cup RecoveryPcs =>
          /\ journal # NoJournal /\ journal \in Record /\ journal.before \in Nat
          /\ journal.issue = cur /\ journal.owes = Owed(cur)
    BY <1>0 DEF TypeOK, RecordInv, Record
<1>1. CASE (\E i \in Issues : Stage(i)) \/ Withhold \/ MergeNothing \/ MergeFails \/ ReleaseFails
    BY <1>1, WholeElsewhere
       DEF Stage, Withhold, MergeNothing, MergeFails, ReleaseFails, Goto
<1>2. CASE PushFails \/ Complete \/ SerialPush \/ SerialKeep \/ SerialReset \/ Mark
    BY <1>2, WholeElsewhere
       DEF PushFails, Complete, SerialPush, SerialKeep, SerialReset, Mark, Goto
<1>3. CASE \/ RecoveryPushFails \/ RecoveryRefused \/ RecoveryComplete \/ Crash
           \/ \E i \in Issues : SerialMerge(i)
    BY <1>3, WholeElsewhere
       DEF RecoveryPushFails, RecoveryRefused, RecoveryComplete, Crash, SerialMerge, Goto
<1>4. CASE \/ UNCHANGED vars \/ OperatorDirties \/ UpstreamMoves
           \/ \E i \in Issues : ClosedElsewhere(i)
    BY <1>4, WholeStays DEF vars, OperatorDirties, UpstreamMoves, ClosedElsewhere, git
<1>5. CASE OperatorCleans \/ \E i \in Issues : OperatorCommits(i)
    BY <1>5, WholeElsewhere DEF OperatorCleans, OperatorCommits
<1>6. CASE Begin
    BY <1>0, <1>6, BeginEffect DEF WholeInv
<1>7. CASE Merge
    <2>1. Extends("merge", cur) /\ pc = "begun" /\ pc' = "merged" /\ UNCHANGED <<journal, cur>>
        BY <1>0, <1>7, MergeEffect
    <2>2. Len(base') = journal.before + 1 /\ journal.final = 0
        BY <1>0, <2>1 DEF Extends, MergedInv, WholeInv
    <2> QED
        BY <2>1, <2>2 DEF WholeInv
<1>8. CASE ReleaseIntent
    <2>1. /\ UNCHANGED <<base, cur>> /\ pc = "merged" /\ pc' = "intent"
          /\ journal'.before = journal.before /\ journal'.final = journal.final
          /\ cur \in Releasing
        BY <1>0, <1>8, ReleaseIntentEffect DEF ReleaseIntent
    <2> QED
        BY <2>1 DEF WholeInv
<1>9. CASE ReleaseCommit
    <2>1. /\ Extends("release", cur) /\ pc = "intent" /\ pc' = "released"
          /\ UNCHANGED <<journal, cur>>
        BY <1>0, <1>9, ReleaseCommitEffect
    <2>2. /\ Len(base) = journal.before + 1 /\ journal.final = 0 /\ cur \in Releasing
          /\ journal.releaseParent = journal.before + 1 /\ journal.before \in Nat
        BY <1>0, <1>r, <2>1 DEF MergedInv, WholeInv, LanePcs
    <2>3. Len(base') = journal.before + 2 /\ Is(journal.before + 2, "release", cur)'
        BY <2>1, <2>2 DEF Extends, Is
    <2> QED
        BY <2>1, <2>2, <2>3 DEF WholeInv
<1>10. CASE Finalized
    <2>1. /\ UNCHANGED <<base, cur>> /\ pc \in {"merged", "released"} /\ pc' = "final"
          /\ journal' \in Record /\ journal'.issue = journal.issue
          /\ journal'.before = journal.before /\ journal'.owes = journal.owes
          /\ journal'.releaseParent = journal.releaseParent
          /\ journal'.final = Len(base)
          /\ pc = "merged" => cur \notin Releasing
        BY <1>0, <1>10, FinalizedEffect DEF Finalized
    <2>2. PICK r \in Record : r = journal'
        BY <2>1
    <2>3. /\ r.issue = cur /\ r.before = journal.before /\ r.before \in Nat
          /\ r.owes = Owed(cur) /\ r.final = Len(base)
          /\ r.releaseParent = journal.releaseParent
        BY <1>r, <2>1, <2>2 DEF LanePcs
    <2>4. r.before + 1 <= Len(base) /\ Is(r.before + 1, "merge", r.issue)
        BY <1>0, <2>1, <2>3 DEF MergedInv, LanePcs
    <2>5. "release" \in r.owes <=> cur \in Releasing
        BY <2>3 DEF Owed
    <2>6. FinalOf(r) = Len(base) /\ Len(base) # 0
        <3>1. base \in Seq(Commit)
            BY <1>0 DEF TypeOK
        <3>2. CASE pc = "merged"
            <4>1. Len(base) = r.before + 1 /\ "release" \notin r.owes
                BY <2>1, <2>3, <2>5, <3>2 DEF WholeInv
            <4> QED
                BY <1>0, <2>3, <2>4, <3>1, <4>1, ProvesFinal
        <3>3. CASE pc = "released"
            <4>1. /\ Len(base) = r.before + 2 /\ "release" \in r.owes
                  /\ r.releaseParent = r.before + 1 /\ Is(r.before + 2, "release", r.issue)
                BY <2>3, <2>5, <3>3 DEF WholeInv
            <4> QED
                BY <1>0, <2>3, <2>4, <3>1, <4>1, ProvesFinal
        <3> QED
            BY <2>1, <3>2, <3>3
    <2>7. FinalOf(journal)' = FinalOf(r)
        BY <2>1, <2>2 DEF FinalOf, MergeAt, ReleaseAt, HeadSha, Is
    <2> QED
        BY <2>1, <2>2, <2>3, <2>6, <2>7 DEF WholeInv
<1>11. CASE Push
    <2>1. /\ UNCHANGED <<base, journal>> /\ pc = "final" /\ pc' = "pushed"
          /\ journal.final = Len(base) /\ (~HasUpstream \/ remote' = Len(base))
        BY <1>11 DEF Push, Lands, git, Goto, HeadSha
    <2>2. FinalOf(journal) # 0 /\ FinalOf(journal) = Len(base)
        BY <2>1 DEF WholeInv
    <2> QED
        BY <1>0, <2>1, <2>2, WholeOnward
<1>12. CASE (Close \/ CloseFails) /\ pc = "pushed"
    <2>1. UNCHANGED <<base, journal, remote>> /\ pc' = "closed"
        BY <1>12 DEF Close, CloseFails, git, Goto
    <2> QED
        BY <1>12, <2>1, WholeOnward DEF WholeInv, Contains
<1>13. CASE (Close \/ CloseFails) /\ pc = "spushed"
    BY <1>13, WholeElsewhere DEF Close, CloseFails, Goto
<1>14. CASE Start
    <2>1. UNCHANGED <<base, journal, remote>>
        BY <1>14 DEF Start, git
    <2>2. \/ pc' \in {"idle", "down", "recover"}
          \/ pc' = "durable" /\ FinalOf(journal) # 0 /\ Contains(FinalOf(journal))
        BY <1>14 DEF Start, Goto
    <2> QED
        BY <2>1, <2>2, WholeElsewhere, WholeOnward DEF Contains
<1>15. CASE RecoveryPush
    <2>1. UNCHANGED <<base, journal>> /\ pc = "marked" /\ pc' = "repushed"
        BY <1>15 DEF RecoveryPush, Goto
    <2>2. /\ FinalOf(journal) = journal.final /\ journal.final = Len(base)
          /\ journal.before + 1 <= Len(base) /\ journal.before \in Nat
        BY <1>0, <1>r, <2>1 DEF MarkedInv, MergedInv, RecoveryPcs
    <2>3. FinalOf(journal) # 0
        BY <1>0, <2>2
    <2> QED
        BY <2>1, <2>2, <2>3, WholeOnward
<1>16. CASE Prove
    <2>1. UNCHANGED <<base, journal, remote>> /\ pc = "repushed"
        BY <1>16 DEF Prove, git
    <2>2. \/ pc' = "down"
          \/ pc' = "durable" /\ FinalOf(journal) # 0 /\ Contains(FinalOf(journal))
        BY <1>16, <2>1 DEF Prove, Goto, WholeInv
    <2> QED
        BY <2>1, <2>2, WholeElsewhere, WholeOnward DEF Contains
<1>17. CASE RecoveryClose
    <2>1. UNCHANGED <<base, journal, remote>> /\ pc = "durable" /\ pc' = "reclosed"
        BY <1>17 DEF RecoveryClose, git, Goto
    <2> QED
        BY <2>1, WholeOnward DEF WholeInv, Contains
<1> QED
    BY <1>1, <1>2, <1>3, <1>4, <1>5, <1>6, <1>7, <1>8, <1>9, <1>10,
       <1>11, <1>12, <1>13, <1>14, <1>15, <1>16, <1>17
       DEF Next, Lane, Serial, Reconcile, World, Close, CloseFails

\* Each step of a recorded publication finds on base what the steps before
\* it put there, across crashes, refusals and restarts.
THEOREM WholeHolds == Spec => []WholeInv
<1>1. Init => WholeInv
    BY DEF Init, WholeInv
<1> QED
    BY <1>1, WholeStep, PublicationHolds, PTL DEF Spec

\* A record leaves the journal in two cases only: nothing was merged under it,
\* or every commit it names is upstream and the close it owes is made.
RecordIsPaid ==
    [][journal # NoJournal /\ journal' = NoJournal =>
           \/ Len(base) = journal.before /\ UNCHANGED base
           \/ /\ FinalOf(journal) # 0 /\ Contains(FinalOf(journal))
              /\ "close" \in journal.owes => Closed(journal.issue)]_vars

\* No crash or restart makes a record disappear before what it owes is paid.
THEOREM RecordIsPaidHolds == Spec => RecordIsPaid
<1>1. ASSUME PublicationInv, WholeInv, [Next]_vars,
             journal # NoJournal, journal' = NoJournal
      PROVE  \/ Len(base) = journal.before /\ UNCHANGED base
             \/ /\ FinalOf(journal) # 0 /\ Contains(FinalOf(journal))
                /\ "close" \in journal.owes => Closed(journal.issue)
    <2>1. MergeNothing \/ Complete \/ RecoveryComplete
        BY <1>1, RecordWriters DEF RecordKept
    <2>2. RecordInv /\ MergedInv /\ DurableInv
        BY <1>1 DEF PublicationInv
    <2>3. CASE MergeNothing
        BY <2>2, <2>3 DEF MergeNothing, MergedInv, git
    <2>4. CASE Complete
        <3>1. pc = "closed" /\ journal.issue = cur
            BY <2>2, <2>4 DEF Complete, RecordInv, LanePcs
        <3>2. "close" \in journal.owes => Closed(cur)
            BY <1>1, <2>4 DEF Complete
        <3> QED
            BY <1>1, <3>1, <3>2 DEF WholeInv
    <2>5. CASE RecoveryComplete
        <3>1. pc = "reclosed" /\ journal.issue = cur /\ journal.owes = Owed(cur)
            BY <1>1, <2>2, <2>5 DEF RecoveryComplete, RecordInv, RecoveryPcs
        <3>2. "close" \in journal.owes => Closed(cur)
            BY <2>2, <3>1 DEF Owed, DurableInv, Closed
        <3> QED
            BY <1>1, <3>1, <3>2 DEF WholeInv
    <2> QED
        BY <2>1, <2>3, <2>4, <2>5
<1> QED
    BY <1>1, PublicationHolds, WholeHolds, PTL DEF Spec, RecordIsPaid

\* An issue that releases is closed by a Run only when its Release line is
\* upstream as well as its merge, or when a serial Iteration published it.
ClosedIsWhole ==
    \A i \in Releasing :
        tracker[i] = "CLOSED" =>
            \E k \in 1..Len(base) :
                /\ Contains(k)
                /\ \/ Is(k, "serial", i)
                   \/ k > 1 /\ Is(k - 1, "merge", i) /\ Is(k, "release", i)

LEMMA ClosedIsWholeStep ==
    PublicationInv /\ WholeInv /\ ClosedIsWhole /\ [Next]_vars => ClosedIsWhole'
<1> SUFFICES ASSUME PublicationInv, WholeInv, ClosedIsWhole, [Next]_vars,
                    NEW i \in Releasing, tracker'[i] = "CLOSED"
             PROVE  \E k \in 1..Len(base') :
                        /\ Contains(k)'
                        /\ \/ Is(k, "serial", i)'
                           \/ k > 1 /\ Is(k - 1, "merge", i)' /\ Is(k, "release", i)'
    BY DEF ClosedIsWhole
<1>0. /\ TypeOK /\ RecordInv /\ MergedInv /\ DurableInv /\ Keeps
      /\ Len(base) \in Nat /\ remote \in Nat /\ i \in Issues
    BY KeptStep, LenProperties, PublicationAssumption DEF PublicationInv, TypeOK
<1>1. SUFFICES \E k \in 1..Len(base) :
                   /\ Contains(k)
                   /\ \/ Is(k, "serial", i)
                      \/ k > 1 /\ Is(k - 1, "merge", i) /\ Is(k, "release", i)
    <2>1. PICK k \in 1..Len(base) :
              /\ Contains(k)
              /\ \/ Is(k, "serial", i)
                 \/ k > 1 /\ Is(k - 1, "merge", i) /\ Is(k, "release", i)
        BY <1>1
    <2>2. k \in 1..Len(base') /\ base'[k] = base[k] /\ Contains(k)'
        BY <1>0, <2>1 DEF Keeps, Contains
    <2>3. k > 1 => base'[k - 1] = base[k - 1]
        <3> SUFFICES ASSUME k > 1 PROVE base'[k - 1] = base[k - 1]
            OBVIOUS
        <3>1. k - 1 \in 1..Len(base) /\ Contains(k - 1)
            BY <1>0, <2>1 DEF Contains
        <3> QED
            BY <1>0, <3>1 DEF Keeps
    <2> QED
        BY <2>1, <2>2, <2>3 DEF Is
<1>2. CASE tracker[i] = "CLOSED"
    BY <1>2 DEF ClosedIsWhole
<1>3. CASE tracker[i] # "CLOSED"
    <2>1. Close \/ RecoveryClose
        <3>1. CASE \E j \in Issues : ClosedElsewhere(j)
            <4>1. PICK j \in Issues : ClosedElsewhere(j)
                BY <3>1
            <4> QED
                BY <4>1, <1>0, <1>3 DEF ClosedElsewhere, TypeOK
        <3> QED
            BY <1>3, <3>1, TrackerWriters DEF TrackerKept
    <2>2. i = cur
        BY <1>0, <1>3, <2>1 DEF Close, RecoveryClose, TypeOK, git
    <2>3. CASE pc = "spushed"
        <3>1. Len(base) \in 1..Len(base)
            BY <1>0, <2>3 DEF DurableInv, SerialPcs
        <3> QED
            BY <1>0, <2>2, <2>3, <3>1 DEF DurableInv, SerialPcs
    <2>4. CASE pc \in {"pushed", "durable"}
        <3>1. /\ journal \in Record /\ journal.issue = i /\ journal.before \in Nat
              /\ "release" \in journal.owes
            BY <1>0, <2>2, <2>4 DEF TypeOK, RecordInv, LanePcs, RecoveryPcs, Owed, Record
        <3>2. FinalOf(journal) # 0 /\ Contains(FinalOf(journal))
            BY <2>4 DEF WholeInv
        <3>3. PICK r \in Record : r = journal
            BY <3>1
        <3>4. /\ FinalOf(r) = r.before + 2 /\ r.before + 2 <= Len(base)
              /\ Is(r.before + 2, "release", i) /\ Is(r.before + 1, "merge", i)
            BY <1>0, <3>1, <3>2, <3>3, FinalIsRelease, FinalFacts DEF TypeOK
        <3>5. PICK k \in 1..Len(base) : k = r.before + 2
            BY <1>0, <3>1, <3>3, <3>4
        <3>6. k > 1 /\ k - 1 = r.before + 1
            BY <3>1, <3>3, <3>5
        <3> QED
            BY <3>2, <3>3, <3>4, <3>5, <3>6
    <2> QED
        BY <2>1, <2>3, <2>4 DEF Close, RecoveryClose
<1> QED
    BY <1>2, <1>3

\* No crash between the merge and the Release line lets a Run close an issue
\* with only half of its publication upstream.
THEOREM ClosedIsWholeHolds == Spec => []ClosedIsWhole
<1>1. Init => ClosedIsWhole
    BY PublicationAssumption DEF Init, ClosedIsWhole
<1> QED
    BY <1>1, ClosedIsWholeStep, PublicationHolds, WholeHolds, PTL DEF Spec

\* What the upstream holds of an issue's work it holds for good: no reset,
\* crash or recovery takes a publication back.
DurabilityIsForever == [][\A i \in Issues : Durable(i) => Durable(i)']_vars

\* A durable publication survives every step of every Run and of the world.
THEOREM DurabilityIsForeverHolds == Spec => DurabilityIsForever
<1>1. PublicationInv /\ [Next]_vars => \A i \in Issues : Durable(i) => Durable(i)'
    BY KeptStep, DurableStays
<1> QED
    BY <1>1, PublicationHolds, PTL DEF Spec, DurabilityIsForever

=============================================================================
