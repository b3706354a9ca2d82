------------------------------ MODULE MCSweep ------------------------------
(* Two Runs in two worktrees of one clone. *)
EXTENDS Sweep

CONSTANTS p1, p2, s1

TwoRuns == {1, 2}
LaneAndStage == {<<1, "lane">>, <<1, "stage">>}
Apart == [r \in {1, 2} |-> IF r = 1 THEN p1 ELSE p2]
TwoPlaces == {p1, p2}
OneSweeper == {s1}
AtP2 == [s \in {s1} |-> p2]
AllButListing == {"locks", "salvage", "github", "logs", "kill"}
ListingFails == {"worktrees"}
=============================================================================
