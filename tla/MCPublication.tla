--------------------------- MODULE MCPublication ---------------------------
(* Two issues: one that closes and releases, one that leaves its issue open. *)
EXTENDS Publication

CONSTANTS i1, i2

TwoIssues == {i1, i2}
FirstOnly == {i1}
=============================================================================
