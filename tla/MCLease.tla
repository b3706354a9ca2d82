------------------------------ MODULE MCLease ------------------------------
\* Two Runs, the second's wall clock one unit ahead of the first's.
EXTENDS Lease, TLC
CONSTANTS a, b
MCRuns == {a, b}
MCSkew == (a :> 0) @@ (b :> 1)
NoSkew == (a :> 0) @@ (b :> 0)
OnlyA == {a}
=============================================================================
