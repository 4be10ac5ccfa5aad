------------------------- MODULE MCRequestScheduler -------------------------
(* Small instances of RequestScheduler for TLC. *)
EXTENDS RequestSchedulerRefinement, TLC

CONSTANTS r1, r2, r3, r4

ThreeRequests == {r1, r2, r3}
FourRequests == {r1, r2, r3, r4}

\* Requests differ only in what they do; the runs of safety properties may
\* identify their permutations.
RequestSymmetry == Permutations(Requests)
=============================================================================
