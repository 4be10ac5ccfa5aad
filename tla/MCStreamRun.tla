---------------------------- MODULE MCStreamRun ----------------------------
(* Small instances of StreamRun for TLC. *)
EXTENDS StreamRun, TLC

CONSTANTS r1, r2

TwoRequests == {r1, r2}

\* Requests differ only in what they do.
RequestSymmetry == Permutations(Requests)
=============================================================================
