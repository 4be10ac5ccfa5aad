--------------------------- MODULE MCBufferedRun ----------------------------
(* A small instance of BufferedRun for TLC. *)
EXTENDS BufferedRun

CONSTANTS r1, r2, c1, c2

TwoRequests == {r1, r2}
TwoConnections == {c1, c2}

\* On one connection or on two: which one is which makes no difference.
SharedOrNot == {[r \in TwoRequests |-> c1], [r \in TwoRequests |-> IF r = r1 THEN c1 ELSE c2]}
=============================================================================
