-------------------------------- MODULE MCStub -------------------------------
(* A small instance of StubMeiServer for TLC. *)
EXTENDS StubMeiServer, TLC

CONSTANTS r1, r2, r3, r4

\* Connections differ only in what they do.
Connections == {r1, r2, r3, r4}
ConnectionSymmetry == Permutations(Connections)

\* Three of the six bodies show both classes, both ways to answer and a refusal;
\* two of the clients may hang up.
Bodies == {<<"interactive", FALSE>>, <<"background", TRUE>>, <<"urgent", TRUE>>}
Small ==
    /\ \A r \in Connections : phase[r] # "outside" => <<priority[r], streams[r]>> \in Bodies
    /\ Cardinality(gone) <= 2
=============================================================================
