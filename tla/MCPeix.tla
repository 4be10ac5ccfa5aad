-------------------------------- MODULE MCPeix -------------------------------
(* Small instances of PeixScenario for TLC. *)
EXTENDS PeixScenario, TLC

FiveTasks == 1 .. 5
=============================================================================
