------------------------------- MODULE ArmRuns ------------------------------
(***************************************************************************)
(* tools/f1_c2_benchmark.py and tools/cmlx_gate_benchmark.py measure an    *)
(* arm: one server process, asked over a fixed port, one result.json per   *)
(* directory.  tools/f1_c2_optout_report.py and the report of the gate     *)
(* read the directories later and accept them or not.  A driver may be     *)
(* killed at any point and leave its server on the port; a server appends  *)
(* to the request log of the directory it was started for.                 *)
(*                                                                         *)
(* Abstracted: two legs, a row by the run whose server answered it, the    *)
(* request log by its length (it only grows, so a copy of it is equal to   *)
(* it as long as it is as long).  Hashes, texts, means and the identity of *)
(* the binary are left out, and so are the comparisons between the arms.   *)
(***************************************************************************)
EXTENDS Integers, FiniteSets

CONSTANTS
    ArmRunBound,    \* runs of a driver
    RowsPerLeg      \* timing rows of a leg

ASSUME ArmRunBoundAssumption == ArmRunBound \in Nat
ASSUME RowsPerLegAssumption == RowsPerLeg \in Nat \ {0}

Legs == {"a", "b"}
ArmRunIds == 1 .. ArmRunBound
LinesPerLeg == RowsPerLeg + 1       \* and the one of the probe
ArmPhases == [f1c2 |-> {"measure"}, gate |-> {"behavior", "performance"}]
NoResult == [run |-> 0, ok |-> FALSE, rows |-> 0, by |-> {}, embedded |-> 0,
             stopped |-> FALSE]

VARIABLES
    armTool,        \* f1c2 or gate
    armPhase, armAt,    \* of the run under way
    armRun,         \* runs started; the last one is under way
    legOf,          \* run -> its leg
    armServer,      \* run -> its server: none, booting, up, dead
    armPort,        \* the run whose server listens, 0 for nobody
    measured,       \* [n, by]: rows of this run, and who answered
    requestLog,     \* leg -> lines in its request.jsonl
    result,         \* leg -> its result.json
    armReport,      \* legs the report calls valid
    validated       \* the last command was a validation, and it passed

armVars == <<armTool, armPhase, armAt, armRun, legOf, armServer, armPort, measured,
             requestLog, result, armReport, validated>>

ArmInit ==
    /\ armTool = "f1c2"
    /\ armPhase = "measure"
    /\ armAt = "idle"
    /\ armRun = 0
    /\ legOf = [r \in ArmRunIds |-> "a"]
    /\ armServer = [r \in ArmRunIds |-> "none"]
    /\ armPort = 0
    /\ measured = [n |-> 0, by |-> {}]
    /\ requestLog = [l \in Legs |-> 0]
    /\ result = [l \in Legs |-> NoResult]
    /\ armReport = {}
    /\ validated = FALSE

Leg == legOf[armRun]
Reports == <<armReport, validated>>
ThisRun == <<armTool, armPhase, armRun, legOf>>
Servers == <<armServer, armPort>>
Files == <<requestLog, result>>

-----------------------------------------------------------------------------
(* The driver                                                              *)

\* run_arm, run_behavior, run_performance, up to the process.
BeginArm(tool, stage, l) ==
    /\ armAt = "idle"
    /\ armRun < ArmRunBound
    /\ armRun > 0 => tool = armTool
    /\ armTool' = tool
    /\ armPhase' = stage
    /\ armRun' = armRun + 1
    /\ legOf' = [legOf EXCEPT ![armRun + 1] = l]
    /\ armServer' = [armServer EXCEPT ![armRun + 1] = "booting"]
    /\ armAt' = "wait"
    /\ measured' = [n |-> 0, by |-> {}]
    /\ validated' = FALSE
    /\ UNCHANGED <<armPort, Files, armReport>>

\* wait_ready: its own process first, then whoever lists the model on the port.
WaitReady ==
    /\ armAt = "wait"
    /\ armServer[armRun] # "dead"
    /\ armPort # 0
    /\ armAt' = IF armPhase = "performance" THEN "rows" ELSE "probe"
    /\ UNCHANGED <<ThisRun, Servers, measured, Files, Reports>>

WaitFails ==
    /\ armAt = "wait"
    /\ armServer[armRun] = "dead" \/ armPort = 0
    /\ armAt' = "failed"
    /\ UNCHANGED <<ThisRun, Servers, measured, Files, Reports>>

Logged == [requestLog EXCEPT ![legOf[armPort]] = @ + 1]

\* The log belongs to the server that answers.
Probe(ok) ==
    /\ armAt = "probe"
    /\ armPort # 0
    /\ requestLog' = Logged
    /\ armAt' = IF ~ok THEN "failed" ELSE IF armPhase = "behavior" THEN "measured"
                ELSE "rows"
    /\ UNCHANGED <<ThisRun, Servers, measured, result, Reports>>

MeasureRow ==
    /\ armAt = "rows"
    /\ measured.n < RowsPerLeg
    /\ armPort # 0
    /\ measured' = [n |-> measured.n + 1, by |-> measured.by \cup {armPort}]
    /\ requestLog' = Logged
    /\ UNCHANGED <<ThisRun, armAt, Servers, result, Reports>>

AllMeasured ==
    /\ armAt = "rows"
    /\ measured.n = RowsPerLeg
    /\ armAt' = "measured"
    /\ UNCHANGED <<ThisRun, Servers, measured, Files, Reports>>

RequestRaises ==
    /\ armAt \in {"probe", "rows"}
    /\ armAt' = "failed"
    /\ UNCHANGED <<ThisRun, Servers, measured, Files, Reports>>

\* The rows of a failed f1c2 run were never stored in its metadata.
Record(ok, stopped) ==
    LET kept == ok \/ armTool = "gate"
    IN  [run |-> armRun, ok |-> ok,
         rows |-> IF kept THEN measured.n ELSE 0,
         by |-> IF kept THEN measured.by ELSE {},
         embedded |-> IF ok THEN requestLog[Leg] ELSE 0,
         stopped |-> stopped]

\* f1c2 writes the result of a run that worked before the server is stopped.
WriteEarly ==
    /\ armAt = "measured"
    /\ result' = IF armTool = "f1c2" THEN [result EXCEPT ![Leg] = Record(TRUE, FALSE)]
                 ELSE result
    /\ armAt' = "succeeded"
    /\ UNCHANGED <<ThisRun, Servers, measured, requestLog, Reports>>

StopArmServer_NoWait ==
    /\ armAt \in {"succeeded", "failed"}
    /\ armAt' = IF armAt = "succeeded" THEN "stopped ok" ELSE "stopped failed"
    /\ UNCHANGED <<ThisRun, Servers, measured, Files, Reports>>

Down(r) == [armServer EXCEPT ![r] = "dead"]
Released(r) == IF armPort = r THEN 0 ELSE armPort

\* The finally: SIGTERM, wait, SIGKILL, wait.
StopArmServer ==
    /\ armAt \in {"succeeded", "failed"}
    /\ armServer' = Down(armRun)
    /\ armPort' = Released(armRun)
    /\ armAt' = IF armAt = "succeeded" THEN "stopped ok" ELSE "stopped failed"
    /\ UNCHANGED <<ThisRun, measured, Files, Reports>>

\* The last wait raises: nothing more is written.  (The server is killed by then; here
\* it may go on answering until it dies.)
StopRaises ==
    /\ armAt \in {"succeeded", "failed"}
    /\ armServer[armRun] \in {"booting", "up"}
    /\ armAt' = "idle"
    /\ UNCHANGED <<ThisRun, Servers, measured, Files, Reports>>

WriteResult ==
    /\ armAt \in {"stopped ok", "stopped failed"}
    /\ result' = [result EXCEPT ![Leg] = Record(armAt = "stopped ok", TRUE)]
    /\ armAt' = "idle"
    /\ UNCHANGED <<ThisRun, Servers, measured, requestLog, Reports>>

KillDriver ==
    /\ armAt # "idle"
    /\ armAt' = "idle"
    /\ UNCHANGED <<ThisRun, Servers, measured, Files, Reports>>

-----------------------------------------------------------------------------
(* Servers                                                                 *)

Rest == <<ThisRun, armAt, measured, Files, Reports>>

BindPort(r) ==
    /\ armServer[r] = "booting"
    /\ armServer' = [armServer EXCEPT ![r] = IF armPort = 0 THEN "up" ELSE "dead"]
    /\ armPort' = IF armPort = 0 THEN r ELSE armPort
    /\ UNCHANGED Rest

ArmServerDies(r) ==
    /\ armServer[r] \in {"booting", "up"}
    /\ armServer' = Down(r)
    /\ armPort' = Released(r)
    /\ UNCHANGED Rest

-----------------------------------------------------------------------------
(* The reports                                                             *)

LegValid_AnyLog(l) ==
    IF armTool = "f1c2"
      THEN /\ result[l].rows = RowsPerLeg
           /\ result[l].embedded = requestLog[l]
           /\ result[l].stopped
      ELSE result[l].ok /\ result[l].stopped

\* analyze_leg: all timing rows, exactly the lines of one run in the request log, the
\* copy in the result equal to it, the server stopped.  The gate: stopped and passed.
LegValid(l) ==
    IF armTool = "f1c2"
      THEN /\ result[l].rows = RowsPerLeg
           /\ requestLog[l] = LinesPerLeg
           /\ result[l].embedded = requestLog[l]
           /\ result[l].stopped
      ELSE result[l].ok /\ result[l].stopped

ValidLegs == {l \in Legs : LegValid(l)}

WriteReport ==
    /\ armAt = "idle"
    /\ armRun > 0
    /\ armReport' = ValidLegs
    /\ validated' = FALSE
    /\ UNCHANGED <<ThisRun, armAt, Servers, measured, Files>>

\* f1c2 compares the report on disk with one derived now; the gate derives it only.
Validate ==
    /\ armAt = "idle"
    /\ armRun > 0
    /\ validated' = (ValidLegs = Legs /\ (armTool = "f1c2" => armReport = ValidLegs))
    /\ UNCHANGED <<ThisRun, armAt, Servers, measured, Files, armReport>>

ArmNext ==
    \/ \E tool \in DOMAIN ArmPhases, l \in Legs : \E stage \in ArmPhases[tool] :
           BeginArm(tool, stage, l)
    \/ WaitReady
    \/ WaitFails
    \/ \E ok \in BOOLEAN : Probe(ok)
    \/ MeasureRow
    \/ AllMeasured
    \/ RequestRaises
    \/ WriteEarly
    \/ StopArmServer
    \/ StopRaises
    \/ WriteResult
    \/ KillDriver
    \/ \E r \in ArmRunIds : BindPort(r) \/ ArmServerDies(r)
    \/ WriteReport
    \/ Validate

ArmSpec == ArmInit /\ [][ArmNext]_armVars

-----------------------------------------------------------------------------

\* A validation that passes is about servers that are gone: server_stopped in a result
\* was written after its process was reaped, whatever runs were repeated over the
\* directory, killed, or could not be stopped.
ValidatedServersAreGone ==
    validated => \A l \in Legs : armServer[result[l].run] = "dead"

\* Every row of a validated f1c2 leg was answered by a server started for that leg,
\* however many drivers were killed and left their server on the port: the rows an orphan
\* answers are missing from the request log of the leg that asked, and too many for the
\* leg it was started for.
ValidatedRowsAreOfTheLeg ==
    (validated /\ armTool = "f1c2") =>
        \A l \in Legs : \A r \in result[l].by : legOf[r] = l

=============================================================================
