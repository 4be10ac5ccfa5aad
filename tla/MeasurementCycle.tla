-------------------------- MODULE MeasurementCycle --------------------------
(***************************************************************************)
(* The measurement cycle: scripts/run_measurement_cycle.sh starts one      *)
(* driver after the other under tools/run_bounded.py, a driver is          *)
(* tools/sweep_mei.py or tools/llama_ceiling.py, and it starts the servers *)
(* it measures and asks them over a fixed port.                            *)
(*                                                                         *)
(* Processes: the cycle with its supervisor, the drivers, the servers.     *)
(* The supervisor starts a driver in a session of its own, so an operator  *)
(* who interrupts the cycle leaves the driver running.                     *)
(*                                                                         *)
(* Abstracted: a server is named by its driver and cell, a row by the      *)
(* server that answered it; token counts, timings and statuses of the      *)
(* server are left out.  External: the processes the tools start.          *)
(***************************************************************************)
EXTENDS Integers, Sequences, FiniteSets

CONSTANTS
    DriverBound,    \* drivers the cycle starts
    CellCount,      \* cells of a sweep
    SweepRows,      \* rows of a cell: contexts, reuse, 40K chat
    CeilingRows     \* repeats, and the chat or the extension row

ASSUME DriverBoundAssumption == DriverBound \in Nat
ASSUME MatrixAssumption == {CellCount, SweepRows, CeilingRows} \subseteq Nat \ {0}

DriverRuns == 1 .. DriverBound  \* in the order the cycle starts them
SweepCells == 1 .. CellCount    \* a ceiling has cell 1
RowsOf(k) == IF k = "sweep" THEN SweepRows ELSE CeilingRows
CellsOf(k) == IF k = "sweep" THEN SweepCells ELSE {1}

NoServer == <<0, 0>>        \* nobody listens
MeasuredServers == DriverRuns \X SweepCells
Waits == {"terminated", "killed"}

VARIABLES
    cycleAt,    \* the supervisor: idle, waiting, terminated, killed
    boundedCode,    \* exit code of the last supervisor, -1 before
    cyclePhase, \* the driver started last, 0 before
    kind,       \* driver -> sweep or ceiling
    driverAt,   \* driver -> where it is
    cell,       \* driver -> the cell it works on
    server,     \* <<driver, cell>> -> none, booting, up, dead
    listens,    \* kind -> the server that has the port
    rows,       \* <<driver, cell>> -> rows recorded
    artifact,   \* driver -> cells in the artifact
    verdict,    \* driver -> the status written last
    interrupted,    \* drivers the operator left behind
    forced      \* --force: --no-contention-gate for every driver

cycleVars == <<cycleAt, boundedCode, cyclePhase, kind, driverAt, cell, server, listens,
               rows, artifact, verdict, interrupted, forced>>

CycleInit ==
    /\ cycleAt = "idle"
    /\ boundedCode = -1
    /\ cyclePhase = 0
    /\ kind = [d \in DriverRuns |-> "sweep"]
    /\ driverAt = [d \in DriverRuns |-> "none"]
    /\ cell = [d \in DriverRuns |-> 1]
    /\ server = [s \in MeasuredServers |-> "none"]
    /\ listens = [k \in {"sweep", "ceiling"} |-> NoServer]
    /\ rows = [s \in MeasuredServers |-> << >>]
    /\ artifact = [d \in DriverRuns |-> {}]
    /\ verdict = [d \in DriverRuns |-> "none"]
    /\ interrupted = {}
    /\ forced = FALSE

Alive(d) == driverAt[d] \notin {"none", "ended"}
Own(d) == <<d, cell[d]>>
Running(s) == server[s] \in {"booting", "up"}
Of(s) == kind[s[1]]

-----------------------------------------------------------------------------
(* The cycle and its supervisor                                            *)

DriverState == <<kind, driverAt, cell, server, listens, rows, artifact, verdict>>

\* The lock directory admits one cycle; a phase waits for the one before.
StartPhase(k, force) ==
    /\ cycleAt = "idle"
    /\ cyclePhase > 0 => force = forced
    /\ forced' = force
    /\ cyclePhase + 1 \in DriverRuns
    /\ cyclePhase' = cyclePhase + 1
    /\ kind' = [kind EXCEPT ![cyclePhase + 1] = k]
    /\ driverAt' = [driverAt EXCEPT ![cyclePhase + 1] =
                        IF k = "ceiling" THEN "verify" ELSE "gate"]
    /\ cycleAt' = "waiting"
    /\ boundedCode' = -1
    /\ UNCHANGED <<cell, server, listens, rows, artifact, verdict, interrupted>>

\* The deadline: SIGTERM to the process group.  Mei has no handler for it and is gone;
\* the driver may be slow to go, and llama-server finishes what it is doing.
Expire(dead) ==
    /\ cycleAt = "waiting"
    /\ Alive(cyclePhase)
    /\ LET group == {s \in MeasuredServers : s[1] = cyclePhase /\ Running(s)}
       IN  /\ dead \subseteq group
           /\ kind[cyclePhase] = "sweep" => dead = group
    /\ cycleAt' = "terminated"
    /\ \E exits \in BOOLEAN :
           driverAt' = [driverAt EXCEPT ![cyclePhase] = IF exits THEN "ended" ELSE "dying"]
    /\ server' = [s \in MeasuredServers |-> IF s \in dead THEN "dead" ELSE server[s]]
    /\ listens' = [k \in DOMAIN listens |->
                     IF listens[k] \in dead THEN NoServer ELSE listens[k]]
    /\ UNCHANGED <<boundedCode, cyclePhase, kind, cell, rows, artifact, verdict, interrupted,
                   forced>>

\* 20 seconds later: SIGKILL to the group, nobody survives it.
KillGroup ==
    /\ cycleAt = "terminated"
    /\ Alive(cyclePhase)
    /\ cycleAt' = "killed"
    /\ driverAt' = [driverAt EXCEPT ![cyclePhase] = "ended"]
    /\ server' = [s \in MeasuredServers |->
                    IF s[1] = cyclePhase /\ Running(s) THEN "dead" ELSE server[s]]
    /\ listens' = [k \in DOMAIN listens |->
                     IF listens[k][1] = cyclePhase THEN NoServer ELSE listens[k]]
    /\ UNCHANGED <<boundedCode, cyclePhase, kind, cell, rows, artifact, verdict, interrupted,
                   forced>>

\* The wait is for the driver alone.
SupervisorReturns ==
    /\ cycleAt # "idle"
    /\ ~Alive(cyclePhase)
    /\ boundedCode' = IF cycleAt \in Waits THEN 124
                      ELSE IF verdict[cyclePhase] = "passed" THEN 0 ELSE 1
    /\ cycleAt' = "idle"
    /\ UNCHANGED <<cyclePhase, interrupted, forced, DriverState>>

\* The operator interrupts the cycle and starts it again.
Interrupt ==
    /\ cycleAt = "waiting"
    /\ Alive(cyclePhase)
    /\ interrupted' = interrupted \cup {cyclePhase}
    /\ cycleAt' = "idle"
    /\ UNCHANGED <<boundedCode, cyclePhase, forced, DriverState>>

-----------------------------------------------------------------------------
(* Servers                                                                 *)

Cycle == <<cycleAt, boundedCode, cyclePhase, interrupted, forced>>
Driver == <<kind, driverAt, cell, rows, artifact, verdict>>

\* A server binds the port, or exits because another has it.
ServerBinds(s) ==
    /\ server[s] = "booting"
    /\ IF listens[Of(s)] = NoServer
         THEN /\ server' = [server EXCEPT ![s] = "up"]
              /\ listens' = [listens EXCEPT ![Of(s)] = s]
         ELSE /\ server' = [server EXCEPT ![s] = "dead"]
              /\ UNCHANGED listens
    /\ UNCHANGED <<Cycle, Driver>>

\* It fails to load, crashes, or follows the SIGTERM it was sent.
ServerDies(s) ==
    /\ Running(s)
    /\ server' = [server EXCEPT ![s] = "dead"]
    /\ listens' = [k \in DOMAIN listens |->
                     IF listens[k] = s THEN NoServer ELSE listens[k]]
    /\ UNCHANGED <<Cycle, Driver>>

-----------------------------------------------------------------------------
(* A driver                                                                *)

\* The sweep skips whatever was started from mei-build or mei-models: the Mei servers,
\* and the llama-server of a ceiling, whose file is under mei-models.
ForeignToSweep(d) == {}

\* The ceiling sees every llama-server but its own.
ForeignToCeiling(d) ==
    {s \in MeasuredServers : Of(s) = "ceiling" /\ Running(s)} \ {Own(d)}

Foreign_AsTheSweep(d) == ForeignToSweep(d)

\* foreign_servers
Foreign(d) == IF kind[d] = "sweep" THEN ForeignToSweep(d) ELSE ForeignToCeiling(d)

DriverGoes(d, at) == driverAt' = [driverAt EXCEPT ![d] = at]

\* verify_provenance: the pinned file, its header and the binary, before anything else.
ProvenanceGate(d, verified) ==
    /\ driverAt[d] = "verify"
    /\ DriverGoes(d, IF verified THEN "gate" ELSE "ended")
    /\ UNCHANGED <<Cycle, kind, cell, server, listens, rows, artifact, verdict>>

\* FATAL, 2: nothing was measured.
ContentionGate(d) ==
    /\ driverAt[d] = "gate"
    /\ DriverGoes(d, IF ~forced /\ Foreign(d) # {} THEN "ended"
                     ELSE IF kind[d] = "sweep" THEN "prepare" ELSE "start")
    /\ UNCHANGED <<Cycle, kind, cell, server, listens, rows, artifact, verdict>>

\* The sweep ends without a binary, and without a unit per context length that the
\* tokenizer encodes as one token.
Prepare(d, ready) ==
    /\ driverAt[d] = "prepare"
    /\ DriverGoes(d, IF ready THEN "start" ELSE "ended")
    /\ UNCHANGED <<Cycle, kind, cell, server, listens, rows, artifact, verdict>>

\* Server.__init__: the process, then wait_for_server.
StartServer(d) ==
    /\ driverAt[d] = "start"
    /\ server' = [server EXCEPT ![Own(d)] = "booting"]
    /\ DriverGoes(d, "wait")
    /\ UNCHANGED <<Cycle, kind, cell, listens, rows, artifact, verdict>>

\* Whoever lists the model on the port.
ServerReady(d) ==
    /\ driverAt[d] = "wait"
    /\ listens[kind[d]] # NoServer
    /\ DriverGoes(d, "rows")
    /\ UNCHANGED <<Cycle, kind, cell, server, listens, rows, artifact, verdict>>

Stopped(d) == [server EXCEPT ![Own(d)] = IF Running(Own(d)) THEN "dead" ELSE @]
Unbound(d) == [k \in DOMAIN listens |-> IF listens[k] = Own(d) THEN NoServer ELSE listens[k]]

NotReady(d) == driverAt[d] = "wait" /\ listens[kind[d]] = NoServer

\* The cell that could not start has no rows; the artifact is written with the next.
SweepStartFails(d) ==
    /\ NotReady(d)
    /\ kind[d] = "sweep"
    /\ DriverGoes(d, "next")
    /\ server' = Stopped(d)
    /\ listens' = Unbound(d)
    /\ UNCHANGED <<Cycle, kind, cell, rows, artifact, verdict>>

\* The ceiling ends and leaves its server as it is.
CeilingStartFails(d) ==
    /\ NotReady(d)
    /\ kind[d] = "ceiling"
    /\ DriverGoes(d, "ended")
    /\ UNCHANGED <<Cycle, kind, cell, server, listens, rows, artifact, verdict>>

\* The label of a row is taken before its request.
LabelRow(d) ==
    /\ driverAt[d] = "rows"
    /\ Len(rows[Own(d)]) < RowsOf(kind[d])
    /\ DriverGoes(d, IF Foreign(d) = {} THEN "clean" ELSE "contended")
    /\ UNCHANGED <<Cycle, kind, cell, server, listens, rows, artifact, verdict>>

Row(d, s, ok) == [by |-> s, passed |-> ok, contended |-> driverAt[d] = "contended"]

\* ok: the checks of the row pass; they cannot without an answer.
RequestRow(d, ok) ==
    /\ driverAt[d] \in {"clean", "contended"}
    /\ listens[kind[d]] # NoServer
    /\ rows' = [rows EXCEPT ![Own(d)] = Append(@, Row(d, listens[kind[d]], ok))]
    /\ DriverGoes(d, "rows")
    /\ UNCHANGED <<Cycle, kind, cell, server, listens, artifact, verdict>>

\* Nobody answers, or with an error.  The error path of the sweep reads a name that was
\* not assigned: the finally stops the server and the sweep ends.
SweepRequestRaises(d) ==
    /\ driverAt[d] \in {"clean", "contended"}
    /\ kind[d] = "sweep"
    /\ DriverGoes(d, "ended")
    /\ server' = Stopped(d)
    /\ listens' = Unbound(d)
    /\ UNCHANGED <<Cycle, kind, cell, rows, artifact, verdict>>

CeilingErrorRow(d) ==
    /\ driverAt[d] \in {"clean", "contended"}
    /\ kind[d] = "ceiling"
    /\ rows' = [rows EXCEPT ![Own(d)] = Append(@, Row(d, NoServer, FALSE))]
    /\ DriverGoes(d, "rows")
    /\ UNCHANGED <<Cycle, kind, cell, server, listens, artifact, verdict>>

RowsDone(d) == driverAt[d] = "rows" /\ Len(rows[Own(d)]) = RowsOf(kind[d])

\* The sweep stops the server and writes the artifact after each cell.
CellComplete(d) ==
    /\ RowsDone(d)
    /\ kind[d] = "sweep"
    /\ DriverGoes(d, "next")
    /\ server' = Stopped(d)
    /\ listens' = Unbound(d)
    /\ artifact' = [artifact EXCEPT ![d] = 1 .. cell[d]]
    /\ UNCHANGED <<Cycle, kind, cell, rows, verdict>>

NextCell(d) ==
    /\ driverAt[d] = "next"
    /\ cell[d] + 1 \in CellsOf(kind[d])
    /\ cell' = [cell EXCEPT ![d] = @ + 1]
    /\ DriverGoes(d, "start")
    /\ UNCHANGED <<Cycle, kind, server, listens, rows, artifact, verdict>>

AllPassed_NoRowsPass(d) ==
    \A c \in CellsOf(kind[d]) : \A i \in DOMAIN rows[<<d, c>>] : rows[<<d, c>>][i].passed

\* "passed" takes rows in every cell.
AllPassed(d) ==
    \A c \in CellsOf(kind[d]) :
        rows[<<d, c>>] # << >> /\ \A i \in DOMAIN rows[<<d, c>>] : rows[<<d, c>>][i].passed

RecordVerdict(d) ==
    /\ artifact' = [artifact EXCEPT ![d] = CellsOf(kind[d])]
    /\ verdict' = [verdict EXCEPT ![d] = IF AllPassed(d) THEN "passed" ELSE "failed"]

SweepVerdict(d) ==
    /\ driverAt[d] = "next"
    /\ cell[d] + 1 \notin CellsOf(kind[d])
    /\ RecordVerdict(d)
    /\ DriverGoes(d, "ended")
    /\ UNCHANGED <<Cycle, kind, cell, server, listens, rows>>

\* The ceiling writes its artifact once, and stops the server after that.
CeilingVerdict(d) ==
    /\ RowsDone(d)
    /\ kind[d] = "ceiling"
    /\ RecordVerdict(d)
    /\ DriverGoes(d, "stop")
    /\ UNCHANGED <<Cycle, kind, cell, server, listens, rows>>

CeilingStops(d) ==
    /\ driverAt[d] = "stop"
    /\ server' = Stopped(d)
    /\ listens' = Unbound(d)
    /\ DriverGoes(d, "ended")
    /\ UNCHANGED <<Cycle, kind, cell, rows, artifact, verdict>>

CycleNext ==
    \/ \E k \in {"sweep", "ceiling"}, force \in BOOLEAN : StartPhase(k, force)
    \/ \E dead \in SUBSET MeasuredServers : Expire(dead)
    \/ KillGroup
    \/ SupervisorReturns
    \/ Interrupt
    \/ \E s \in MeasuredServers : ServerBinds(s) \/ ServerDies(s)
    \/ \E d \in DriverRuns :
           \/ \E verified \in BOOLEAN : ProvenanceGate(d, verified)
           \/ ContentionGate(d)
           \/ \E ready \in BOOLEAN : Prepare(d, ready)
           \/ StartServer(d)
           \/ ServerReady(d)
           \/ SweepStartFails(d)
           \/ CeilingStartFails(d)
           \/ LabelRow(d)
           \/ \E ok \in BOOLEAN : RequestRow(d, ok)
           \/ SweepRequestRaises(d)
           \/ CeilingErrorRow(d)
           \/ CellComplete(d)
           \/ NextCell(d)
           \/ SweepVerdict(d)
           \/ CeilingVerdict(d)
           \/ CeilingStops(d)

CycleSpec == CycleInit /\ [][CycleNext]_cycleVars

-----------------------------------------------------------------------------

\* "Owned Mei server process, one per configuration cell": a row recorded under a cell
\* was answered by the server started for that cell.
RowsBelongToCell ==
    \A s \in MeasuredServers : \A i \in DOMAIN rows[s] :
        Of(s) = "sweep" => rows[s][i].by = s

\* A ceiling row that passed and carries no contention label was answered by the
\* server of its own run, although a run cut off at the deadline or whose server was
\* slow to load may have left another one on the port, and the gate may be off.
CleanCeilingRowsAreOwn ==
    \A s \in MeasuredServers : \A i \in DOMAIN rows[s] :
        (Of(s) = "ceiling" /\ rows[s][i].passed /\ ~rows[s][i].contended /\ interrupted = {})
            => rows[s][i].by = s

\* Status passed: every cell of the matrix has all its rows in the artifact, and they
\* passed, whatever cells failed to start.
PassedIsComplete ==
    \A d \in DriverRuns : verdict[d] = "passed" =>
        \A c \in CellsOf(kind[d]) :
            /\ c \in artifact[d]
            /\ Len(rows[<<d, c>>]) = RowsOf(kind[d])
            /\ \A i \in DOMAIN rows[<<d, c>>] : rows[<<d, c>>][i].passed
=============================================================================
