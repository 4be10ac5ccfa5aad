------------------------------- MODULE ProbeRun ------------------------------
(***************************************************************************)
(* A behavior leg of tools/cmlx_gate_benchmark.py and the prober it runs,  *)
(* tools/probe_mei.py: a sequence of checks against a server, each one     *)
(* recorded in probe.json through a temporary file and a rename, a last    *)
(* record with the verdict, and the leg that reads the file and the exit   *)
(* code into its result.json.                                              *)
(*                                                                         *)
(* Processes: the driver of the leg, and the probers it started.  A prober *)
(* is killed at its deadline or by itself; a driver that is killed leaves  *)
(* its prober running, and a second run over the directory meets it.       *)
(*                                                                         *)
(* Abstracted: three checks, the identity, the status that carries the     *)
(* token budget, and one that stands for all that follow; a check passes   *)
(* or fails.  Files are inodes, so a writer keeps its file after a rename. *)
(***************************************************************************)
EXTENDS Integers, Sequences, FiniteSets

CONSTANT ProbeRunBound      \* runs of the leg over one directory

ASSUME ProbeRunBoundAssumption == ProbeRunBound \in Nat

Probers == 1 .. ProbeRunBound
BudgetCheck == 2            \* mei_status
LaterCheck == 3             \* plain completion, tools, parity, cache, context
Outcomes == {"passed", "failed"}
Inodes == 1 .. ProbeRunBound + 1    \* one of them is always free for a new file

Torn == [by |-> 0, status |-> "torn", outcomes |-> << >>]
NoRecord == [by |-> 0, status |-> "failed", outcomes |-> << >>]
NoLeg == [run |-> 0, status |-> "none", evidence |-> NoRecord]

VARIABLES
    legAt,      \* the driver: idle, or probe: it waits for its prober
    legRuns,    \* runs started; the last one is the driver's
    proberAt,   \* run -> none, start, check, open, write, replace, ended
    proberCode, \* run -> exit code, -1 before
    outcomes,   \* run -> outcomes of its checks
    label,      \* run -> the status it writes
    handle,     \* run -> the inode it has open, 0 for none
    content,    \* inode -> what it holds
    incomplete, \* the inode of probe.json.incomplete, 0 for none
    probeFile,  \* the inode of probe.json, 0 for none
    legResult,  \* result.json
    orphaned    \* a driver left its prober behind

proberVars == <<proberAt, proberCode, outcomes, label, handle>>
fileVars == <<content, incomplete, probeFile>>
probeVars == <<legAt, legRuns, proberVars, fileVars, legResult, orphaned>>

ProbeInit ==
    /\ legAt = "idle"
    /\ legRuns = 0
    /\ proberAt = [p \in Probers |-> "none"]
    /\ proberCode = [p \in Probers |-> -1]
    /\ outcomes = [p \in Probers |-> << >>]
    /\ label = [p \in Probers |-> "running"]
    /\ handle = [p \in Probers |-> 0]
    /\ content = [i \in Inodes |-> Torn]
    /\ incomplete = 0
    /\ probeFile = 0
    /\ legResult = NoLeg
    /\ orphaned = FALSE

Everything(es) == Len(es) = LaterCheck /\ \A i \in DOMAIN es : es[i] = "passed"

-----------------------------------------------------------------------------
(* The prober                                                              *)

DriverOfLeg == <<legAt, legRuns, legResult, orphaned>>

ProberGoes(p, at) == proberAt' = [proberAt EXCEPT ![p] = at]

ProberEnds(p, code) ==
    /\ ProberGoes(p, "ended")
    /\ proberCode' = [proberCode EXCEPT ![p] = code]
    /\ handle' = [handle EXCEPT ![p] = 0]

\* "choose a fresh native probe output path"
StartProber(p) ==
    /\ proberAt[p] = "start"
    /\ IF probeFile # 0
         THEN ProberEnds(p, 1)
         ELSE ProberGoes(p, "check") /\ UNCHANGED <<proberCode, handle>>
    /\ UNCHANGED <<DriverOfLeg, outcomes, label, fileVars>>

\* checkpointed_probe: the check, then the record with status running.
RunCheck(p, result) ==
    /\ proberAt[p] = "check"
    /\ outcomes' = [outcomes EXCEPT ![p] = Append(@, result)]
    /\ label' = [label EXCEPT ![p] = "running"]
    /\ ProberGoes(p, "open")
    /\ UNCHANGED <<DriverOfLeg, proberCode, handle, fileVars>>

\* The tokenizer is loaded and the prompt of the context checks built outside of a check,
\* and an answer of another shape raises what no check catches.
UncaughtError(p) ==
    /\ proberAt[p] = "check"
    /\ ProberEnds(p, 1)
    /\ UNCHANGED <<DriverOfLeg, outcomes, label, fileVars>>

\* write_probe_result opens the temporary file and truncates it ...
OpenIncomplete(p) ==
    /\ proberAt[p] = "open"
    /\ LET held == {probeFile} \cup {handle[q] : q \in Probers}
           i == IF incomplete # 0 THEN incomplete ELSE CHOOSE j \in Inodes : j \notin held
       IN  /\ incomplete' = i
           /\ handle' = [handle EXCEPT ![p] = i]
           /\ content' = [content EXCEPT ![i] = Torn]
    /\ ProberGoes(p, "write")
    /\ UNCHANGED <<DriverOfLeg, proberCode, outcomes, label, probeFile>>

\* ... writes it, over what another prober wrote there since ...
WriteIncomplete(p) ==
    /\ proberAt[p] = "write"
    /\ LET mine == [by |-> p, status |-> label[p], outcomes |-> outcomes[p]]
           was == content[handle[p]]
       IN  \E new \in IF was = Torn THEN {mine} ELSE {mine, Torn} :
               content' = [content EXCEPT ![handle[p]] = new]
    /\ handle' = [handle EXCEPT ![p] = 0]
    /\ ProberGoes(p, "replace")
    /\ UNCHANGED <<DriverOfLeg, proberCode, outcomes, label, incomplete, probeFile>>

\* main after a record: the next check, the end without a budget, or the verdict.
AfterRecord(p) ==
    IF Len(outcomes[p]) = BudgetCheck /\ outcomes[p][BudgetCheck] = "failed"
      THEN label' = [label EXCEPT ![p] = "failed"] /\ ProberGoes(p, "open")
    ELSE IF Len(outcomes[p]) = LaterCheck
      THEN /\ label' = [label EXCEPT ![p] = IF Everything(outcomes[p]) THEN "passed"
                                            ELSE "failed"]
           /\ ProberGoes(p, "open")
    ELSE ProberGoes(p, "check") /\ UNCHANGED label

\* ... and renames it.  The other prober may have done so: FileNotFoundError.
RenameIncomplete(p) ==
    /\ proberAt[p] = "replace"
    /\ IF incomplete = 0
         THEN ProberEnds(p, 1) /\ UNCHANGED <<label, incomplete, probeFile>>
         ELSE /\ probeFile' = incomplete
              /\ incomplete' = 0
              /\ IF label[p] = "running"
                   THEN AfterRecord(p) /\ UNCHANGED <<proberCode, handle>>
                   ELSE /\ ProberEnds(p, IF label[p] = "passed" THEN 0 ELSE 1)
                        /\ UNCHANGED label
    /\ UNCHANGED <<DriverOfLeg, outcomes, content>>

AliveProber(p) == proberAt[p] \notin {"none", "ended"}

ProberDies(p) ==
    /\ AliveProber(p)
    /\ ProberEnds(p, 9)
    /\ UNCHANGED <<DriverOfLeg, outcomes, label, fileVars>>

-----------------------------------------------------------------------------
(* The leg                                                                 *)

BeginLeg ==
    /\ legAt = "idle"
    /\ legRuns < ProbeRunBound
    /\ legRuns' = legRuns + 1
    /\ legAt' = "probe"
    /\ ProberGoes(legRuns + 1, "start")
    /\ UNCHANGED <<proberCode, outcomes, label, handle, fileVars, legResult, orphaned>>

\* --probe-timeout: the prober is killed, and the leg failed without its record.
ProbeTimesOut ==
    /\ legAt = "probe"
    /\ AliveProber(legRuns)
    /\ ProberEnds(legRuns, 9)
    /\ legResult' = [run |-> legRuns, status |-> "failed", evidence |-> NoRecord]
    /\ legAt' = "idle"
    /\ UNCHANGED <<legRuns, outcomes, label, fileVars, orphaned>>

LegPassed_FileOnly(p, found) == found.status = "passed"

\* The verdict of the file and the exit code.
LegPassed(p, found) == found.status = "passed" /\ proberCode[p] = 0

\* run_probe: no file is a failure, and one that cannot be parsed raises.
ReadEvidence ==
    /\ legAt = "probe"
    /\ proberAt[legRuns] = "ended"
    /\ LET found == IF probeFile = 0 THEN NoRecord ELSE content[probeFile]
       IN  legResult' = [run |-> legRuns,
                         status |-> IF LegPassed(legRuns, found) THEN "passed" ELSE "failed",
                         evidence |-> found]
    /\ legAt' = "idle"
    /\ UNCHANGED <<legRuns, proberVars, fileVars, orphaned>>

DriverDies ==
    /\ legAt = "probe"
    /\ legAt' = "idle"
    /\ orphaned' = (orphaned \/ AliveProber(legRuns))
    /\ UNCHANGED <<legRuns, proberVars, fileVars, legResult>>

ProbeNext ==
    \/ BeginLeg
    \/ ProbeTimesOut
    \/ ReadEvidence
    \/ DriverDies
    \/ \E p \in Probers :
           \/ StartProber(p)
           \/ \E result \in Outcomes : RunCheck(p, result)
           \/ UncaughtError(p)
           \/ OpenIncomplete(p)
           \/ WriteIncomplete(p)
           \/ RenameIncomplete(p)
           \/ ProberDies(p)

ProbeSpec == ProbeInit /\ [][ProbeNext]_probeVars

-----------------------------------------------------------------------------

\* probe.json holds a whole record of one prober, behind it by at most one check.
UpToDate(record) ==
    /\ record # Torn
    /\ record.by \in Probers
    /\ Len(record.outcomes) \in {Len(outcomes[record.by]), Len(outcomes[record.by]) - 1}
    /\ record.outcomes = SubSeq(outcomes[record.by], 1, Len(record.outcomes))

\* A leg that passed ran every check and passed it, and so did the record it carries,
\* whoever else writes to the directory; and unless a driver left a prober behind, that
\* record is its own, and "the last completed check [stays] readable if a later check
\* is interrupted": the file is never torn, lost or taken over by another run.
EvidenceIsEarned ==
    /\ legResult.status = "passed" =>
           /\ Everything(outcomes[legResult.run])
           /\ Everything(legResult.evidence.outcomes)
    /\ ~orphaned =>
           /\ legResult.status = "passed" => legResult.evidence.by = legResult.run
           /\ probeFile # 0 => UpToDate(content[probeFile])
           /\ \A p \in Probers : Len(outcomes[p]) > 1 => probeFile # 0

=============================================================================
