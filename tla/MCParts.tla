------------------------------- MODULE MCParts ------------------------------
(***************************************************************************)
(* One run for the parts that work alone, the tools and the constrained    *)
(* generation: a behavior picks a part, and the variables of the others    *)
(* keep one initial value.  The state space is the sum of those of the     *)
(* parts.                                                                  *)
(***************************************************************************)
EXTENDS MCStructuredRun, CheckpointStaging, QuantConversion, TextExport, JanghAdapter,
        AlignedRepack, CacheCleanup, MeasurementCycle, ArmRuns, ProbeRun, LogAttribution,
        ArmVerdict

\* The shards of a bundle, one of each kind.
BundleKinds == [lang |-> "text", blend |-> "mixed", eyes |-> "vision"]
BundleShards == DOMAIN BundleKinds

\* Two revisions of a checkpoint that name different weight files.
WeightFiles == [A |-> {"one", "two"}, B |-> {"three"}]

\* Two revisions of a source, the second with a tensor that is not at a multiple.
ShardsByRevision == <<{"p", "q"}, {"p"}>>
TensorByRevision == <<[offset |-> 12, size |-> 4], [offset |-> 6, size |-> 4]>>

\* One more header length than there are remainders by 8.
HeadersByEight == 5 .. 12

VARIABLE part   \* the one this behavior is about

PartsInit ==
    /\ part \in {"structured", "staging", "conversion", "export", "jangh", "repack", "cleanup",
                 "cycle", "arms", "probe", "log", "verdict"}
    /\ Init
    /\ part # "structured" => request = <<"json_object", TokenKinds, TRUE>>
    /\ StagingInit
    /\ ConvertInit
    /\ ExportInit
    /\ JanghInit
    /\ RepackInit
    /\ CacheInit
    /\ CycleInit
    /\ ArmInit
    /\ ProbeInit
    /\ LogInit
    /\ VerdictInit

Only(name) ==
    /\ part = name
    /\ UNCHANGED part
    /\ name # "structured" => UNCHANGED vars
    /\ name # "staging" => UNCHANGED stagingVars
    /\ name # "conversion" => UNCHANGED convVars
    /\ name # "export" => UNCHANGED exportVars
    /\ name # "jangh" => UNCHANGED janghVars
    /\ name # "repack" => UNCHANGED repackVars
    /\ name # "cleanup" => UNCHANGED cacheVars
    /\ name # "cycle" => UNCHANGED cycleVars
    /\ name # "arms" => UNCHANGED armVars
    /\ name # "probe" => UNCHANGED probeVars
    /\ name # "log" => UNCHANGED logVars
    /\ name # "verdict" => UNCHANGED verdictVars

PartsNext ==
    \/ Only("structured") /\ Next
    \/ Only("staging") /\ StagingNext
    \/ Only("conversion") /\ ConvertNext
    \/ Only("export") /\ ExportNext
    \/ Only("jangh") /\ JanghNext
    \/ Only("repack") /\ RepackNext
    \/ Only("cleanup") /\ CacheNext
    \/ Only("cycle") /\ CycleNext
    \/ Only("arms") /\ ArmNext
    \/ Only("probe") /\ ProbeNext
    \/ Only("log") /\ LogNext
    \/ Only("verdict") /\ JudgeNext

partsVars == <<part, vars, stagingVars, convVars, exportVars, janghVars, repackVars, cacheVars,
               cycleVars, armVars, probeVars, logVars, verdictVars>>

PartsSpec == PartsInit /\ [][PartsNext]_partsVars

=============================================================================
