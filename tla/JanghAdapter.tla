----------------------------- MODULE JanghAdapter ---------------------------
(***************************************************************************)
(* tools/prepare_flint_jangh.py: build, beside a packed bundle, a          *)
(* directory of links to its files with a config in which the packed       *)
(* projections are skipped.  The destination is written in place, the      *)
(* manifest last; the sources are read while another tool may replace      *)
(* them, and a crash leaves what was written.                              *)
(*                                                                         *)
(* Abstracted: the three projections of a layer are one module, "embed"    *)
(* and "attention" stand for the ordinary ones; the codebooks and the      *)
(* fields of the contract are right or wrong; a tensor is known by its     *)
(* module and its span.                                                    *)
(***************************************************************************)
EXTENDS Integers, FiniteSets

CONSTANTS
    Layers,         \* of the architecture, by their number
    JanghBound      \* runs of the tool

ASSUME LayersAssumption == Layers \subseteq Int
ASSUME JanghBoundAssumption == JanghBound \in Nat

JanghParts == {"directory", "links", "config", "raw", "bundle", "manifest"}

\* A bundle: its MoE layers, what its quantization map marks as packed and
\* overrides, the packed banks and the ordinary modules its headers hold, and
\* where the banks lie in the shard.
JanghBundles ==
    [contract : BOOLEAN, moe : SUBSET Layers, packed : SUBSET Layers,
     override : {"none", "embed", "attention"}, banks : SUBSET Layers,
     indexed : SUBSET Layers, ends : {1, 2}]

VARIABLES
    jangh,          \* the source bundle, the same for every run
    janghAt,        \* the part it writes next
    adapter,        \* the parts that are there
    skipped,        \* the modules the written config skips
    sidecarVersion, \* jang_config.json of the source
    bundleCopy, bundleHash,     \* as copied, and as hashed for the manifest
    janghRuns

janghVars == <<jangh, janghAt, adapter, skipped, sidecarVersion, bundleCopy,
               bundleHash, janghRuns>>

NoBundle == [contract |-> FALSE, moe |-> {}, packed |-> {}, override |-> "none",
             banks |-> {}, indexed |-> {}, ends |-> 1]

JanghInit ==
    /\ jangh = NoBundle
    /\ janghAt = "outside"
    /\ adapter = {}
    /\ skipped = {}
    /\ sidecarVersion = 0
    /\ bundleCopy = -1
    /\ bundleHash = -1
    /\ janghRuns = 0

-----------------------------------------------------------------------------
(* The contract                                                            *)

PartitionHolds_AnyPacked(b) == b.contract /\ b.override \in {"none", "embed"}

\* partition: the packed entries are exactly the projections of the MoE layers,
\* and only the embedding may be overridden.
PartitionHolds(b) ==
    /\ b.contract
    /\ b.packed = b.moe
    /\ b.override \in {"none", "embed"}

\* The bank of layer n begins at n; the spans are sorted and neighbours compared.
Span(b, n) == [first |-> n, end |-> n + b.ends]

\* read_headers: what the headers hold is what the index names, and no span of
\* the shard overlaps the next one.
HeadersHold(b) ==
    /\ b.indexed = b.banks
    /\ \A n \in b.banks : n + 1 \in b.banks => Span(b, n).end <= Span(b, n + 1).first

\* validate_headers: one bank for every MoE layer and none for a dense one.
ArchitectureHolds(b) == b.banks = b.moe

-----------------------------------------------------------------------------
(* One run                                                                 *)

BeginAdapter(b) ==
    /\ janghAt \in {"outside", "refused", "crashed", "done"}
    /\ janghAt # "outside" => b = jangh
    /\ janghRuns < JanghBound
    /\ janghRuns' = janghRuns + 1
    /\ jangh' = b
    /\ janghAt' = "checking"
    /\ UNCHANGED <<adapter, skipped, sidecarVersion, bundleCopy, bundleHash>>

\* Every check precedes the first write; a destination that exists, also one a
\* crash has left unfinished, is never written again.
CheckBundle ==
    /\ janghAt = "checking"
    /\ janghAt' = IF /\ PartitionHolds(jangh)
                     /\ HeadersHold(jangh)
                     /\ ArchitectureHolds(jangh)
                     /\ adapter = {}
                  THEN "directory" ELSE "refused"
    /\ UNCHANGED <<jangh, adapter, skipped, sidecarVersion, bundleCopy, bundleHash, janghRuns>>

NextJangh == [directory |-> "links", links |-> "config", config |-> "raw",
              raw |-> "bundle", bundle |-> "manifest", manifest |-> "done"]

\* The config was made from the bytes that were checked; jang_config.json is read
\* again for its copy and again for the manifest's hash.
WriteAdapter ==
    /\ janghAt \in JanghParts
    /\ adapter' = adapter \cup {janghAt}
    /\ skipped' = IF janghAt = "config" THEN jangh.packed ELSE skipped
    /\ bundleCopy' = IF janghAt = "bundle" THEN sidecarVersion ELSE bundleCopy
    /\ bundleHash' = IF janghAt = "manifest" THEN sidecarVersion ELSE bundleHash
    /\ janghAt' = NextJangh[janghAt]
    /\ UNCHANGED <<jangh, sidecarVersion, janghRuns>>

AdapterCrash ==
    /\ janghAt \in JanghParts
    /\ janghAt' = "crashed"
    /\ UNCHANGED <<jangh, adapter, skipped, sidecarVersion, bundleCopy, bundleHash, janghRuns>>

\* Outside the tool.
ReplaceSidecar ==
    /\ sidecarVersion = 0
    /\ sidecarVersion' = 1
    /\ UNCHANGED <<jangh, janghAt, adapter, skipped, bundleCopy, bundleHash, janghRuns>>

JanghNext ==
    \/ \E b \in JanghBundles : BeginAdapter(b)
    \/ CheckBundle
    \/ WriteAdapter
    \/ AdapterCrash
    \/ ReplaceSidecar

JanghSpec == JanghInit /\ [][JanghNext]_janghVars

-----------------------------------------------------------------------------

\* A manifest stands only in a whole adapter, and its config, written from the
\* quantization map, skips exactly the layers whose banks the shards hold (read
\* from the headers) and no two banks share a byte: a packed bank never reaches
\* the generic loader and no ordinary module is lost, although the map, the index
\* and the headers are three independent inputs and a run may meet the leavings
\* of another.  The manifest's hash of jang_config.json is not part of this: the
\* file is read three times.
AdapterIsWhole ==
    "manifest" \in adapter /\ janghAt = "done" =>
        /\ adapter = JanghParts
        /\ skipped = jangh.banks
        /\ \A n, k \in jangh.banks :
               n < k => Span(jangh, n).end <= Span(jangh, k).first

=============================================================================
