-------------------------- MODULE CheckpointStaging -------------------------
(***************************************************************************)
(* tools/stage_mlx_checkpoint.py: download a pinned checkpoint into a      *)
(* target directory, move a subdirectory of it up to the root, verify what *)
(* the root holds and write the verdict to a provenance file.  A run may   *)
(* crash between any two file operations, and the target stays for the     *)
(* next run, which may pin another revision.                               *)
(*                                                                         *)
(* Abstracted: a file is absent, whole in the content of one revision, or  *)
(* cut short by a copy that was interrupted outside the tool; sizes and    *)
(* hashes only enter the provenance.  snapshot_download is external: it    *)
(* replaces every file that is absent or differs, one at a time, and       *)
(* removes nothing.                                                        *)
(***************************************************************************)
EXTENDS Integers, FiniteSets

CONSTANTS
    Revisions,
    Shards,         \* weight files
    ShardsOf,       \* the weight files each revision names
    StagingBound    \* runs of the tool

ASSUME RevisionsAssumption == Revisions \cap {"absent", "cut", "(verify-only)"} = {}
ASSUME ShardsAssumption == /\ ShardsOf \in [Revisions -> SUBSET Shards]
                           /\ Shards \cap {"config", "index"} = {}
ASSUME StagingBoundAssumption == StagingBound \in Nat

AllFiles == Shards \cup {"config", "index"}

VARIABLES
    repoIndexed,    \* the repository has model.safetensors.index.json
    subdir,         \* --subdir is given: its files are under target/<subdir>
    stageAt, stageRev, stageOnly,   \* the run; stageOnly is --verify-only
    root, sub,      \* the target directory and its subdirectory
    relocated,      \* this run moved the subdirectory up
    stagingRuns,
    provenance      \* the provenance file: the revision it names and the verdict

stagingVars == <<repoIndexed, subdir, stageAt, stageRev, stageOnly, root, sub,
                 relocated, stagingRuns, provenance>>

Nowhere == [f \in AllFiles |-> "absent"]
NoProvenance == [rev |-> "none", ok |-> FALSE, indexed |-> FALSE]

StagingInit ==
    /\ repoIndexed = TRUE
    /\ subdir = FALSE
    /\ stageAt = "fresh"
    /\ stageRev = "none"
    /\ stageOnly = FALSE
    /\ root = Nowhere
    /\ sub = Nowhere
    /\ relocated = FALSE
    /\ stagingRuns = 0
    /\ provenance = NoProvenance

RepoFiles(rev) ==
    ShardsOf[rev] \cup {"config"} \cup (IF repoIndexed THEN {"index"} ELSE {})

Has(dir, f) == dir[f] # "absent"
On(dir) == {f \in AllFiles : Has(dir, f)}

-----------------------------------------------------------------------------
(* verify                                                                  *)

\* parse_safetensors_plan: the weight files the index names, else the ones found.
WeightPlan(dir) == IF Has(dir, "index") THEN ShardsOf[dir["index"]] ELSE On(dir) \cap Shards

Verified_IgnoresExtra(dir) ==
    /\ Has(dir, "config")
    /\ WeightPlan(dir) # {}
    /\ \A f \in WeightPlan(dir) : dir[f] \in Revisions

\* verify: the container check finds a cut file, missing files and, with an
\* index, files it does not name.
Verified(dir) ==
    /\ Has(dir, "config")
    /\ WeightPlan(dir) # {}
    /\ \A f \in WeightPlan(dir) : dir[f] \in Revisions
    /\ Has(dir, "index") => On(dir) \cap Shards \subseteq WeightPlan(dir)

-----------------------------------------------------------------------------
(* One run                                                                 *)

StageRun == <<repoIndexed, subdir, stageRev, stageOnly, stagingRuns>>

\* The layout of the repository and the use of --subdir are settled once.
BeginStaging(rev, only, indexed, sd) ==
    /\ stageAt \in {"fresh", "ended", "crashed"}
    /\ stageAt # "fresh" => (indexed = repoIndexed /\ sd = subdir)
    /\ stagingRuns < StagingBound
    /\ stagingRuns' = stagingRuns + 1
    /\ repoIndexed' = indexed
    /\ subdir' = sd
    /\ stageRev' = rev
    /\ stageOnly' = only
    /\ stageAt' = IF only THEN "relocate" ELSE "download"
    /\ relocated' = FALSE
    /\ UNCHANGED <<root, sub, provenance>>

DownloadTarget == IF subdir THEN sub ELSE root

DownloadFile(f) ==
    /\ stageAt = "download"
    /\ f \in RepoFiles(stageRev)
    /\ DownloadTarget[f] # stageRev
    /\ IF subdir THEN sub' = [sub EXCEPT ![f] = stageRev] /\ UNCHANGED root
       ELSE root' = [root EXCEPT ![f] = stageRev] /\ UNCHANGED sub
    /\ UNCHANGED <<StageRun, stageAt, relocated, provenance>>

DownloadDone ==
    /\ stageAt = "download"
    /\ \A f \in RepoFiles(stageRev) : DownloadTarget[f] = stageRev
    /\ stageAt' = "relocate"
    /\ UNCHANGED <<StageRun, root, sub, relocated, provenance>>

\* Tested once, before the first file moves.
MayRelocate == subdir /\ Has(sub, "config") /\ ~Has(root, "config")

StartRelocation ==
    /\ stageAt = "relocate"
    /\ stageAt' = IF MayRelocate THEN "moving" ELSE "verify"
    /\ UNCHANGED <<StageRun, root, sub, relocated, provenance>>

\* The children move in the order of iterdir, over files of the same name.
MoveChild(f) ==
    /\ stageAt = "moving"
    /\ Has(sub, f)
    /\ root' = [root EXCEPT ![f] = sub[f]]
    /\ sub' = [sub EXCEPT ![f] = "absent"]
    /\ UNCHANGED <<StageRun, stageAt, relocated, provenance>>

RelocationDone ==
    /\ stageAt = "moving"
    /\ On(sub) = {}
    /\ relocated' = TRUE
    /\ stageAt' = "verify"
    /\ UNCHANGED <<StageRun, root, sub, provenance>>

\* The provenance is written whatever the verdict, over the one of an earlier run.
VerifyAndRecord ==
    /\ stageAt = "verify"
    /\ provenance' = [rev |-> IF stageOnly THEN "(verify-only)" ELSE stageRev,
                      ok |-> Verified(root), indexed |-> Has(root, "index")]
    /\ stageAt' = "ended"
    /\ UNCHANGED <<StageRun, root, sub, relocated>>

StagingCrash ==
    /\ stageAt \in {"download", "relocate", "moving", "verify"}
    /\ stageAt' = "crashed"
    /\ UNCHANGED <<StageRun, root, sub, relocated, provenance>>

\* Outside the tool: a weight file of the target is overwritten by part of itself.
CutFile(f) ==
    /\ stageAt = "ended"
    /\ f \in Shards
    /\ root[f] \in Revisions
    /\ root' = [root EXCEPT ![f] = "cut"]
    /\ stageAt' = "crashed"
    /\ UNCHANGED <<StageRun, sub, relocated, provenance>>

StagingNext ==
    \/ \E rev \in Revisions, only, indexed, sd \in BOOLEAN :
           BeginStaging(rev, only, indexed, sd)
    \/ \E f \in AllFiles : DownloadFile(f) \/ MoveChild(f) \/ CutFile(f)
    \/ DownloadDone
    \/ StartRelocation
    \/ RelocationDone
    \/ VerifyAndRecord
    \/ StagingCrash

StagingSpec == StagingInit /\ [][StagingNext]_stagingVars

-----------------------------------------------------------------------------

\* "verifies that every expected safetensors weight file is present": the weight
\* files at the root are exactly the pinned revision's, and whole.
RootIsPinned ==
    \A f \in Shards :
        root[f] = IF f \in ShardsOf[stageRev] THEN stageRev ELSE "absent"

Acknowledged == stageAt = "ended" /\ ~stageOnly /\ provenance.ok

\* When the files of this run reached the root, an index makes the verdict ok mean
\* that the root is the pinned checkpoint, whatever an earlier run left behind:
\* a crash in the middle of a download or of a relocation, another revision's
\* files, a cut file.
StagedIsPinned ==
    Acknowledged /\ provenance.indexed /\ (subdir => relocated) => RootIsPinned

=============================================================================
