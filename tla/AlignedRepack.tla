----------------------------- MODULE AlignedRepack --------------------------
(***************************************************************************)
(* tools/align_safetensors.py and tools/publish_aligned_repack.py: pad the *)
(* header of every shard of a bundle so that its data segment starts at a  *)
(* multiple of 8, write a manifest last, and later publish what the        *)
(* directory holds after checking the shards the manifest names.  The      *)
(* destination is written in place: a run may crash anywhere, and a second *)
(* run, of another revision of the source, writes over it.                 *)
(*                                                                         *)
(* Abstracted: a payload is a revision number, its hash that number; a     *)
(* shard's tensors are the remainders of their offsets and their sizes.    *)
(***************************************************************************)
EXTENDS Integers, Sequences, FiniteSets

CONSTANTS
    RepackBound,    \* runs of align_safetensors
    HeaderLengths,  \* of the shards of a source
    RepackShards,
    ShardNames,     \* the shards of each revision of the source
    TensorAt        \* offset and dtype size of a tensor of theirs that is not at 0

ASSUME RepackBoundAssumption == RepackBound \in Nat
ASSUME HeaderLengthsAssumption == HeaderLengths \subseteq Nat
ASSUME ShardNamesAssumption == ShardNames \in Seq(SUBSET RepackShards) /\ ShardNames # << >>
ASSUME TensorAtAssumption ==
    TensorAt \in [DOMAIN ShardNames -> [offset : Nat, size : {1, 2, 4, 8}]]

Nothing == [payload |-> 0, header |-> 0]
NoManifest == [shards |-> {}, payload |-> 0]

VARIABLES
    headerLength,   \* of every shard of the source
    sourceRev,      \* revision of the source directory
    repackAt,       \* the run: idle, open, copy or verify
    shard,          \* the shard it works on
    audited,        \* the shards it has verified
    aligned,        \* destination: payload and header length of each shard
    manifest,       \* MEI_ALIGN_MANIFEST.json of the destination
    repackRuns,
    publishAt, uploaded     \* the publisher, and the repository

repackVars == <<headerLength, sourceRev, repackAt, shard, audited, aligned, manifest,
                repackRuns, publishAt, uploaded>>

NothingAligned == [s \in RepackShards |-> Nothing]

RepackInit ==
    /\ headerLength = 5
    /\ sourceRev = 1
    /\ repackAt = "idle"
    /\ shard = "none"
    /\ audited = {}
    /\ aligned = NothingAligned
    /\ manifest = NoManifest
    /\ repackRuns = 0
    /\ publishAt = "idle"
    /\ uploaded = NothingAligned

-----------------------------------------------------------------------------
(* The padding                                                             *)

\* repack_shard: spaces before the closing brace of a header of h bytes.
Padding(h) == (8 - ((8 + h) % 8)) % 8

DataStart(h) == 8 + h

\* audit: every tensor's absolute offset is a multiple of its size.
Aligned(h, t) == (DataStart(h) + t.offset) % t.size = 0

-----------------------------------------------------------------------------
(* align_safetensors                                                       *)

Publisher == <<publishAt, uploaded>>
Repack == <<headerLength, sourceRev, repackRuns>>

\* One operator runs the tools one after the other.
BeginRepack(h, rev) ==
    /\ repackAt = "idle"
    /\ publishAt = "idle"
    /\ repackRuns < RepackBound
    /\ repackRuns' = repackRuns + 1
    /\ headerLength' = h
    /\ sourceRev' = rev
    /\ repackAt' = "open"
    /\ audited' = {}
    /\ UNCHANGED <<shard, aligned, manifest, Publisher>>

\* The destination file is truncated and gets its padded header ...
OpenShard(s) ==
    /\ repackAt = "open"
    /\ s \in ShardNames[sourceRev] \ audited
    /\ shard' = s
    /\ aligned' = [aligned EXCEPT ![s] =
                     [payload |-> 0, header |-> headerLength + Padding(headerLength)]]
    /\ repackAt' = "copy"
    /\ UNCHANGED <<Repack, audited, manifest, Publisher>>

\* ... then the payload of the source.
CopyPayload ==
    /\ repackAt = "copy"
    /\ aligned' = [aligned EXCEPT ![shard].payload = sourceRev]
    /\ repackAt' = "verify"
    /\ UNCHANGED <<Repack, shard, audited, manifest, Publisher>>

\* The payload is hashed and the tensors audited; a failure ends the run.
VerifyRepacked ==
    /\ repackAt = "verify"
    /\ IF Aligned(aligned[shard].header, TensorAt[sourceRev])
         THEN audited' = audited \cup {shard} /\ repackAt' = "open"
         ELSE repackAt' = "idle" /\ UNCHANGED audited
    /\ UNCHANGED <<Repack, shard, aligned, manifest, Publisher>>

\* Sidecars, then the manifest; no shard of an earlier run is removed.
WriteManifest ==
    /\ repackAt = "open"
    /\ audited = ShardNames[sourceRev]
    /\ manifest' = [shards |-> audited, payload |-> sourceRev]
    /\ repackAt' = "idle"
    /\ UNCHANGED <<Repack, shard, audited, aligned, Publisher>>

RepackCrash ==
    /\ repackAt # "idle"
    /\ repackAt' = "idle"
    /\ UNCHANGED <<Repack, shard, audited, aligned, manifest, Publisher>>

-----------------------------------------------------------------------------
(* publish_aligned_repack                                                  *)

Repacker == <<Repack, repackAt, shard, audited, aligned, manifest>>

PublishAllowed_ByName == manifest.shards # {}

\* verify: the shards the manifest names, their start and their payload.
PublishAllowed ==
    /\ manifest.shards # {}
    /\ \A s \in manifest.shards : /\ DataStart(aligned[s].header) % 8 = 0
                                  /\ aligned[s].payload = manifest.payload

CheckPublish ==
    /\ repackAt = "idle"
    /\ publishAt = "idle"
    /\ PublishAllowed
    /\ publishAt' = "checked"
    /\ UNCHANGED <<Repacker, uploaded>>

\* Every file of the directory goes up, also one the manifest does not name.
Upload ==
    /\ publishAt = "checked"
    /\ uploaded' = aligned
    /\ publishAt' = "idle"
    /\ UNCHANGED Repacker

RepackNext ==
    \/ \E h \in HeaderLengths, rev \in DOMAIN ShardNames : BeginRepack(h, rev)
    \/ \E s \in RepackShards : OpenShard(s)
    \/ CopyPayload
    \/ VerifyRepacked
    \/ WriteManifest
    \/ RepackCrash
    \/ CheckPublish
    \/ Upload

RepackSpec == RepackInit /\ [][RepackNext]_repackVars

-----------------------------------------------------------------------------

\* "Refuse to publish weights whose payload does not match the manifest": an upload
\* carries, for every shard of its manifest, the whole payload of one revision,
\* with every tensor aligned, whatever a crash left in the directory, a second run
\* began to overwrite or failed to align under the first one's manifest.
PublishedIsAligned ==
    [][uploaded' # uploaded =>
          \A s \in manifest.shards :
              /\ uploaded'[s].payload = manifest.payload
              /\ Aligned(uploaded'[s].header, TensorAt[manifest.payload])]_repackVars

=============================================================================
