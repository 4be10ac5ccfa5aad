------------------------------ MODULE ToolRuns_proofs -------------------------
(***************************************************************************)
(* Theorems about the tools of the repository, one section per component,  *)
(* for every value of their constants: however many runs, drivers,         *)
(* servers, shards, layers, rows or tasks there are, and whichever of them *)
(* are killed.                                                             *)
(***************************************************************************)
EXTENDS CheckpointStaging, AlignedRepack, CacheCleanup, QuantConversion, TextExport,
        JanghAdapter, MeasurementCycle, ArmRuns, ProbeRun, ArmVerdict, LogAttribution,
        FiniteSetTheorems, SequenceTheorems, TLAPS

-----------------------------------------------------------------------------
(* CheckpointStaging, AlignedRepack, CacheCleanup                          *)

Contents == Revisions \cup {"absent", "cut"}

\* The files of the pinned revision from the download to the verdict: at the target, on
\* their way up, at the root.  An index is there only if the repository has one.
StagingInv ==
    /\ repoIndexed \in BOOLEAN
    /\ root \in [AllFiles -> Contents] /\ sub \in [AllFiles -> Contents]
    /\ stageAt = "fresh" => root = Nowhere /\ sub = Nowhere
    /\ stageAt # "fresh" => stageRev \in Revisions
    /\ ~repoIndexed => ~Has(root, "index") /\ ~Has(sub, "index")
    /\ stageAt \in {"download", "relocate", "moving"} => ~relocated
    /\ stageAt = "relocate" /\ ~stageOnly =>
           \A f \in RepoFiles(stageRev) : DownloadTarget[f] = stageRev
    /\ stageAt = "moving" => subdir
    /\ stageAt = "moving" /\ ~stageOnly =>
           \A f \in RepoFiles(stageRev) :
               sub[f] = stageRev \/ (~Has(sub, f) /\ root[f] = stageRev)
    /\ stageAt \in {"verify", "ended"} /\ ~stageOnly /\ (subdir => relocated) =>
           \A f \in RepoFiles(stageRev) : root[f] = stageRev
    /\ StagedIsPinned

\* A root that was verified with an index, and has every file of the pinned revision, has
\* no weight file of another.
LEMMA VerifiedIsPinned ==
    ASSUME StagingInv, stageAt = "verify", ~stageOnly, subdir => relocated,
           Verified(root), Has(root, "index")
    PROVE  RootIsPinned
  <1>1. repoIndexed /\ stageRev \in Revisions
    BY DEF StagingInv
  <1>2. \A f \in RepoFiles(stageRev) : root[f] = stageRev
    BY DEF StagingInv
  <1>3. root["index"] = stageRev
    BY <1>1, <1>2 DEF RepoFiles
  <1>4. On(root) \cap Shards \subseteq ShardsOf[stageRev]
    BY <1>3 DEF Verified, WeightPlan
  <1>5. ASSUME NEW f \in Shards, f \notin ShardsOf[stageRev] PROVE root[f] = "absent"
    BY <1>4, <1>5 DEF On, Has, AllFiles
  <1> QED
    BY <1>2, <1>5 DEF RootIsPinned, RepoFiles

\* Whatever an earlier run, a crash or a cut file left in the target, a verdict ok with an
\* index says that the weight files at the root are the pinned revision's.
THEOREM StagingIsPinned == StagingSpec => []StagedIsPinned
  <1>1. StagingInit => StagingInv
    <2> SUFFICES ASSUME StagingInit PROVE StagingInv
      OBVIOUS
    <2>1. Nowhere \in [AllFiles -> Contents] /\ ~Has(Nowhere, "index")
      BY DEF Nowhere, Contents, Has, AllFiles
    <2> QED
      BY <2>1 DEF StagingInit, StagingInv, StagedIsPinned, Acknowledged
  <1>2. StagingInv /\ [StagingNext]_stagingVars => StagingInv'
    <2> SUFFICES ASSUME StagingInv, [StagingNext]_stagingVars PROVE StagingInv'
      OBVIOUS
    <2> USE DEF StagingInv, StageRun, Contents
    <2>1. ASSUME NEW rev \in Revisions, NEW only \in BOOLEAN, NEW indexed \in BOOLEAN,
                 NEW sd \in BOOLEAN, BeginStaging(rev, only, indexed, sd)
          PROVE  StagingInv'
      <3>1. stageAt' \in {"download", "relocate"} /\ (stageAt' = "relocate" => stageOnly')
        BY <2>1 DEF BeginStaging
      <3>2. ~repoIndexed' => ~Has(root', "index") /\ ~Has(sub', "index")
        BY <2>1 DEF BeginStaging, Has, Nowhere, AllFiles
      <3>3. StagedIsPinned'
        BY <3>1 DEF StagedIsPinned, Acknowledged
      <3> QED
        BY <2>1, <3>1, <3>2, <3>3 DEF BeginStaging
    <2>2. ASSUME NEW f \in AllFiles, DownloadFile(f) PROVE StagingInv'
      <3>1. root' \in [AllFiles -> Contents] /\ sub' \in [AllFiles -> Contents]
        BY <2>2 DEF DownloadFile
      <3>2. ~repoIndexed => f # "index"
        BY <2>2, ShardsAssumption DEF DownloadFile, RepoFiles
      <3>3. ~repoIndexed' => ~Has(root', "index") /\ ~Has(sub', "index")
        BY <2>2, <3>2 DEF DownloadFile, Has, AllFiles
      <3>4. StagedIsPinned'
        BY <2>2 DEF DownloadFile, StagedIsPinned, Acknowledged
      <3> QED
        BY <2>2, <3>1, <3>3, <3>4 DEF DownloadFile
    <2>3. ASSUME NEW f \in AllFiles, MoveChild(f) PROVE StagingInv'
      <3>1. root' \in [AllFiles -> Contents] /\ sub' \in [AllFiles -> Contents]
        BY <2>3 DEF MoveChild
      <3>2. ~repoIndexed' => ~Has(root', "index") /\ ~Has(sub', "index")
        BY <2>3 DEF MoveChild, Has, AllFiles
      <3>3. ~stageOnly' =>
                \A g \in RepoFiles(stageRev)' :
                    sub'[g] = stageRev' \/ (~Has(sub', g) /\ root'[g] = stageRev')
        BY <2>3, ShardsAssumption DEF MoveChild, Has, RepoFiles, AllFiles
      <3>4. StagedIsPinned'
        BY <2>3 DEF MoveChild, StagedIsPinned, Acknowledged
      <3> QED
        BY <2>3, <3>1, <3>2, <3>3, <3>4 DEF MoveChild
    <2>4. ASSUME NEW f \in AllFiles, CutFile(f) PROVE StagingInv'
      <3>1. f # "index"
        BY <2>4, ShardsAssumption DEF CutFile
      <3>2. root' \in [AllFiles -> Contents]
        BY <2>4 DEF CutFile
      <3>3. ~repoIndexed' => ~Has(root', "index") /\ ~Has(sub', "index")
        BY <2>4, <3>1 DEF CutFile, Has, AllFiles
      <3>4. StagedIsPinned'
        BY <2>4 DEF CutFile, StagedIsPinned, Acknowledged
      <3> QED
        BY <2>4, <3>2, <3>3, <3>4 DEF CutFile
    <2>5. CASE DownloadDone
      <3>1. StagedIsPinned'
        BY <2>5 DEF DownloadDone, StagedIsPinned, Acknowledged
      <3> QED
        BY <2>5, <3>1 DEF DownloadDone, RepoFiles, DownloadTarget, Has
    <2>6. CASE StartRelocation
      <3>1. StagedIsPinned'
        BY <2>6 DEF StartRelocation, StagedIsPinned, Acknowledged
      <3>2. subdir => DownloadTarget = sub
        BY DEF DownloadTarget
      <3>3. ~subdir => DownloadTarget = root
        BY DEF DownloadTarget
      <3> QED
        BY <2>6, <3>1, <3>2, <3>3 DEF StartRelocation, MayRelocate, RepoFiles, Has
    <2>7. CASE RelocationDone
      <3>1. \A f \in AllFiles : ~Has(sub, f)
        BY <2>7 DEF RelocationDone, On
      <3>2. \A f \in RepoFiles(stageRev) : f \in AllFiles
        BY <2>7, ShardsAssumption DEF RelocationDone, RepoFiles, AllFiles
      <3>3. ~stageOnly => \A f \in RepoFiles(stageRev) : root[f] = stageRev
        BY <2>7, <3>1, <3>2, RevisionsAssumption DEF RelocationDone, Has
      <3>4. StagedIsPinned'
        BY <2>7 DEF RelocationDone, StagedIsPinned, Acknowledged
      <3> QED
        BY <2>7, <3>3, <3>4 DEF RelocationDone, RepoFiles, Has
    <2>8. CASE VerifyAndRecord
      <3>1. StagedIsPinned'
        BY <2>8, VerifiedIsPinned
           DEF VerifyAndRecord, StagedIsPinned, Acknowledged, RootIsPinned
      <3> QED
        BY <2>8, <3>1 DEF VerifyAndRecord, RepoFiles, Has
    <2>9. CASE StagingCrash
      <3>1. StagedIsPinned'
        BY <2>9 DEF StagingCrash, StagedIsPinned, Acknowledged
      <3> QED
        BY <2>9, <3>1 DEF StagingCrash, Has
    <2>10. CASE UNCHANGED stagingVars
      BY <2>10 DEF stagingVars, StagedIsPinned, Acknowledged, RootIsPinned, RepoFiles,
         DownloadTarget, Has
    <2> QED
      BY <2>1, <2>2, <2>3, <2>4, <2>5, <2>6, <2>7, <2>8, <2>9, <2>10 DEF StagingNext
  <1>3. StagingInv => StagedIsPinned
    BY DEF StagingInv
  <1> QED
    BY <1>1, <1>2, <1>3, PTL DEF StagingSpec

-----------------------------------------------------------------------------

\* The header's length with its padding puts the data segment at a multiple of 8.
LEMMA PaddedStart == ASSUME NEW h \in Nat PROVE DataStart(h + Padding(h)) % 8 = 0
  BY DEF DataStart, Padding

\* Sizes are powers of two up to 8, so in a segment that starts at a multiple of 8 the
\* offset alone decides the alignment.
LEMMA StartDoesNotMatter ==
    ASSUME NEW h \in Nat, DataStart(h) % 8 = 0,
           NEW t \in [offset : Nat, size : {1, 2, 4, 8}]
    PROVE  Aligned(h, t) <=> t.offset % t.size = 0
  <1> DEFINE d == DataStart(h)
  <1>1. d \in Nat /\ d % 8 = 0 /\ t.offset \in Nat
    BY DEF DataStart
  <1> HIDE DEF d
  <1>2. CASE t.size = 1
    BY <1>1, <1>2 DEF Aligned, d
  <1>3. CASE t.size = 2
    <2>1. (d + t.offset) % 2 = t.offset % 2
      BY <1>1
    <2> QED
      BY <1>3, <2>1 DEF Aligned, d
  <1>4. CASE t.size = 4
    <2>1. (d + t.offset) % 4 = t.offset % 4
      BY <1>1
    <2> QED
      BY <1>4, <2>1 DEF Aligned, d
  <1>5. CASE t.size = 8
    <2>1. (d + t.offset) % 8 = t.offset % 8
      BY <1>1
    <2> QED
      BY <1>5, <2>1 DEF Aligned, d
  <1> QED
    BY <1>2, <1>3, <1>4, <1>5

\* The tensor of a revision lies at a multiple of its size in a data segment.
Fits(rev) == rev \in DOMAIN ShardNames /\ TensorAt[rev].offset % TensorAt[rev].size = 0

\* A manifest is of a revision whose tensors fit; between the publisher's check and its
\* upload nobody writes.
RepackInv ==
    /\ repackAt \in {"idle", "open", "copy", "verify"}
    /\ headerLength \in Nat /\ sourceRev \in DOMAIN ShardNames
    /\ aligned \in [RepackShards -> [payload : Nat, header : Nat]]
    /\ repackAt \in {"copy", "verify"} =>
           shard \in RepackShards /\ DataStart(aligned[shard].header) % 8 = 0
    /\ repackAt # "idle" /\ audited # {} => Fits(sourceRev)
    /\ manifest.shards \subseteq RepackShards
    /\ manifest.shards # {} => Fits(manifest.payload)
    /\ publishAt = "checked" => repackAt = "idle" /\ PublishAllowed

\* A revision is one of the shards' list, and its shards are shards.
LEMMA RevisionsOfTheSource ==
    /\ \A rev \in DOMAIN ShardNames : rev \in Nat /\ ShardNames[rev] \subseteq RepackShards
    /\ 1 \in DOMAIN ShardNames
  BY ShardNamesAssumption

\* The tools' steps keep the invariant.
LEMMA RepackStep == RepackInv /\ [RepackNext]_repackVars => RepackInv'
  <1> SUFFICES ASSUME RepackInv, [RepackNext]_repackVars PROVE RepackInv'
    OBVIOUS
  <1> USE DEF RepackInv, Repack, Publisher, Repacker
  <1>1. ASSUME NEW h \in HeaderLengths, NEW rev \in DOMAIN ShardNames, BeginRepack(h, rev)
        PROVE  RepackInv'
    BY <1>1, HeaderLengthsAssumption DEF BeginRepack, Fits
  <1>2. ASSUME NEW s \in RepackShards, OpenShard(s) PROVE RepackInv'
    <2> DEFINE header == headerLength + Padding(headerLength)
    <2>1. header \in Nat
      BY DEF Padding
    <2>2. DataStart(header) % 8 = 0
      BY PaddedStart
    <2> HIDE DEF header
    <2>3. aligned' = [aligned EXCEPT ![s] = [payload |-> 0, header |-> header]]
      BY <1>2 DEF OpenShard, header
    <2>4. aligned' \in [RepackShards -> [payload : Nat, header : Nat]]
      BY <2>1, <2>3
    <2>5. DataStart(aligned'[s].header) % 8 = 0
      BY <2>2, <2>3
    <2> QED
      BY <1>2, <2>4, <2>5 DEF OpenShard, Fits, PublishAllowed
  <1>3. CASE CopyPayload
    <2>1. aligned' \in [RepackShards -> [payload : Nat, header : Nat]]
      BY <1>3, RevisionsOfTheSource DEF CopyPayload
    <2>2. aligned'[shard].header = aligned[shard].header
      BY <1>3 DEF CopyPayload
    <2> QED
      BY <1>3, <2>1, <2>2 DEF CopyPayload, Fits, PublishAllowed
  <1>4. CASE VerifyRepacked
    <2>1. TensorAt[sourceRev] \in [offset : Nat, size : {1, 2, 4, 8}]
      BY TensorAtAssumption
    <2>2. /\ aligned[shard].header \in Nat
          /\ DataStart(aligned[shard].header) % 8 = 0
      BY <1>4 DEF VerifyRepacked
    <2>3. Aligned(aligned[shard].header, TensorAt[sourceRev]) => Fits(sourceRev)
      BY <2>1, <2>2, StartDoesNotMatter DEF Fits
    <2> QED
      BY <1>4, <2>3 DEF VerifyRepacked, Fits, PublishAllowed
  <1>5. CASE WriteManifest
    BY <1>5, RevisionsOfTheSource DEF WriteManifest, Fits
  <1>6. CASE RepackCrash
    BY <1>6 DEF RepackCrash, Fits
  <1>7. CASE CheckPublish
    BY <1>7 DEF CheckPublish, Fits, PublishAllowed
  <1>8. CASE Upload
    BY <1>8 DEF Upload, Fits
  <1>9. CASE UNCHANGED repackVars
    BY <1>9 DEF repackVars, Fits, PublishAllowed
  <1> QED
    BY <1>1, <1>2, <1>3, <1>4, <1>5, <1>6, <1>7, <1>8, <1>9 DEF RepackNext

\* For every header length, every number of revisions and shards: what goes up under a
\* manifest is the whole payload of its revision, with every tensor aligned.
THEOREM UploadsAreAligned == RepackSpec => PublishedIsAligned
  <1>1. RepackInit => RepackInv
    <2> SUFFICES ASSUME RepackInit PROVE RepackInv
      OBVIOUS
    <2>1. NothingAligned \in [RepackShards -> [payload : Nat, header : Nat]]
      BY DEF NothingAligned, Nothing
    <2> QED
      BY <2>1, RevisionsOfTheSource DEF RepackInit, RepackInv, NoManifest
  <1>2. RepackInv /\ [RepackNext]_repackVars =>
            (uploaded' # uploaded =>
                \A s \in manifest.shards :
                    /\ uploaded'[s].payload = manifest.payload
                    /\ Aligned(uploaded'[s].header, TensorAt[manifest.payload]))
    <2> SUFFICES ASSUME RepackInv, [RepackNext]_repackVars, uploaded' # uploaded,
                        NEW s \in manifest.shards
                 PROVE  /\ uploaded'[s].payload = manifest.payload
                        /\ Aligned(uploaded'[s].header, TensorAt[manifest.payload])
      OBVIOUS
    <2>1. Upload
      BY DEF RepackNext, BeginRepack, OpenShard, CopyPayload, VerifyRepacked, WriteManifest,
         RepackCrash, CheckPublish, Publisher, repackVars
    <2>2. uploaded' = aligned /\ PublishAllowed /\ Fits(manifest.payload)
      BY <2>1 DEF Upload, RepackInv
    <2>3. /\ aligned[s].header \in Nat
          /\ DataStart(aligned[s].header) % 8 = 0
          /\ aligned[s].payload = manifest.payload
      BY <2>2 DEF RepackInv, PublishAllowed
    <2>4. TensorAt[manifest.payload] \in [offset : Nat, size : {1, 2, 4, 8}]
      BY <2>2, TensorAtAssumption DEF Fits
    <2> QED
      BY <2>2, <2>3, <2>4, StartDoesNotMatter DEF Fits
  <1> QED
    BY <1>1, <1>2, RepackStep, PTL DEF RepackSpec, PublishedIsAligned

-----------------------------------------------------------------------------

\* While directories go, they are disposable ones, and no server that has been up since
\* the guard looked uses one.
CleanupInv ==
    /\ serving \in [CacheServers -> CacheDirs \cup {"off", "memory"}]
    /\ guardAt = "remove" =>
        /\ listed \subseteq Disposable
        /\ \A s \in seen : s \in CacheServers /\ Up(s) /\ serving[s] \notin CacheDirs

\* Servers that start and stop under the guard, and the guard's own steps.
LEMMA CleanupStep == CleanupInv /\ [CacheNext]_cacheVars => CleanupInv'
  <1> SUFFICES ASSUME CleanupInv, [CacheNext]_cacheVars PROVE CleanupInv'
    OBVIOUS
  <1> USE DEF CleanupInv, Up, Guard, Machine, ExitGuard
  <1>1. ASSUME NEW s \in CacheServers, NEW pid \in BOOLEAN, ServerStops(s, pid)
        PROVE  CleanupInv'
    BY <1>1 DEF ServerStops
  <1>2. ASSUME NEW s \in CacheServers, NEW pid \in BOOLEAN, NEW d \in CacheDirs \cup {"memory"},
               ServerStarts(s, d, pid)
        PROVE  CleanupInv'
    BY <1>2 DEF ServerStarts
  <1>3. ASSUME NEW c \in Commands, BeginCommand(c) PROVE CleanupInv'
    BY <1>3 DEF BeginCommand
  <1>4. CASE CheckDisk
    BY <1>4 DEF CheckDisk
  <1>5. CASE RefuseCommand
    BY <1>5 DEF RefuseCommand
  <1>6. CASE LookForServers
    BY <1>6 DEF LookForServers, ServerActive, SafePath
  <1>7. ASSUME NEW e \in Entries, NEW works \in BOOLEAN, RemoveChild(e, works)
        PROVE  CleanupInv'
    BY <1>7 DEF RemoveChild
  <1>8. CASE EndCommand
    BY <1>8 DEF EndCommand
  <1>9. CASE UNCHANGED cacheVars
    BY <1>9 DEF cacheVars
  <1> QED
    BY <1>1, <1>2, <1>3, <1>4, <1>5, <1>6, <1>7, <1>8, <1>9 DEF CacheNext

\* For every number of servers and commands: a removal spares what is protected and the
\* cache of every server that has been up since the guard looked.
THEOREM RemovalsAreSafe == CacheSpec => RemovalIsSafe
  <1>1. CacheInit => CleanupInv
    BY DEF CacheInit, CleanupInv
  <1>2. CleanupInv /\ [CacheNext]_cacheVars =>
            \A e \in entries \ entries' :
                /\ e \in CacheDirs \cap Disposable
                /\ \A s \in seen : serving[s] # e
    <2> SUFFICES ASSUME CleanupInv, [CacheNext]_cacheVars, NEW e \in entries \ entries'
                 PROVE  /\ e \in CacheDirs \cap Disposable
                        /\ \A s \in seen : serving[s] # e
      OBVIOUS
    <2>1. \E g \in Entries, works \in BOOLEAN : RemoveChild(g, works)
      BY DEF CacheNext, ServerStops, ServerStarts, BeginCommand, CheckDisk, RefuseCommand,
         LookForServers, EndCommand, Machine, cacheVars
    <2>2. guardAt = "remove" /\ e \in listed /\ e \in CacheDirs
      BY <2>1 DEF RemoveChild
    <2> QED
      BY <2>2 DEF CleanupInv
  <1> QED
    BY <1>1, <1>2, CleanupStep, PTL DEF CacheSpec, RemovalIsSafe

-----------------------------------------------------------------------------
(* JanghAdapter, QuantConversion                                           *)

\* The parts that are there when the tool is about to write one.
Before == [directory |-> {}, links |-> {"directory"}, config |-> {"directory", "links"},
           raw |-> {"directory", "links", "config"},
           bundle |-> {"directory", "links", "config", "raw"},
           manifest |-> {"directory", "links", "config", "raw", "bundle"}]

\* A run that writes has found the three inputs in agreement, and began with nothing.
JanghInv ==
    /\ jangh \in JanghBundles
    /\ janghAt \in JanghParts \cup {"done"} =>
           PartitionHolds(jangh) /\ HeadersHold(jangh) /\ ArchitectureHolds(jangh)
    /\ janghAt \in JanghParts => adapter = Before[janghAt]
    /\ janghAt \in {"raw", "bundle", "manifest", "done"} => skipped = jangh.packed
    /\ janghAt = "done" => adapter = JanghParts

\* Neighbours that do not overlap are enough: a bank is one or two units long.
LEMMA BanksAreApart ==
    ASSUME NEW b \in JanghBundles, HeadersHold(b), NEW n \in b.banks, NEW k \in b.banks, n < k
    PROVE  Span(b, n).end <= Span(b, k).first
  <1>1. n \in Int /\ k \in Int /\ b.ends \in {1, 2}
    BY LayersAssumption DEF JanghBundles
  <1>2. CASE n + 1 \in b.banks
    BY <1>1, <1>2 DEF HeadersHold, Span
  <1>3. CASE n + 1 \notin b.banks
    <2>1. k # n + 1
      BY <1>3
    <2> QED
      BY <1>1, <2>1 DEF Span
  <1> QED
    BY <1>2, <1>3

\* Whatever the runs, the crashes and the inputs, a manifest in a finished run stands in
\* a whole adapter that skips exactly the layers whose banks the shards hold.
THEOREM AdaptersAreWhole == JanghSpec => []AdapterIsWhole
  <1>1. JanghInit => JanghInv
    BY DEF JanghInit, JanghInv, JanghBundles, NoBundle, JanghParts
  <1>2. JanghInv /\ [JanghNext]_janghVars => JanghInv'
    <2> SUFFICES ASSUME JanghInv, [JanghNext]_janghVars PROVE JanghInv'
      OBVIOUS
    <2>1. ASSUME NEW b \in JanghBundles, BeginAdapter(b) PROVE JanghInv'
      BY <2>1 DEF BeginAdapter, JanghInv, JanghParts
    <2>2. CASE CheckBundle
      BY <2>2 DEF CheckBundle, JanghInv, JanghParts, Before
    <2>3. CASE WriteAdapter
      <3>1. adapter' = adapter \cup {janghAt} /\ janghAt' = NextJangh[janghAt]
        BY <2>3 DEF WriteAdapter
      <3>2. janghAt' \in JanghParts => adapter' = Before[janghAt']
        BY <2>3, <3>1 DEF WriteAdapter, JanghInv, JanghParts, Before, NextJangh
      <3>3. janghAt' = "done" => adapter' = JanghParts
        BY <2>3, <3>1 DEF WriteAdapter, JanghInv, JanghParts, Before, NextJangh
      <3>4. janghAt' \in {"raw", "bundle", "manifest", "done"} => skipped' = jangh'.packed
        BY <2>3, <3>1 DEF WriteAdapter, JanghInv, JanghParts, NextJangh
      <3> QED
        BY <2>3, <3>2, <3>3, <3>4 DEF WriteAdapter, JanghInv, PartitionHolds, HeadersHold,
           ArchitectureHolds, Span
    <2>4. CASE AdapterCrash
      BY <2>4 DEF AdapterCrash, JanghInv, JanghParts
    <2>5. CASE ReplaceSidecar
      BY <2>5 DEF ReplaceSidecar, JanghInv
    <2>6. CASE UNCHANGED janghVars
      BY <2>6 DEF janghVars, JanghInv
    <2> QED
      BY <2>1, <2>2, <2>3, <2>4, <2>5, <2>6 DEF JanghNext
  <1>3. JanghInv => AdapterIsWhole
    <2> SUFFICES ASSUME JanghInv, janghAt = "done" PROVE AdapterIsWhole
      BY DEF AdapterIsWhole
    <2>1. skipped = jangh.banks
      BY DEF JanghInv, PartitionHolds, ArchitectureHolds
    <2> QED
      BY <2>1, BanksAreApart DEF JanghInv, AdapterIsWhole
  <1> QED
    BY <1>1, <1>2, <1>3, PTL DEF JanghSpec

-----------------------------------------------------------------------------

\* With the output outside the source: a conversion starts from a whole source, an absent
\* output and no provenance, and what follows the validation has a whole output.
ConvertInv ==
    layout = "apart" \/ convAt = "fresh" =>
        /\ convAt \in {"fresh", "converting", "converted"} => provOf = "none" /\ source = "whole"
        /\ convAt = "converted" => output \in {"absent", "whole"}
        /\ convAt \in {"deleting", "recording"} => output = "whole"
        /\ provOf # "none" => output = "whole"
        /\ source # "whole" => output = "whole"

\* A converter that stops at any point, a crash and a repeated run leave a provenance
\* file only beside a complete output, and a source that lost a file only with one.
THEOREM ConversionsAreHonest == ConvertSpec => []ConversionIsHonest
  <1>1. ConvertInit => ConvertInv
    BY DEF ConvertInit, ConvertInv
  <1>2. ConvertInv /\ [ConvertNext]_convVars => ConvertInv'
    <2> SUFFICES ASSUME ConvertInv, [ConvertNext]_convVars PROVE ConvertInv'
      OBVIOUS
    <2> USE DEF ConvertInv, Conversion, Dirs, ExitConversion
    <2>1. ASSUME NEW origin \in Kinds, NEW lay \in Layouts, NEW flags \in Flags,
                 BeginConversion(origin, lay, flags)
          PROVE  ConvertInv'
      BY <2>1 DEF BeginConversion
    <2>2. CASE DecidePlan
      <3>1. convAt' = "converting" => output = "absent"
        BY <2>2 DEF DecidePlan, Plan, OutputEmpty
      <3> QED
        BY <2>2, <3>1 DEF DecidePlan
    <2>3. CASE ConverterWrites
      BY <2>3 DEF ConverterWrites
    <2>4. CASE ConverterFails
      BY <2>4 DEF ConverterFails
    <2>5. CASE ConverterSucceeds
      BY <2>5 DEF ConverterSucceeds
    <2>6. CASE OutputInvalid
      BY <2>6 DEF OutputInvalid
    <2>7. CASE OutputValid
      BY <2>7 DEF OutputValid, AfterValidation
    <2>8. CASE DeleteSource
      BY <2>8 DEF DeleteSource
    <2>9. CASE DeletionEnds
      BY <2>9 DEF DeletionEnds
    <2>10. CASE WriteProvenance
      BY <2>10 DEF WriteProvenance
    <2>11. CASE ConversionCrash
      BY <2>11 DEF ConversionCrash
    <2>12. CASE UNCHANGED convVars
      BY <2>12 DEF convVars
    <2> QED
      BY <2>1, <2>2, <2>3, <2>4, <2>5, <2>6, <2>7, <2>8, <2>9, <2>10, <2>11, <2>12
         DEF ConvertNext
  <1>3. ConvertInv => ConversionIsHonest
    BY DEF ConvertInv, ConversionIsHonest
  <1> QED
    BY <1>1, <1>2, <1>3, PTL DEF ConvertSpec

-----------------------------------------------------------------------------
(* TextExport                                                              *)

Positions == {"outside", "checked", "refused", "shards", "sidecars", "config", "manifest",
              "failed", "crashed", "done"}
BuildSteps == {"shards", "sidecars", "config", "manifest"}

\* A build is a map from retained shards to versions, and the parts written after them.
BuildOK ==
    build.there =>
        /\ build = [there |-> TRUE, content |-> build.content, rest |-> build.rest]
        /\ build.content = [s \in DOMAIN build.content |-> build.content[s]]
        /\ DOMAIN build.content \subseteq Kept

\* What is in the build when a run is at a position.
Written == [shards |-> {}, sidecars |-> {"sidecars"}, config |-> {"sidecars", "config"},
            manifest |-> {"sidecars", "config", "manifest"}]

\* The manifest of a run has the hashes of what the build holds.
DigestOK(p) ==
    /\ exportAt[p] \in {"outside", "checked"} => digest[p] = NoDigest
    /\ exportAt[p] \in BuildSteps =>
           /\ build.there
           /\ build.rest = Written[exportAt[p]]
           /\ DOMAIN digest[p] \subseteq DOMAIN build.content
           /\ \A s \in DOMAIN digest[p] : ~Linked(s) => digest[p][s] = build.content[s]
           /\ exportAt[p] # "shards" => DOMAIN digest[p] = Kept

ExportInv ==
    /\ exportAt \in [Exporters -> Positions]
    /\ digest = [p \in Exporters |-> digest[p]]
    /\ build.there \in BOOLEAN
    /\ BuildOK
    /\ \A p \in Exporters : DigestOK(p)
    /\ \A p, q \in Exporters : exportAt[p] \in BuildSteps /\ exportAt[q] \in BuildSteps => p = q
    /\ \A p \in Exporters : exportAt[p] \notin {"outside", "refused"} =>
                                tensorsKnown /\ metadataAgrees
    /\ published.there => \E p \in Exporters : exportAt[p] = "done"
    /\ ExportIsWhole

\* A build that is missing is not there.
LEMMA MissingIsNotThere == Missing.there = FALSE
  BY DEF Missing

\* A run is building at the four positions that have a build.
LEMMA BuildingPositions == \A p : Building(p) <=> exportAt[p] \in BuildSteps
  BY DEF Building, BuildSteps, NextPart

\* A run that goes where nothing is built leaves the other runs' invariant alone.
LEMMA LeaveBuild ==
    ASSUME ExportInv, NEW p \in Exporters, NEW to \in Positions \ (BuildSteps \cup {"outside", "checked"}),
           Go(p, to), build' = build \/ (build' = Missing /\ exportAt[p] \in BuildSteps),
           to \in {"refused", "done"} \/ exportAt[p] \in BuildSteps \cup {"checked"},
           to = "done" => exportAt[p] = "manifest",
           exportAt[p] # "done",
           UNCHANGED <<Bundle, digest>>,
           published' = published \/ to = "done",
           published'.there => \E q \in Exporters : exportAt'[q] = "done",
           ExportIsWhole'
    PROVE  ExportInv'
  <1> USE DEF ExportInv, Bundle, Go
  <1>1. exportAt' \in [Exporters -> Positions]
    OBVIOUS
  <1>2. BuildOK' /\ build'.there \in BOOLEAN
    <2>1. CASE build' = build
      BY <2>1 DEF BuildOK
    <2>2. CASE build' = Missing
      <3>1. build'.there = FALSE
        BY <2>2, MissingIsNotThere
      <3> QED
        BY <3>1 DEF BuildOK
    <2> QED
      BY <2>1, <2>2
  <1>3. ASSUME NEW q \in Exporters PROVE DigestOK(q)'
    <2>1. CASE q = p
      BY <2>1 DEF DigestOK
    <2>2. CASE q # p
      <3>1. exportAt'[q] = exportAt[q] /\ (exportAt[q] \in BuildSteps => build' = build)
        BY <2>2
      <3> QED
        BY <3>1 DEF DigestOK, Linked
    <2> QED
      BY <2>1, <2>2
  <1>4. \A q \in Exporters : exportAt'[q] \notin {"outside", "refused"} =>
            tensorsKnown' /\ metadataAgrees'
    BY DEF BuildSteps
  <1>5. \A q, r \in Exporters : exportAt'[q] \in BuildSteps /\ exportAt'[r] \in BuildSteps => q = r
    OBVIOUS
  <1> QED
    BY <1>1, <1>2, <1>3, <1>4, <1>5

\* The steps of a run keep the invariant.
LEMMA ExportRunInv ==
    ASSUME ExportInv, NEW p \in Exporters,
           \/ CheckInputs(p) \/ MakeBuild(p)
           \/ \E s \in SourceShards : WriteShard(p, s) \/ VerifyShard(p, s)
           \/ WriteRest(p) \/ Publish(p) \/ ExportRaises(p) \/ ExportCrash(p)
    PROVE  ExportInv'
  <1>0. /\ exportAt \in [Exporters -> Positions]
        /\ \A q \in Exporters : DigestOK(q)
        /\ \A q, r \in Exporters : exportAt[q] \in BuildSteps /\ exportAt[r] \in BuildSteps => q = r
    BY DEF ExportInv
  <1>1. CASE CheckInputs(p)
    BY <1>1, <1>0 DEF CheckInputs, ExportInv, Go, Bundle, BuildOK, DigestOK, Positions, BuildSteps,
       ExportIsWhole, Linked
  <1>2. CASE MakeBuild(p)
    <2>1. CASE build.there
      <3>1. ExportIsWhole' /\ (published'.there => \E q \in Exporters : exportAt'[q] = "done")
        BY <1>2, <2>1 DEF MakeBuild, ExportInv, ExportIsWhole, Bundle, Linked, Go
      <3> QED
        BY <1>2, <2>1, <3>1, LeaveBuild DEF MakeBuild, Positions, BuildSteps
    <2>2. CASE ~build.there
      <3>1. Go(p, "shards") /\ build' = EmptyBuild /\ UNCHANGED <<Bundle, digest, published>>
        BY <1>2, <2>2 DEF MakeBuild
      <3>2. BuildOK' /\ build'.there /\ build'.rest = {} /\ DOMAIN build'.content = {}
        BY <3>1 DEF EmptyBuild, BuildOK
      <3>3. \A q \in Exporters : exportAt[q] \notin BuildSteps
        BY <1>0, <2>2 DEF DigestOK
      <3>4. exportAt' = [exportAt EXCEPT ![p] = "shards"] /\ exportAt[p] = "checked"
        BY <1>2, <3>1 DEF MakeBuild, Go
      <3>5. ASSUME NEW q \in Exporters PROVE DigestOK(q)'
        <4>1. CASE q = p
          <5>1. digest'[p] = NoDigest
            BY <1>0, <3>1, <3>4 DEF DigestOK
          <5>2. DOMAIN NoDigest = {}
            BY DEF NoDigest
          <5> QED
            BY <3>2, <3>4, <4>1, <5>1, <5>2, <1>0 DEF DigestOK, Written
        <4>2. CASE q # p
          BY <1>0, <3>1, <3>3, <3>4, <4>2 DEF DigestOK
        <4> QED
          BY <4>1, <4>2
      <3>6. ExportIsWhole'
        BY <3>1 DEF ExportInv, ExportIsWhole, Bundle, Linked
      <3> QED
        BY <1>0, <3>1, <3>2, <3>3, <3>4, <3>5, <3>6 DEF ExportInv, Bundle, Positions
    <2> QED
      BY <2>1, <2>2
  <1>3. ASSUME NEW s \in SourceShards, WriteShard(p, s) PROVE ExportInv'
    <2> DEFINE c == With(build.content, s, version[s])
    <2>1. exportAt[p] = "shards" /\ s \in Kept \ DOMAIN build.content
      BY <1>3 DEF WriteShard
    <2>2. build.there /\ BuildOK
      BY <1>0, <2>1 DEF DigestOK, BuildSteps, ExportInv
    <2>3. build' = [there |-> TRUE, content |-> c, rest |-> build.rest]
      BY <1>3, <2>2 DEF WriteShard, BuildOK
    <2>4. /\ DOMAIN c = DOMAIN build.content \cup {s}
          /\ \A x \in DOMAIN build.content : c[x] = build.content[x]
          /\ c = [x \in DOMAIN c |-> c[x]]
      BY <2>1 DEF With
    <2> HIDE DEF c
    <2>5. BuildOK' /\ build'.there
      BY <2>1, <2>2, <2>3, <2>4 DEF BuildOK
    <2>6. ASSUME NEW q \in Exporters PROVE DigestOK(q)'
      BY <1>0, <1>3, <2>3, <2>4 DEF WriteShard, DigestOK, Linked
    <2>7. ExportIsWhole'
      BY <1>3 DEF WriteShard, ExportInv, ExportIsWhole, Bundle, Linked
    <2> QED
      BY <1>3, <2>5, <2>6, <2>7 DEF WriteShard, ExportInv, Bundle
  <1>4. ASSUME NEW s \in SourceShards, VerifyShard(p, s) PROVE ExportInv'
    <2>1. exportAt[p] = "shards" /\ s \in DOMAIN build.content \ DOMAIN digest[p]
      BY <1>4 DEF VerifyShard
    <2>2. CASE Content(build, s) = version[s]
      <3> DEFINE d == With(digest[p], s, version[s])
      <3>1. digest' = [digest EXCEPT ![p] = d] /\ UNCHANGED <<Bundle, exportAt, build, published>>
        BY <1>4, <2>2 DEF VerifyShard
      <3>2. /\ DOMAIN d = DOMAIN digest[p] \cup {s}
            /\ d[s] = version[s]
            /\ \A x \in DOMAIN digest[p] : d[x] = digest[p][x]
        BY <2>1 DEF With
      <3> HIDE DEF d
      <3>3. ~Linked(s) => d[s] = build.content[s]
        BY <2>2, <3>2 DEF Content
      <3>4. digest' = [q \in Exporters |-> digest'[q]]
        BY <3>1 DEF ExportInv
      <3>5. ASSUME NEW q \in Exporters PROVE DigestOK(q)'
        <4>1. CASE q = p
          <5>1. digest'[p] = d
            BY <3>1 DEF ExportInv
          <5>2. \A x \in DOMAIN d : ~Linked(x) => d[x] = build.content[x]
            BY <1>0, <2>1, <3>2, <3>3 DEF DigestOK, BuildSteps
          <5> QED
            BY <1>0, <2>1, <3>1, <3>2, <4>1, <5>1, <5>2 DEF DigestOK, BuildSteps, Linked
        <4>2. CASE q # p
          <5>1. digest'[q] = digest[q]
            BY <3>1, <4>2 DEF ExportInv
          <5> QED
            BY <1>0, <3>1, <5>1 DEF DigestOK, Linked
        <4> QED
          BY <4>1, <4>2
      <3>6. ExportIsWhole'
        BY <3>1 DEF ExportInv, ExportIsWhole, Bundle, Linked
      <3> QED
        BY <3>1, <3>4, <3>5, <3>6 DEF ExportInv, Bundle, BuildOK
    <2>3. CASE Content(build, s) # version[s]
      <3>1. ExportIsWhole' /\ (published'.there => \E q \in Exporters : exportAt'[q] = "done")
        BY <1>4, <2>1, <2>3 DEF VerifyShard, Abort, Go, ExportInv, ExportIsWhole, Bundle, Linked
      <3> QED
        BY <1>4, <2>1, <2>3, <3>1, LeaveBuild DEF VerifyShard, Abort, Positions, BuildSteps
    <2> QED
      BY <2>2, <2>3
  <1>5. CASE WriteRest(p)
    <2> DEFINE to == NextPart[exportAt[p]]
    <2>1. /\ exportAt[p] \in {"shards", "sidecars", "config"}
          /\ exportAt[p] = "shards" => DOMAIN digest[p] = Kept
      BY <1>5 DEF WriteRest, NextPart
    <2>2. build.there /\ BuildOK /\ DigestOK(p)
      BY <1>0, <2>1 DEF DigestOK, BuildSteps, ExportInv
    <2>3. build' = [there |-> TRUE, content |-> build.content, rest |-> build.rest \cup {to}]
      BY <1>5, <2>2 DEF WriteRest, BuildOK
    <2>4. exportAt' = [exportAt EXCEPT ![p] = to] /\ UNCHANGED <<Bundle, digest, published>>
      BY <1>5 DEF WriteRest, Go
    <2>5. to \in {"sidecars", "config", "manifest"} /\ build.rest \cup {to} = Written[to]
      BY <2>1, <2>2 DEF DigestOK, BuildSteps, Written, NextPart
    <2> HIDE DEF to
    <2>6. DOMAIN digest[p] = Kept
      BY <2>1, <2>2 DEF DigestOK, BuildSteps
    <2>7. BuildOK' /\ build'.there
      BY <2>2, <2>3 DEF BuildOK
    <2>8. ASSUME NEW q \in Exporters PROVE DigestOK(q)'
      <3>1. CASE q = p
        BY <1>0, <2>1, <2>2, <2>3, <2>4, <2>5, <2>6, <3>1 DEF DigestOK, BuildSteps, Linked
      <3>2. CASE q # p
        <4>1. exportAt'[q] = exportAt[q] /\ exportAt[q] \notin BuildSteps
          BY <1>0, <2>1, <2>4, <3>2 DEF BuildSteps
        <4> QED
          BY <1>0, <2>4, <4>1 DEF DigestOK
      <3> QED
        BY <3>1, <3>2
    <2>9. ExportIsWhole' /\ (published'.there => \E q \in Exporters : exportAt'[q] = "done")
      BY <2>1, <2>4 DEF ExportInv, ExportIsWhole, Bundle, Linked
    <2>10. exportAt' \in [Exporters -> Positions]
      BY <1>0, <2>4, <2>5 DEF Positions
    <2>11. \A q, r \in Exporters : exportAt'[q] \in BuildSteps /\ exportAt'[r] \in BuildSteps => q = r
      BY <1>0, <2>1, <2>4 DEF BuildSteps
    <2> QED
      BY <2>1, <2>4, <2>7, <2>8, <2>9, <2>10, <2>11 DEF ExportInv, Bundle
  <1>6. CASE Publish(p)
    <2>1. exportAt[p] = "manifest" /\ UNCHANGED <<Bundle, digest>>
      BY <1>6 DEF Publish
    <2>2. CASE published.there
      <3>1. ExportIsWhole' /\ (published'.there => \E q \in Exporters : exportAt'[q] = "done")
        BY <1>6, <2>1, <2>2 DEF Publish, Abort, Go, ExportInv, ExportIsWhole, Bundle, Linked
      <3> QED
        BY <1>6, <2>1, <2>2, <3>1, LeaveBuild DEF Publish, Abort, Positions, BuildSteps
    <2>3. CASE ~published.there
      <3>1. /\ published' = [there |-> TRUE, content |-> build.content,
                             rest |-> build.rest, manifest |-> digest[p]]
            /\ build' = Missing
            /\ Go(p, "done")
        BY <1>6, <2>3 DEF Publish
      <3>2. /\ DigestOK(p) /\ BuildOK /\ build.there
            /\ tensorsKnown /\ metadataAgrees
        BY <2>1, <1>0 DEF ExportInv, DigestOK, BuildSteps
      <3>3. DOMAIN digest[p] = Kept /\ DOMAIN build.content = Kept
        BY <2>1, <3>2 DEF DigestOK, BuildOK, BuildSteps
      <3>4. \A s \in Kept : ~Linked(s) => digest[p][s] = build.content[s]
        BY <2>1, <3>2, <3>3 DEF DigestOK, BuildSteps
      <3>5. ExportIsWhole'
        BY <2>1, <3>1, <3>2, <3>3, <3>4 DEF ExportIsWhole, DigestOK, BuildSteps, Written, Bundle,
           Linked
      <3>6. exportAt'[p] = "done"
        BY <1>0, <3>1 DEF Go
      <3> QED
        BY <2>1, <3>1, <3>5, <3>6, LeaveBuild DEF Positions, BuildSteps
    <2> QED
      BY <2>2, <2>3
  <1>7. CASE ExportRaises(p)
    <2>1. exportAt[p] \in BuildSteps
      BY <1>7, BuildingPositions DEF ExportRaises
    <2>2. ExportIsWhole' /\ (published'.there => \E q \in Exporters : exportAt'[q] = "done")
      BY <1>7, <2>1 DEF ExportRaises, Abort, Go, ExportInv, ExportIsWhole, Bundle, Linked, BuildSteps
    <2> QED
      BY <1>7, <2>1, <2>2, LeaveBuild DEF ExportRaises, Abort, Positions, BuildSteps
  <1>8. CASE ExportCrash(p)
    <2>1. exportAt[p] \in BuildSteps \cup {"checked"}
      BY <1>8, BuildingPositions DEF ExportCrash
    <2>2. ExportIsWhole' /\ (published'.there => \E q \in Exporters : exportAt'[q] = "done")
      BY <1>8, <2>1 DEF ExportCrash, Go, ExportInv, ExportIsWhole, Bundle, Linked, BuildSteps
    <2> QED
      BY <1>8, <2>1, <2>2, LeaveBuild DEF ExportCrash, Positions, BuildSteps
  <1> QED
    BY <1>1, <1>2, <1>3, <1>4, <1>5, <1>6, <1>7, <1>8

\* For every number of exporters, shards and rewrites of the source: the destination
\* appears whole, with a manifest that is true of the shards that were written out.
THEOREM ExportsAreWhole == ExportSpec => []ExportIsWhole
  <1>1. ExportInit => ExportInv
    BY DEF ExportInit, ExportInv, Positions, BuildSteps, Missing, BuildOK, DigestOK, ExportIsWhole
  <1>2. ExportInv /\ [ExportNext]_exportVars => ExportInv'
    <2> SUFFICES ASSUME ExportInv, [ExportNext]_exportVars PROVE ExportInv'
      OBVIOUS
    <2>1. ASSUME NEW k \in BOOLEAN, NEW m \in BOOLEAN, ChooseSource(k, m) PROVE ExportInv'
      <3>1. ~published.there
        BY <2>1 DEF ChooseSource, ExportInv
      <3> QED
        BY <2>1, <3>1 DEF ChooseSource, ExportInv, BuildOK, DigestOK, ExportIsWhole, Linked
    <2>2. ASSUME NEW s \in SourceShards, RewriteSource(s) PROVE ExportInv'
      BY <2>2 DEF RewriteSource, ExportInv, BuildOK, DigestOK, ExportIsWhole, Linked
    <2>3. CASE UNCHANGED exportVars
      BY <2>3 DEF exportVars, ExportInv, BuildOK, DigestOK, ExportIsWhole, Linked
    <2> QED
      BY <2>1, <2>2, <2>3, ExportRunInv DEF ExportNext
  <1>3. ExportInv => ExportIsWhole
    BY DEF ExportInv
  <1> QED
    BY <1>1, <1>2, <1>3, PTL DEF ExportSpec

-----------------------------------------------------------------------------
(* MeasurementCycle                                                        *)

MeasureKinds == {"sweep", "ceiling"}
BeforeServer == {"none", "verify", "gate", "prepare", "start"}
DriverPositions == BeforeServer \cup {"wait", "rows", "clean", "contended", "next", "stop",
                                      "dying", "ended"}
MeasuredRows == [by : MeasuredServers \cup {NoServer}, passed : BOOLEAN, contended : BOOLEAN]

CycleTypeOK ==
    /\ cycleAt \in {"idle", "waiting"} \cup Waits
    /\ cyclePhase \in 0..DriverBound
    /\ kind \in [DriverRuns -> MeasureKinds]
    /\ driverAt \in [DriverRuns -> DriverPositions]
    /\ cell \in [DriverRuns -> SweepCells]
    /\ server \in [MeasuredServers -> {"none", "booting", "up", "dead"}]
    /\ listens \in [MeasureKinds -> MeasuredServers \cup {NoServer}]
    /\ rows \in [MeasuredServers -> Seq(MeasuredRows)]
    /\ artifact \in [DriverRuns -> SUBSET SweepCells]
    /\ verdict \in [DriverRuns -> {"none", "passed", "failed"}]

\* What driver d has done so far: cells behind it are empty or complete, cells ahead are
\* untouched, and a verdict "passed" is the last thing it wrote.
Progress(d) ==
    /\ d > cyclePhase => driverAt[d] = "none"
    /\ cell[d] \in CellsOf(kind[d]) /\ (driverAt[d] = "none" => cell[d] = 1)
    /\ \A c \in SweepCells : c > cell[d] => rows[<<d, c>>] = << >> /\ server[<<d, c>>] = "none"
    /\ \A c \in SweepCells : c < cell[d] => Len(rows[<<d, c>>]) \in {0, RowsOf(kind[d])}
    /\ driverAt[d] \in BeforeServer => rows[Own(d)] = << >> /\ server[Own(d)] = "none"
    /\ driverAt[d] = "wait" => rows[Own(d)] = << >>
    /\ driverAt[d] = "rows" => Len(rows[Own(d)]) <= RowsOf(kind[d])
    /\ driverAt[d] \in {"clean", "contended"} => Len(rows[Own(d)]) < RowsOf(kind[d])
    /\ driverAt[d] = "next" => Len(rows[Own(d)]) \in {0, RowsOf(kind[d])}
    /\ verdict[d] = "passed" =>
           /\ driverAt[d] \in {"stop", "ended", "dying"}
           /\ \A c \in CellsOf(kind[d]) :
                /\ c \in artifact[d]
                /\ Len(rows[<<d, c>>]) = RowsOf(kind[d])
                /\ \A i \in DOMAIN rows[<<d, c>>] : rows[<<d, c>>][i].passed

\* Who listens is up, and on the port of its kind.
Ports ==
    \A k \in MeasureKinds : listens[k] # NoServer =>
        server[listens[k]] = "up" /\ Of(listens[k]) = k

\* As long as the operator interrupted nothing, one driver is at work, ...
Alone == interrupted = {} => \A d \in DriverRuns : Alive(d) => d = cyclePhase /\ cycleAt # "idle"

\* ... and a ceiling that found no foreign server has none until its row is asked.
Uncontended ==
    interrupted = {} =>
        \A d \in DriverRuns : driverAt[d] = "clean" /\ kind[d] = "ceiling" =>
            \A s \in MeasuredServers : Of(s) = "ceiling" /\ Running(s) => s = Own(d)

CycleInv ==
    /\ CycleTypeOK
    /\ \A d \in DriverRuns : Progress(d)
    /\ Ports
    /\ Alone
    /\ Uncontended
    /\ CleanCeilingRowsAreOwn

-----------------------------------------------------------------------------
(* The matrix                                                              *)

\* Cells and rows are numbered from 1, and a cell has at least one row.
LEMMA Matrix ==
    /\ DriverBound \in Nat /\ CellCount \in Nat /\ CellCount >= 1
    /\ 1 \in SweepCells /\ SweepCells \subseteq Nat /\ DriverRuns \subseteq Nat
    /\ \A k : RowsOf(k) \in Nat /\ RowsOf(k) >= 1
    /\ \A k : CellsOf(k) \subseteq SweepCells
    /\ \A d \in DriverRuns : d # 0
  BY DriverBoundAssumption, MatrixAssumption
     DEF SweepCells, DriverRuns, RowsOf, CellsOf

\* A driver's server is a server, and nobody's is NoServer.
LEMMA OwnServer ==
    /\ \A d \in DriverRuns, c \in SweepCells : <<d, c>> \in MeasuredServers
    /\ \A s \in MeasuredServers : s = <<s[1], s[2]>> /\ s[1] \in DriverRuns /\ s[2] \in SweepCells
    /\ NoServer \notin MeasuredServers
    /\ \A d, e, b, c : <<d, b>> = <<e, c>> => d = e /\ b = c
  BY Matrix DEF MeasuredServers, NoServer

\* The servers of the other drivers are not a driver's own.
LEMMA OthersServers ==
    \A d, e \in DriverRuns : d # e => \A c \in SweepCells : <<e, c>> \in MeasuredServers \ {Own(d)}
  BY OwnServer DEF Own

-----------------------------------------------------------------------------
(* Frames                                                                  *)

\* A driver that does nothing, or is killed, has done what it had done, while servers die.
LEMMA FrameProgress ==
    ASSUME CycleInv, NEW d \in DriverRuns,
           driverAt'[d] \in {driverAt[d], "ended", "dying"},
           d > cyclePhase' => d > cyclePhase /\ driverAt'[d] = driverAt[d],
           kind'[d] = kind[d], cell'[d] = cell[d], verdict'[d] = verdict[d],
           artifact'[d] = artifact[d],
           \A c \in SweepCells : rows'[<<d, c>>] = rows[<<d, c>>],
           \A c \in SweepCells : server[<<d, c>>] = "none" => server'[<<d, c>>] = "none"
    PROVE  Progress(d)'
  <1>1. Progress(d) /\ cell[d] \in SweepCells
    BY DEF CycleInv, CycleTypeOK
  <1> QED
    BY <1>1, Matrix DEF Progress, Own, BeforeServer

\* Servers that die or leave the port stay consistent with it.
LEMMA ServersGo ==
    ASSUME CycleInv, server' \in [MeasuredServers -> {"none", "booting", "up", "dead"}],
           \A s \in MeasuredServers : server'[s] \in {server[s], "dead"},
           listens' \in [MeasureKinds -> MeasuredServers \cup {NoServer}],
           \A k \in MeasureKinds : listens'[k] = NoServer \/
               (listens'[k] = listens[k] /\ server'[listens[k]] = server[listens[k]]),
           UNCHANGED kind,
           interrupted' = {} => interrupted = {},
           \A d \in DriverRuns : driverAt'[d] = "clean" => driverAt[d] = "clean" /\ cell'[d] = cell[d]
    PROVE  Ports' /\ Uncontended'
  <1>1. Ports'
    BY DEF CycleInv, Ports, Of
  <1>2. Uncontended'
    <2> SUFFICES ASSUME interrupted' = {}, NEW d \in DriverRuns,
                        driverAt'[d] = "clean", kind'[d] = "ceiling",
                        NEW s \in MeasuredServers, Of(s)' = "ceiling", Running(s)'
                 PROVE  s = Own(d)'
      BY DEF Uncontended
    <2>1. driverAt[d] = "clean" /\ kind[d] = "ceiling" /\ Own(d)' = Own(d) /\ interrupted = {}
      BY DEF Own
    <2>2. Of(s) = "ceiling" /\ Running(s)
      BY DEF Of, Running
    <2> QED
      BY <2>1, <2>2 DEF CycleInv, Uncontended
  <1> QED
    BY <1>1, <1>2

-----------------------------------------------------------------------------
(* The cycle                                                               *)

\* The initial state.
LEMMA CycleInitInv == CycleInit => CycleInv
  <1> SUFFICES ASSUME CycleInit PROVE CycleInv
    OBVIOUS
  <1>1. CycleTypeOK
    <2>1. << >> \in Seq(MeasuredRows)
      OBVIOUS
    <2> QED
      BY <2>1, Matrix DEF CycleInit, CycleTypeOK, MeasureKinds, DriverPositions, BeforeServer
  <1>2. ASSUME NEW d \in DriverRuns PROVE Progress(d)
    BY Matrix, OwnServer DEF CycleInit, Progress, Own, CellsOf, BeforeServer, SweepCells
  <1>3. Ports /\ Alone /\ Uncontended /\ CleanCeilingRowsAreOwn
    BY DEF CycleInit, Ports, Alone, Alive, Uncontended, CleanCeilingRowsAreOwn, MeasureKinds
  <1> QED
    BY <1>1, <1>2, <1>3 DEF CycleInv

\* A phase starts the next driver, which nobody has touched.
LEMMA StartPhaseInv ==
    ASSUME CycleInv, NEW k \in MeasureKinds, NEW force \in BOOLEAN, StartPhase(k, force)
    PROVE  CycleInv'
  <1> DEFINE n == cyclePhase + 1
  <1>1. /\ cycleAt = "idle" /\ cycleAt' = "waiting" /\ n \in DriverRuns /\ cyclePhase' = n
        /\ kind' = [kind EXCEPT ![n] = k]
        /\ driverAt' = [driverAt EXCEPT ![n] = IF k = "ceiling" THEN "verify" ELSE "gate"]
        /\ UNCHANGED <<cell, server, listens, rows, artifact, verdict, interrupted>>
    BY DEF StartPhase
  <1>2. CycleTypeOK /\ cyclePhase \in Nat /\ n \in Nat /\ n > cyclePhase
    BY Matrix DEF CycleInv, CycleTypeOK
  <1>3. CycleTypeOK'
    BY <1>1, <1>2, Matrix DEF CycleTypeOK, DriverPositions, BeforeServer, DriverRuns
  <1>4. /\ Progress(n) /\ driverAt[n] = "none" /\ cell[n] = 1 /\ verdict[n] # "passed"
        /\ \A c \in SweepCells : rows[<<n, c>>] = << >> /\ server[<<n, c>>] = "none"
    <2>1. Progress(n) /\ driverAt[n] = "none" /\ cell[n] = 1 /\ verdict[n] # "passed"
      BY <1>1, <1>2 DEF CycleInv, Progress
    <2>2. \A c \in SweepCells : c = 1 \/ c > 1
      BY DEF SweepCells
    <2> QED
      BY <2>1, <2>2 DEF Progress, Own, BeforeServer
  <1>5. ASSUME NEW d \in DriverRuns PROVE Progress(d)'
    <2>1. CASE d = n
      <3>1. driverAt'[n] \in {"verify", "gate"} /\ kind'[n] = k
        BY <1>1, <1>2 DEF CycleTypeOK
      <3> QED
        BY <1>1, <1>2, <1>4, <2>1, <3>1, Matrix
           DEF Progress, Own, BeforeServer, CellsOf, SweepCells
    <2>2. CASE d # n
      <3>1. driverAt'[d] = driverAt[d] /\ kind'[d] = kind[d]
        BY <1>1, <1>2, <2>2 DEF CycleTypeOK
      <3>2. d \in Nat
        BY Matrix
      <3> QED
        BY <1>1, <1>2, <2>2, <3>1, <3>2, FrameProgress
    <2> QED
      BY <2>1, <2>2
  <1>6. \A s \in MeasuredServers : s[1] = n => server[s] = "none" /\ rows[s] = << >>
    BY <1>4, OwnServer
  <1>7. \A s \in MeasuredServers : s[1] # n => Of(s)' = Of(s)
    BY <1>1, <1>2, OwnServer DEF Of, CycleTypeOK
  <1>8. Ports'
    BY <1>1, <1>2, <1>6, <1>7 DEF CycleInv, Ports, CycleTypeOK
  <1>9. Alone'
    BY <1>1, <1>2 DEF CycleInv, Alone, Alive, CycleTypeOK
  <1>10. Uncontended'
    <2>1. interrupted = {} => \A d \in DriverRuns : driverAt'[d] # "clean"
      BY <1>1, <1>2 DEF CycleInv, Alone, Alive, CycleTypeOK
    <2> QED
      BY <1>1, <2>1 DEF Uncontended
  <1>11. CleanCeilingRowsAreOwn'
    BY <1>1, <1>6, <1>7 DEF CycleInv, CleanCeilingRowsAreOwn
  <1> QED
    BY <1>3, <1>5, <1>8, <1>9, <1>10, <1>11 DEF CycleInv

\* The deadline, the kill and the end of a wait.
LEMMA SupervisorInv ==
    ASSUME CycleInv,
           \/ \E dead \in SUBSET MeasuredServers : Expire(dead)
           \/ KillGroup \/ SupervisorReturns \/ Interrupt
    PROVE  CycleInv'
  <1>0. CycleTypeOK /\ (\A d \in DriverRuns : Progress(d)) /\ CleanCeilingRowsAreOwn
    BY DEF CycleInv
  <1>1. ASSUME NEW dead \in SUBSET MeasuredServers, Expire(dead) PROVE CycleInv'
    <2>1. /\ cycleAt' = "terminated"
          /\ UNCHANGED <<cyclePhase, kind, cell, rows, artifact, verdict, interrupted>>
          /\ server' = [s \in MeasuredServers |-> IF s \in dead THEN "dead" ELSE server[s]]
          /\ listens' = [k \in DOMAIN listens |->
                           IF listens[k] \in dead THEN NoServer ELSE listens[k]]
          /\ \E exits \in BOOLEAN :
                driverAt' = [driverAt EXCEPT ![cyclePhase] = IF exits THEN "ended" ELSE "dying"]
          /\ cycleAt = "waiting" /\ Alive(cyclePhase)
      BY <1>1 DEF Expire
    <2>2. CycleTypeOK'
      BY <1>0, <2>1 DEF CycleTypeOK, Waits, DriverPositions
    <2>3. \A d \in DriverRuns : driverAt'[d] = driverAt[d] \/
              (d = cyclePhase /\ driverAt'[d] \in {"ended", "dying"})
      BY <1>0, <2>1 DEF CycleTypeOK
    <2>4. ASSUME NEW d \in DriverRuns PROVE Progress(d)'
      <3>1. \A c \in SweepCells : server[<<d, c>>] = "none" => server'[<<d, c>>] = "none"
        <4>1. \A s \in dead : server[s] # "none"
          BY <1>1 DEF Expire, Running
        <4> QED
          BY <2>1, <4>1, OwnServer
      <3>2. d \in Nat /\ cyclePhase \in Nat
        BY <1>0, Matrix DEF CycleTypeOK
      <3>3. d > cyclePhase => d # cyclePhase
        BY <3>2
      <3>4. driverAt'[d] \in {driverAt[d], "ended", "dying"}
        BY <2>3
      <3>5. d > cyclePhase' => d > cyclePhase /\ driverAt'[d] = driverAt[d]
        BY <2>1, <2>3, <3>3
      <3> QED
        BY <2>1, <3>1, <3>4, <3>5, FrameProgress
    <2>5. Ports' /\ Uncontended'
      BY <1>0, <2>1, <2>2, <2>3, ServersGo DEF CycleTypeOK
    <2>6. Alone'
      BY <2>1, <2>3 DEF CycleInv, Alone, Alive
    <2>7. CleanCeilingRowsAreOwn'
      BY <1>0, <2>1 DEF CleanCeilingRowsAreOwn, Of
    <2> QED
      BY <2>2, <2>4, <2>5, <2>6, <2>7 DEF CycleInv
  <1>2. CASE KillGroup
    <2>1. /\ cycleAt' = "killed"
          /\ UNCHANGED <<cyclePhase, kind, cell, rows, artifact, verdict, interrupted>>
          /\ server' = [s \in MeasuredServers |->
                          IF s[1] = cyclePhase /\ Running(s) THEN "dead" ELSE server[s]]
          /\ listens' = [k \in DOMAIN listens |->
                           IF listens[k][1] = cyclePhase THEN NoServer ELSE listens[k]]
          /\ driverAt' = [driverAt EXCEPT ![cyclePhase] = "ended"]
          /\ cycleAt = "terminated" /\ Alive(cyclePhase)
      BY <1>2 DEF KillGroup
    <2>2. CycleTypeOK'
      BY <1>0, <2>1 DEF CycleTypeOK, Waits, DriverPositions
    <2>3. \A d \in DriverRuns : driverAt'[d] = driverAt[d] \/
              (d = cyclePhase /\ driverAt'[d] = "ended")
      BY <1>0, <2>1 DEF CycleTypeOK
    <2>4. ASSUME NEW d \in DriverRuns PROVE Progress(d)'
      <3>1. \A c \in SweepCells : server[<<d, c>>] = "none" => server'[<<d, c>>] = "none"
        BY <2>1, OwnServer DEF Running
      <3>2. d \in Nat /\ cyclePhase \in Nat
        BY <1>0, Matrix DEF CycleTypeOK
      <3>3. d > cyclePhase => d # cyclePhase
        BY <3>2
      <3>4. driverAt'[d] \in {driverAt[d], "ended", "dying"}
        BY <2>3
      <3>5. d > cyclePhase' => d > cyclePhase /\ driverAt'[d] = driverAt[d]
        BY <2>1, <2>3, <3>3
      <3> QED
        BY <2>1, <3>1, <3>4, <3>5, FrameProgress
    <2>5. Ports' /\ Uncontended'
      <3>1. \A k \in MeasureKinds : listens'[k] = NoServer \/
               (listens'[k] = listens[k] /\ server'[listens[k]] = server[listens[k]])
        BY <1>0, <2>1 DEF CycleTypeOK
      <3> QED
        BY <1>0, <2>1, <2>2, <2>3, <3>1, ServersGo DEF CycleTypeOK
    <2>6. Alone'
      BY <2>1, <2>3 DEF CycleInv, Alone, Alive
    <2>7. CleanCeilingRowsAreOwn'
      BY <1>0, <2>1 DEF CleanCeilingRowsAreOwn, Of
    <2> QED
      BY <2>2, <2>4, <2>5, <2>6, <2>7 DEF CycleInv
  <1>3. CASE SupervisorReturns \/ Interrupt
    <2>1. /\ cycleAt' = "idle"
          /\ UNCHANGED <<cyclePhase, DriverState>>
          /\ (interrupted' = {} => interrupted = {} /\ ~Alive(cyclePhase))
      BY <1>3 DEF SupervisorReturns, Interrupt
    <2>2. CycleTypeOK'
      BY <1>0, <2>1 DEF CycleTypeOK, DriverState
    <2>3. ASSUME NEW d \in DriverRuns PROVE Progress(d)'
      BY <1>0, <2>1, FrameProgress DEF DriverState
    <2>4. Ports' /\ Uncontended'
      BY <1>0, <2>1, <2>2, ServersGo DEF CycleTypeOK, DriverState
    <2>5. Alone'
      BY <2>1 DEF CycleInv, Alone, Alive, DriverState
    <2>6. CleanCeilingRowsAreOwn'
      BY <1>0, <2>1 DEF CleanCeilingRowsAreOwn, Of, DriverState
    <2> QED
      BY <2>2, <2>3, <2>4, <2>5, <2>6 DEF CycleInv
  <1> QED
    BY <1>1, <1>2, <1>3

\* A server binds the port or exits; a server dies.
LEMMA ServerInv ==
    ASSUME CycleInv, NEW s \in MeasuredServers, ServerBinds(s) \/ ServerDies(s)
    PROVE  CycleInv'
  <1>0. /\ CycleTypeOK /\ (\A d \in DriverRuns : Progress(d)) /\ CleanCeilingRowsAreOwn
        /\ UNCHANGED <<Cycle, Driver>>
    BY DEF CycleInv, ServerBinds, ServerDies
  <1>1. server[s] # "none" /\ server' = [server EXCEPT ![s] = server'[s]]
        /\ server'[s] \in {"up", "dead"}
    BY <1>0 DEF ServerBinds, ServerDies, Running, CycleTypeOK
  <1>2. listens' \in [MeasureKinds -> MeasuredServers \cup {NoServer}]
    BY <1>0 DEF ServerBinds, ServerDies, CycleTypeOK, Of, MeasureKinds
  <1>3. CycleTypeOK'
    BY <1>0, <1>1, <1>2 DEF CycleTypeOK, Cycle, Driver
  <1>4. ASSUME NEW d \in DriverRuns PROVE Progress(d)'
    BY <1>0, <1>1, FrameProgress, OwnServer DEF Cycle, Driver, CycleTypeOK
  <1>5. Alone' /\ CleanCeilingRowsAreOwn'
    BY <1>0 DEF CycleInv, Alone, Alive, CleanCeilingRowsAreOwn, Of, Cycle, Driver
  <1>6. Ports' /\ Uncontended'
    <2>1. CASE ServerBinds(s) /\ listens[Of(s)] = NoServer
      <3>1. server' = [server EXCEPT ![s] = "up"] /\ listens' = [listens EXCEPT ![Of(s)] = s]
        BY <2>1 DEF ServerBinds
      <3>2. server[s] = "booting" /\ Running(s)
        BY <2>1 DEF ServerBinds, Running
      <3>3. UNCHANGED <<kind, driverAt, cell, interrupted>>
        BY <1>0 DEF Cycle, Driver
      <3>4. Of(s) \in MeasureKinds
        BY <1>0, OwnServer DEF Of, CycleTypeOK
      <3>5. Ports'
        <4> SUFFICES ASSUME NEW k \in MeasureKinds, listens'[k] # NoServer
                     PROVE  server'[listens'[k]] = "up" /\ Of(listens[k])' = k
          BY DEF Ports
        <4>1. CASE k = Of(s)
          BY <1>0, <3>1, <3>3, <3>4, <4>1 DEF CycleTypeOK, Of
        <4>2. CASE k # Of(s)
          <5>1. listens'[k] = listens[k] /\ listens[k] \in MeasuredServers
            BY <1>0, <3>1, <4>2 DEF CycleTypeOK
          <5>2. server[listens[k]] = "up" /\ Of(listens[k]) = k
            BY <5>1 DEF CycleInv, Ports
          <5> QED
            BY <1>0, <3>1, <3>2, <3>3, <5>1, <5>2 DEF CycleTypeOK, Of
        <4> QED
          BY <4>1, <4>2
      <3>6. \A t \in MeasuredServers : Running(t)' => Running(t)
        BY <1>0, <3>1, <3>2 DEF Running, CycleTypeOK
      <3>7. Uncontended'
        BY <3>3, <3>6 DEF CycleInv, Uncontended, Of, Own
      <3> QED
        BY <3>5, <3>7
    <2>2. CASE ~(ServerBinds(s) /\ listens[Of(s)] = NoServer)
      <3>1. server' = [server EXCEPT ![s] = "dead"]
        BY <2>2 DEF ServerBinds, ServerDies
      <3>2. \A k \in MeasureKinds : listens'[k] = NoServer \/
               (listens'[k] = listens[k] /\ listens[k] # s)
        <4>1. CASE ServerBinds(s)
          <5>1. server[s] = "booting" /\ UNCHANGED listens
            BY <2>2, <4>1 DEF ServerBinds
          <5> QED
            BY <5>1 DEF CycleInv, Ports
        <4>2. CASE ServerDies(s)
          BY <1>0, <4>2 DEF ServerDies, CycleTypeOK
        <4> QED
          BY <4>1, <4>2
      <3>3. \A k \in MeasureKinds : listens'[k] = NoServer \/
               (listens'[k] = listens[k] /\ server'[listens[k]] = server[listens[k]])
        BY <1>0, <3>1, <3>2 DEF CycleTypeOK
      <3>4. server' \in [MeasuredServers -> {"none", "booting", "up", "dead"}]
        BY <1>3 DEF CycleTypeOK
      <3>5. \A t \in MeasuredServers : server'[t] \in {server[t], "dead"}
        BY <1>0, <3>1 DEF CycleTypeOK
      <3>6. UNCHANGED <<kind, driverAt, cell, interrupted>>
        BY <1>0 DEF Cycle, Driver
      <3> QED
        BY <1>2, <3>3, <3>4, <3>5, <3>6, ServersGo
    <2> QED
      BY <2>1, <2>2
  <1> QED
    BY <1>3, <1>4, <1>5, <1>6 DEF CycleInv

-----------------------------------------------------------------------------
(* A driver                                                                *)

\* A step of one driver leaves what the others have done, and who is at work.
LEMMA DriverStep ==
    ASSUME CycleInv, NEW d \in DriverRuns, Alive(d), NEW at \in DriverPositions, DriverGoes(d, at),
           UNCHANGED <<Cycle, kind>>, CycleTypeOK',
           \A e \in DriverRuns \ {d} :
               /\ cell'[e] = cell[e] /\ artifact'[e] = artifact[e] /\ verdict'[e] = verdict[e]
               /\ \A c \in SweepCells : rows'[<<e, c>>] = rows[<<e, c>>] /\
                                        server'[<<e, c>>] = server[<<e, c>>],
           Progress(d)', Ports', Uncontended', CleanCeilingRowsAreOwn'
    PROVE  CycleInv'
  <1>1. /\ \A e \in DriverRuns \ {d} : driverAt'[e] = driverAt[e]
        /\ driverAt'[d] = at
    BY DEF CycleInv, CycleTypeOK, DriverGoes
  <1>2. UNCHANGED <<cyclePhase, cycleAt, interrupted>>
    BY DEF Cycle
  <1>3. ASSUME NEW e \in DriverRuns PROVE Progress(e)'
    <2>1. CASE e = d
      BY <2>1
    <2>2. CASE e # d
      BY <1>1, <1>2, <2>2, FrameProgress
    <2> QED
      BY <2>1, <2>2
  <1>4. Alone'
    BY <1>1, <1>2 DEF CycleInv, Alone, Alive
  <1> QED
    BY <1>3, <1>4 DEF CycleInv

\* A step that only moves the driver, and not to a clean row.
LEMMA MoveInv ==
    ASSUME CycleInv, NEW d \in DriverRuns, Alive(d), NEW at \in DriverPositions, DriverGoes(d, at),
           UNCHANGED <<Cycle, kind, cell, server, listens, rows, artifact, verdict>>,
           driverAt[d] \notin {"stop", "dying"},
           \/ at \in BeforeServer /\ driverAt[d] \in BeforeServer /\ at # "none"
           \/ at = "ended"
           \/ at = "rows" /\ driverAt[d] = "wait"
           \/ at = "contended" /\ Len(rows[Own(d)]) < RowsOf(kind[d])
    PROVE  CycleInv'
  <1>0. /\ CycleTypeOK /\ Progress(d) /\ CleanCeilingRowsAreOwn
        /\ driverAt' = [driverAt EXCEPT ![d] = at] /\ driverAt'[d] = at
    BY DEF CycleInv, CycleTypeOK, DriverGoes
  <1>1. UNCHANGED <<cyclePhase, cycleAt, interrupted>>
    BY DEF Cycle
  <1>2. CycleTypeOK'
    BY <1>0, <1>1 DEF CycleTypeOK
  <1>3. Progress(d)'
    BY <1>0, <1>1, Matrix DEF Progress, Own, BeforeServer, Alive
  <1>4. Ports' /\ Uncontended'
    BY <1>0, <1>1, <1>2, ServersGo DEF CycleTypeOK, BeforeServer
  <1>5. CleanCeilingRowsAreOwn'
    BY <1>0, <1>1 DEF CleanCeilingRowsAreOwn, Of
  <1> QED
    BY <1>2, <1>3, <1>4, <1>5, DriverStep

\* The gates, the readiness and the end of a ceiling whose server did not start.
LEMMA GatesInv ==
    ASSUME CycleInv, NEW d \in DriverRuns,
           \/ \E verified \in BOOLEAN : ProvenanceGate(d, verified)
           \/ ContentionGate(d)
           \/ \E ready \in BOOLEAN : Prepare(d, ready)
           \/ ServerReady(d)
           \/ CeilingStartFails(d)
    PROVE  CycleInv'
  <1> PICK at \in {"gate", "ended", "prepare", "start", "rows"} :
          /\ DriverGoes(d, at)
          /\ driverAt[d] \in {"verify", "gate", "prepare", "wait"}
          /\ at = "rows" => driverAt[d] = "wait"
          /\ at \in {"gate", "prepare", "start"} => driverAt[d] \in BeforeServer
          /\ UNCHANGED <<Cycle, kind, cell, server, listens, rows, artifact, verdict>>
    BY DEF ProvenanceGate, ContentionGate, Prepare, ServerReady, CeilingStartFails, NotReady,
       BeforeServer
  <1> QED
    BY MoveInv DEF DriverPositions, BeforeServer, Alive

\* The row is labelled with the servers that run now.
LEMMA LabelInv ==
    ASSUME CycleInv, NEW d \in DriverRuns, LabelRow(d)
    PROVE  CycleInv'
  <1>0. /\ driverAt[d] = "rows" /\ Alive(d) /\ Len(rows[Own(d)]) < RowsOf(kind[d])
        /\ UNCHANGED <<Cycle, kind, cell, server, listens, rows, artifact, verdict>>
    BY DEF LabelRow, Alive
  <1>1. CASE Foreign(d) # {}
    BY <1>0, <1>1, MoveInv DEF LabelRow, DriverPositions, BeforeServer
  <1>2. CASE Foreign(d) = {}
    <2>1. DriverGoes(d, "clean") /\ driverAt' = [driverAt EXCEPT ![d] = "clean"]
      BY <1>2 DEF LabelRow, DriverGoes
    <2>2. /\ CycleTypeOK /\ Progress(d) /\ CleanCeilingRowsAreOwn /\ Ports /\ Uncontended
          /\ UNCHANGED interrupted /\ UNCHANGED cyclePhase /\ UNCHANGED cycleAt
      BY <1>0 DEF CycleInv, Cycle
    <2>3. /\ driverAt'[d] = "clean"
          /\ \A e \in DriverRuns \ {d} : driverAt'[e] = driverAt[e]
      BY <2>1, <2>2 DEF CycleTypeOK
    <2>4. CycleTypeOK'
      BY <1>0, <2>1, <2>2 DEF CycleTypeOK, DriverPositions
    <2>5. Progress(d)'
      BY <1>0, <2>2, <2>3 DEF Progress, Own, BeforeServer
    <2>6. kind[d] = "ceiling" =>
              \A s \in MeasuredServers : Of(s) = "ceiling" /\ Running(s) => s = Own(d)
      BY <1>2 DEF Foreign, ForeignToCeiling
    <2>7. Uncontended'
      BY <1>0, <2>2, <2>3, <2>6 DEF Uncontended, Of, Running, Own
    <2>8. Ports' /\ CleanCeilingRowsAreOwn'
      BY <1>0, <2>2 DEF Ports, CleanCeilingRowsAreOwn, Of
    <2> QED
      BY <1>0, <2>1, <2>4, <2>5, <2>7, <2>8, DriverStep DEF DriverPositions
  <1> QED
    BY <1>1, <1>2

\* A server is started for the cell.
LEMMA StartServerInv ==
    ASSUME CycleInv, NEW d \in DriverRuns, StartServer(d)
    PROVE  CycleInv'
  <1>0. /\ driverAt[d] = "start" /\ Alive(d) /\ DriverGoes(d, "wait")
        /\ driverAt' = [driverAt EXCEPT ![d] = "wait"]
        /\ server' = [server EXCEPT ![Own(d)] = "booting"]
        /\ UNCHANGED <<Cycle, kind, cell, listens, rows, artifact, verdict>>
    BY DEF StartServer, Alive, DriverGoes
  <1>1. /\ CycleTypeOK /\ Progress(d) /\ CleanCeilingRowsAreOwn /\ Ports /\ Alone
        /\ UNCHANGED <<interrupted, cyclePhase, cycleAt>>
    BY <1>0 DEF CycleInv, Cycle
  <1>2. Own(d) \in MeasuredServers /\ Own(d) = <<d, cell[d]>> /\ cell[d] \in SweepCells
    BY <1>1, OwnServer DEF Own, CycleTypeOK
  <1>3. CycleTypeOK'
    BY <1>0, <1>1, <1>2 DEF CycleTypeOK, DriverPositions
  <1>4. /\ driverAt'[d] = "wait"
        /\ \A e \in DriverRuns \ {d} : driverAt'[e] = driverAt[e]
    BY <1>0, <1>1 DEF CycleTypeOK
  <1>5. \A s \in MeasuredServers \ {Own(d)} : server'[s] = server[s]
    BY <1>0, <1>1 DEF CycleTypeOK
  <1>6. \A c \in SweepCells : c > cell[d] => server'[<<d, c>>] = server[<<d, c>>]
    <2> SUFFICES ASSUME NEW c \in SweepCells, c > cell[d]
                 PROVE  server'[<<d, c>>] = server[<<d, c>>]
      OBVIOUS
    <2>1. c # cell[d]
      BY <1>2, Matrix
    <2>2. <<d, c>> # Own(d)
      BY <1>2, <2>1, OwnServer
    <2> QED
      BY <1>5, <2>2, OwnServer
  <1>7. Progress(d)'
    BY <1>0, <1>1, <1>4, <1>6 DEF Progress, Own, BeforeServer
  <1>8. server[Own(d)] = "none"
    BY <1>0, <1>1 DEF Progress, BeforeServer
  <1>9. Ports'
    BY <1>0, <1>1, <1>5, <1>8 DEF Ports, Of, CycleTypeOK
  <1>10. Uncontended'
    BY <1>0, <1>1, <1>4 DEF Alone, Alive, Uncontended
  <1>11. CleanCeilingRowsAreOwn'
    BY <1>0, <1>1 DEF CleanCeilingRowsAreOwn, Of
  <1>12. \A e \in DriverRuns \ {d} : \A c \in SweepCells : server'[<<e, c>>] = server[<<e, c>>]
    BY <1>5, OthersServers
  <1> QED
    BY <1>0, <1>3, <1>7, <1>9, <1>10, <1>11, <1>12, DriverStep DEF DriverPositions

\* A cell's server is stopped; the rows stay, or are complete.
LEMMA StopInv ==
    ASSUME CycleInv, NEW d \in DriverRuns,
           SweepStartFails(d) \/ SweepRequestRaises(d) \/ CellComplete(d) \/ CeilingStops(d)
    PROVE  CycleInv'
  <1> PICK at \in {"next", "ended"} :
          /\ DriverGoes(d, at) /\ driverAt' = [driverAt EXCEPT ![d] = at]
          /\ driverAt[d] \in {"wait", "clean", "contended", "rows", "stop"}
          /\ at = "next" => driverAt[d] = "wait" \/ RowsDone(d)
          /\ UNCHANGED <<Cycle, kind, cell, rows, verdict>>
          /\ server' = Stopped(d) /\ listens' = Unbound(d)
          /\ driverAt[d] # "rows" => UNCHANGED artifact
          /\ driverAt[d] = "rows" => artifact' = [artifact EXCEPT ![d] = 1 .. cell[d]]
    BY DEF SweepStartFails, SweepRequestRaises, CellComplete, CeilingStops, NotReady, RowsDone,
       DriverGoes
  <1>1. /\ CycleTypeOK /\ Progress(d) /\ CleanCeilingRowsAreOwn /\ Ports
        /\ UNCHANGED <<interrupted, cyclePhase, cycleAt>>
    BY DEF CycleInv, Cycle
  <1>2. Own(d) \in MeasuredServers /\ Own(d) = <<d, cell[d]>> /\ cell[d] \in SweepCells
    BY <1>1, OwnServer DEF Own, CycleTypeOK
  <1>3. /\ server' \in [MeasuredServers -> {"none", "booting", "up", "dead"}]
        /\ \A s \in MeasuredServers : server'[s] \in {server[s], "dead"}
        /\ \A s \in MeasuredServers : server[s] = "none" => server'[s] = "none"
        /\ \A s \in MeasuredServers \ {Own(d)} : server'[s] = server[s]
    BY <1>1, <1>2 DEF Stopped, CycleTypeOK, Running
  <1>4. /\ listens' \in [MeasureKinds -> MeasuredServers \cup {NoServer}]
        /\ \A k \in MeasureKinds : listens'[k] = NoServer \/
               (listens'[k] = listens[k] /\ listens[k] # Own(d))
    BY <1>1 DEF Unbound, CycleTypeOK
  <1>5. \A k \in MeasureKinds : listens'[k] = NoServer \/
            (listens'[k] = listens[k] /\ server'[listens[k]] = server[listens[k]])
    BY <1>1, <1>3, <1>4 DEF CycleTypeOK
  <1>6. /\ artifact' \in [DriverRuns -> SUBSET SweepCells]
        /\ \A e \in DriverRuns \ {d} : artifact'[e] = artifact[e]
    <2>1. 1 .. cell[d] \subseteq SweepCells
      BY <1>2, Matrix DEF SweepCells
    <2> QED
      BY <1>1, <2>1 DEF CycleTypeOK
  <1>7. driverAt'[d] = at /\ \A e \in DriverRuns \ {d} : driverAt'[e] = driverAt[e]
    BY <1>1 DEF CycleTypeOK
  <1>8. CycleTypeOK'
    BY <1>1, <1>3, <1>4, <1>6 DEF CycleTypeOK, DriverPositions, BeforeServer
  <1>9. Ports' /\ Uncontended'
    BY <1>1, <1>3, <1>4, <1>5, <1>7, ServersGo
  <1>10. CleanCeilingRowsAreOwn'
    BY <1>1 DEF CleanCeilingRowsAreOwn, Of
  <1>11. verdict[d] = "passed" => at = "ended" /\ UNCHANGED artifact
    BY <1>1 DEF Progress, RowsDone
  <1>12. Progress(d)'
    <2>1. \A c \in SweepCells : c > cell[d] => server'[<<d, c>>] = "none"
      BY <1>1, <1>3, OwnServer DEF Progress
    <2>2. at = "next" => Len(rows[Own(d)]) \in {0, RowsOf(kind[d])}
      BY <1>1 DEF Progress, RowsDone
    <2> QED
      BY <1>1, <1>7, <1>11, <2>1, <2>2 DEF Progress, Own, BeforeServer
  <1>13. \A e \in DriverRuns \ {d} : \A c \in SweepCells : server'[<<e, c>>] = server[<<e, c>>]
    BY <1>3, OthersServers
  <1> QED
    BY <1>6, <1>8, <1>9, <1>10, <1>12, <1>13, DriverStep DEF DriverPositions, BeforeServer, Alive

\* A sweep goes on with the next cell.
LEMMA NextCellInv ==
    ASSUME CycleInv, NEW d \in DriverRuns, NextCell(d)
    PROVE  CycleInv'
  <1>0. /\ driverAt[d] = "next" /\ Alive(d) /\ DriverGoes(d, "start")
        /\ driverAt' = [driverAt EXCEPT ![d] = "start"]
        /\ cell' = [cell EXCEPT ![d] = @ + 1] /\ cell[d] + 1 \in CellsOf(kind[d])
        /\ UNCHANGED <<Cycle, kind, server, listens, rows, artifact, verdict>>
    BY DEF NextCell, Alive, DriverGoes
  <1>1. /\ CycleTypeOK /\ Progress(d) /\ CleanCeilingRowsAreOwn
        /\ UNCHANGED <<interrupted, cyclePhase, cycleAt>>
    BY <1>0 DEF CycleInv, Cycle
  <1>2. /\ driverAt'[d] = "start" /\ cell'[d] = cell[d] + 1
        /\ cell[d] \in SweepCells /\ cell[d] \in Nat /\ cell[d] + 1 \in SweepCells
        /\ \A e \in DriverRuns \ {d} : driverAt'[e] = driverAt[e] /\ cell'[e] = cell[e]
    BY <1>0, <1>1, Matrix DEF CycleTypeOK
  <1>3. CycleTypeOK'
    BY <1>0, <1>1, <1>2 DEF CycleTypeOK, DriverPositions, BeforeServer
  <1>4. Progress(d)'
    <2>1. \A c \in SweepCells : c > cell[d] + 1 => c > cell[d]
      BY <1>2, Matrix
    <2>2. \A c \in SweepCells : c < cell[d] + 1 => c < cell[d] \/ c = cell[d]
      BY <1>2, Matrix
    <2>3. cell[d] + 1 > cell[d]
      BY <1>2
    <2>4. /\ \A c \in SweepCells : c < cell'[d] => Len(rows'[<<d, c>>]) \in {0, RowsOf(kind'[d])}
          /\ \A c \in SweepCells : c > cell'[d] => rows'[<<d, c>>] = << >> /\ server'[<<d, c>>] = "none"
      BY <1>0, <1>1, <1>2, <2>1, <2>2 DEF Progress, Own
    <2>5. rows'[<<d, cell'[d]>>] = << >> /\ server'[<<d, cell'[d]>>] = "none"
      BY <1>0, <1>1, <1>2, <2>3 DEF Progress
    <2>6. verdict'[d] # "passed" /\ d <= cyclePhase'
      BY <1>0, <1>1, Matrix DEF Progress, CycleTypeOK
    <2> QED
      BY <1>0, <1>1, <1>2, <2>4, <2>5, <2>6, Matrix DEF Progress, Own, BeforeServer, CycleTypeOK
  <1>5. Ports' /\ Uncontended'
    BY <1>0, <1>1, <1>2, <1>3, ServersGo DEF CycleTypeOK
  <1>6. CleanCeilingRowsAreOwn'
    BY <1>0, <1>1 DEF CleanCeilingRowsAreOwn, Of
  <1> QED
    BY <1>0, <1>2, <1>3, <1>4, <1>5, <1>6, DriverStep DEF DriverPositions, BeforeServer

\* A row is recorded: by whoever listens, or as an error.
LEMMA RowInv ==
    ASSUME CycleInv, NEW d \in DriverRuns,
           (\E ok \in BOOLEAN : RequestRow(d, ok)) \/ CeilingErrorRow(d)
    PROVE  CycleInv'
  <1>1. PICK s \in MeasuredServers \cup {NoServer}, ok \in BOOLEAN :
          /\ DriverGoes(d, "rows") /\ driverAt[d] \in {"clean", "contended"}
          /\ rows' = [rows EXCEPT ![Own(d)] = Append(@, Row(d, s, ok))]
          /\ ok => s = listens[kind[d]] /\ s # NoServer
          /\ UNCHANGED <<Cycle, kind, cell, server, listens, artifact, verdict>>
    <2>1. kind[d] \in MeasureKinds /\ listens[kind[d]] \in MeasuredServers \cup {NoServer}
      BY DEF CycleInv, CycleTypeOK
    <2> QED
      BY <2>1 DEF RequestRow, CeilingErrorRow
  <1>2. /\ CycleTypeOK /\ Progress(d) /\ CleanCeilingRowsAreOwn /\ Ports /\ Uncontended
        /\ UNCHANGED <<interrupted, cyclePhase, cycleAt>>
        /\ driverAt' = [driverAt EXCEPT ![d] = "rows"] /\ Alive(d)
    BY <1>1 DEF CycleInv, Cycle, DriverGoes, Alive
  <1> DEFINE row == Row(d, s, ok)
             old == rows[Own(d)]
  <1>3. Own(d) \in MeasuredServers /\ Own(d) = <<d, cell[d]>> /\ cell[d] \in SweepCells
    BY <1>2, OwnServer DEF Own, CycleTypeOK
  <1>4. row \in MeasuredRows /\ old \in Seq(MeasuredRows)
    BY <1>2, <1>3 DEF Row, MeasuredRows, CycleTypeOK
  <1>5. /\ Append(old, row) \in Seq(MeasuredRows)
        /\ Len(Append(old, row)) = Len(old) + 1 /\ Len(old) \in Nat
        /\ \A i \in 1..Len(old) : Append(old, row)[i] = old[i]
        /\ Append(old, row)[Len(old) + 1] = row
    BY <1>4, AppendProperties, LenProperties
  <1>6. /\ rows'[Own(d)] = Append(old, row)
        /\ \A t \in MeasuredServers \ {Own(d)} : rows'[t] = rows[t]
    BY <1>1, <1>2, <1>3 DEF CycleTypeOK
  <1>7. row.by = s /\ row.passed = ok /\ (~row.contended <=> driverAt[d] = "clean")
    BY <1>1 DEF Row
  <1> HIDE DEF row, old
  <1>8. CycleTypeOK'
    <2>1. rows' \in [MeasuredServers -> Seq(MeasuredRows)]
      BY <1>1, <1>2, <1>3, <1>5 DEF CycleTypeOK, old, row
    <2> QED
      BY <1>1, <1>2, <2>1 DEF CycleTypeOK, DriverPositions
  <1>9. driverAt'[d] = "rows" /\ \A e \in DriverRuns \ {d} : driverAt'[e] = driverAt[e]
    BY <1>2 DEF CycleTypeOK
  <1>10. Progress(d)'
    <2>1. \A c \in SweepCells : c # cell[d] => rows'[<<d, c>>] = rows[<<d, c>>]
      BY <1>3, <1>6, OwnServer
    <2>2. \A c \in SweepCells : (c > cell[d] => c # cell[d]) /\ (c < cell[d] => c # cell[d])
      BY <1>3, Matrix
    <2>3. Len(rows'[Own(d)]) <= RowsOf(kind[d])
      <3>1. Len(old) < RowsOf(kind[d])
        BY <1>1, <1>2 DEF Progress, old
      <3> QED
        BY <1>5, <1>6, <3>1, Matrix
    <2>4. verdict[d] # "passed"
      BY <1>1, <1>2 DEF Progress
    <2> QED
      BY <1>1, <1>2, <1>9, <2>1, <2>2, <2>3, <2>4 DEF Progress, Own, BeforeServer
  <1>11. Ports' /\ Uncontended'
    BY <1>1, <1>2, <1>8, <1>9, ServersGo DEF CycleTypeOK
  <1>12. CleanCeilingRowsAreOwn'
    <2> SUFFICES ASSUME NEW t \in MeasuredServers, NEW i \in DOMAIN rows'[t],
                        kind'[t[1]] = "ceiling", rows'[t][i].passed, ~rows'[t][i].contended,
                        interrupted' = {}
                 PROVE  rows'[t][i].by = t
      BY DEF CleanCeilingRowsAreOwn, Of
    <2>1. CASE t # Own(d)
      BY <1>1, <1>2, <1>6, <2>1 DEF CleanCeilingRowsAreOwn, Of
    <2>2. CASE t = Own(d) /\ i # Len(old) + 1
      <3>1. i \in 1..Len(old) /\ rows'[t][i] = old[i]
        BY <1>5, <1>6, <2>2, LenProperties
      <3>2. i \in DOMAIN rows[t] /\ rows'[t][i] = rows[t][i]
        BY <1>4, <2>2, <3>1, LenProperties DEF old
      <3> QED
        BY <1>1, <1>2, <3>2 DEF CleanCeilingRowsAreOwn, Of
    <2>3. CASE t = Own(d) /\ i = Len(old) + 1
      <3>1. rows'[t][i] = row
        BY <1>5, <1>6, <2>3
      <3>2. ok /\ driverAt[d] = "clean"
        BY <1>7, <3>1
      <3>3. kind[d] = "ceiling" /\ s \in MeasuredServers /\ s = listens["ceiling"]
        <4>1. t[1] = d
          BY <1>3, <2>3
        <4>2. kind[d] = "ceiling"
          BY <1>1, <4>1
        <4> QED
          BY <1>1, <3>2, <4>2
      <3>4. Of(s) = "ceiling" /\ Running(s)
        BY <1>2, <3>3, OwnServer DEF Ports, Running, MeasureKinds
      <3>5. s = Own(d)
        BY <1>2, <3>2, <3>3, <3>4 DEF Uncontended
      <3> QED
        BY <1>7, <2>3, <3>1, <3>5
    <2> QED
      BY <2>1, <2>2, <2>3
  <1>13. \A e \in DriverRuns \ {d} : \A c \in SweepCells : rows'[<<e, c>>] = rows[<<e, c>>]
    BY <1>6, OthersServers
  <1> QED
    BY <1>1, <1>2, <1>8, <1>10, <1>11, <1>12, <1>13, DriverStep DEF DriverPositions

\* The verdict is over cells that are empty or complete, and it wants none empty.
LEMMA VerdictStepInv ==
    ASSUME CycleInv, NEW d \in DriverRuns, SweepVerdict(d) \/ CeilingVerdict(d)
    PROVE  CycleInv'
  <1> PICK at \in {"ended", "stop"} :
          /\ DriverGoes(d, at) /\ driverAt' = [driverAt EXCEPT ![d] = at]
          /\ \/ driverAt[d] = "next" /\ cell[d] + 1 \notin CellsOf(kind[d])
             \/ RowsDone(d) /\ kind[d] = "ceiling"
          /\ RecordVerdict(d)
          /\ UNCHANGED <<Cycle, kind, cell, server, listens, rows>>
    BY DEF SweepVerdict, CeilingVerdict, DriverGoes
  <1>1. /\ CycleTypeOK /\ Progress(d) /\ CleanCeilingRowsAreOwn
        /\ UNCHANGED <<interrupted, cyclePhase, cycleAt>>
        /\ driverAt[d] \in {"next", "rows"} /\ Alive(d)
    BY DEF CycleInv, Cycle, RowsDone, Alive
  <1>2. /\ driverAt'[d] = at /\ \A e \in DriverRuns \ {d} : driverAt'[e] = driverAt[e]
        /\ artifact'[d] = CellsOf(kind[d])
        /\ verdict'[d] = IF AllPassed(d) THEN "passed" ELSE "failed"
        /\ \A e \in DriverRuns \ {d} : artifact'[e] = artifact[e] /\ verdict'[e] = verdict[e]
    BY <1>1 DEF CycleTypeOK, RecordVerdict
  <1>3. CycleTypeOK'
    <2>1. CellsOf(kind[d]) \subseteq SweepCells
      BY Matrix
    <2> QED
      BY <1>1, <2>1 DEF CycleTypeOK, DriverPositions, BeforeServer, RecordVerdict
  <1>4. \A c \in CellsOf(kind[d]) : c < cell[d] \/ c = cell[d]
    <2>0. cell[d] \in Nat /\ CellsOf(kind[d]) \subseteq Nat
      BY <1>1, Matrix DEF CycleTypeOK
    <2> SUFFICES ASSUME NEW c \in CellsOf(kind[d]), c > cell[d] PROVE FALSE
      BY <2>0
    <2>1. cell[d] \in Nat /\ c \in Nat /\ cell[d] >= 1 /\ c <= CellCount
      BY <1>1, Matrix DEF CycleTypeOK, SweepCells
    <2>2. CASE kind[d] = "ceiling"
      BY <1>1, <2>1, <2>2 DEF CellsOf
    <2>3. CASE kind[d] # "ceiling"
      <3>1. kind[d] = "sweep" /\ cell[d] + 1 \notin SweepCells
        BY <1>1, <2>3 DEF CycleTypeOK, MeasureKinds, CellsOf
      <3> QED
        BY <2>1, <3>1, Matrix DEF SweepCells
    <2> QED
      BY <2>2, <2>3
  <1>5. \A c \in CellsOf(kind[d]) : Len(rows[<<d, c>>]) \in {0, RowsOf(kind[d])}
    <2>1. Len(rows[<<d, cell[d]>>]) \in {0, RowsOf(kind[d])}
      BY <1>1 DEF Progress, Own, RowsDone
    <2> QED
      BY <1>1, <1>4, <2>1, Matrix DEF Progress
  <1>6. \A c \in CellsOf(kind[d]) : rows[<<d, c>>] \in Seq(MeasuredRows)
    BY <1>1, OwnServer, Matrix DEF CycleTypeOK
  <1>7. AllPassed(d) => \A c \in CellsOf(kind[d]) :
            /\ Len(rows[<<d, c>>]) = RowsOf(kind[d])
            /\ \A i \in DOMAIN rows[<<d, c>>] : rows[<<d, c>>][i].passed
    BY <1>5, <1>6, EmptySeq DEF AllPassed
  <1>8. Progress(d)'
    BY <1>1, <1>2, <1>7 DEF Progress, Own, BeforeServer
  <1>9. Ports' /\ Uncontended'
    BY <1>1, <1>2, <1>3, ServersGo DEF CycleTypeOK
  <1>10. CleanCeilingRowsAreOwn'
    BY <1>1 DEF CleanCeilingRowsAreOwn, Of
  <1> QED
    BY <1>1, <1>2, <1>3, <1>8, <1>9, <1>10, DriverStep DEF DriverPositions, BeforeServer

-----------------------------------------------------------------------------
(* The theorems                                                            *)

\* The invariant holds for every number of drivers, cells and rows.
THEOREM CycleInvariance == CycleSpec => []CycleInv
  <1>1. CycleInv /\ [CycleNext]_cycleVars => CycleInv'
    <2> SUFFICES ASSUME CycleInv, [CycleNext]_cycleVars PROVE CycleInv'
      OBVIOUS
    <2>1. CASE CycleNext
      BY <2>1, StartPhaseInv, SupervisorInv, ServerInv, GatesInv, LabelInv, StartServerInv, StopInv,
         NextCellInv, RowInv, VerdictStepInv DEF CycleNext, MeasureKinds
    <2>2. CASE UNCHANGED cycleVars
      BY <2>2 DEF cycleVars, CycleInv, CycleTypeOK, Progress, Own, Ports, Of, Alone, Alive,
         Uncontended, Running, CleanCeilingRowsAreOwn
    <2> QED
      BY <2>1, <2>2
  <1> QED
    BY <1>1, CycleInitInv, PTL DEF CycleSpec

\* A ceiling row that passed without a contention label was answered by the server of its
\* own run, as long as the operator interrupted nothing.
THEOREM CleanRowsAreOwn == CycleSpec => []CleanCeilingRowsAreOwn
  <1>1. CycleInv => CleanCeilingRowsAreOwn
    BY DEF CycleInv
  <1> QED
    BY <1>1, CycleInvariance, PTL

\* A verdict "passed" is over a matrix whose every cell has all its rows.
THEOREM PassedMatricesAreComplete == CycleSpec => []PassedIsComplete
  <1>1. CycleInv => PassedIsComplete
    BY DEF CycleInv, PassedIsComplete, Progress
  <1> QED
    BY <1>1, CycleInvariance, PTL

-----------------------------------------------------------------------------
(* ArmRuns                                                                 *)

\* What n runs can have measured and written.
RowsMeasuredBy(n) == [n : Nat, by : SUBSET (1 .. n)]
ResultsBy(n) == [run : 0 .. n, ok : BOOLEAN, rows : Nat, by : SUBSET (1 .. n),
                 embedded : Nat, stopped : BOOLEAN]

\* The states of a run of an arm.
ArmTypeOK ==
    /\ armTool \in {"f1c2", "gate"}
    /\ armAt \in {"idle", "wait", "probe", "rows", "measured", "succeeded", "failed",
                  "stopped ok", "stopped failed"}
    /\ armRun \in 0 .. ArmRunBound
    /\ armAt # "idle" => armRun > 0
    /\ legOf \in [ArmRunIds -> Legs]
    /\ armServer \in [ArmRunIds -> {"none", "booting", "up", "dead"}]
    /\ armPort \in 0 .. armRun
    /\ measured \in RowsMeasuredBy(armRun)
    /\ requestLog \in [Legs -> Nat]
    /\ result \in [Legs -> ResultsBy(armRun)]
    /\ validated \in BOOLEAN

\* Only runs that were begun have a server; a result belongs to a run of its leg.
RunsOK ==
    /\ \A r \in ArmRunIds : armRun < r => armServer[r] = "none"
    /\ \A l \in Legs : result[l].run > 0 => legOf[result[l].run] = l
    /\ \A l \in Legs : result[l].run = 0 => result[l].rows = 0 /\ ~result[l].stopped

\* A result that says so was written after the process of its run was reaped.
StoppedOK ==
    /\ armAt \in {"stopped ok", "stopped failed"} => armServer[armRun] = "dead"
    /\ \A l \in Legs : result[l].stopped => armServer[result[l].run] = "dead"

ValidationOK == validated => armAt = "idle" /\ \A l \in Legs : LegValid(l)

\* The lines of the run under way that are in some request log.
Made == IF armAt = "rows" THEN measured.n + 1
        ELSE IF armAt \in {"measured", "succeeded", "stopped ok"} THEN LinesPerLeg
        ELSE 0

Strange(by, l) == \E r \in by : legOf[r] # l
Recorded(l) == result[l].rows = RowsPerLeg
Clean(l) == requestLog[l] = result[l].embedded

\* The rows a leg got from the server of the other one are in the log of that one.
Elsewhere(by, l) ==
    Strange(by, l) => \A o \in Legs \ {l} : requestLog[o] > 0

\* While the log of x is as long as it was when x was recorded, everything a later run for
\* y asked was answered by servers of y, and is in the log of y on top of what x left there.
Apart(x, y, by, made) ==
    Recorded(x) /\ Clean(x) =>
        /\ ~Strange(by, y)
        /\ requestLog[y] >= made
        /\ Strange(result[x].by, x) => requestLog[y] > made

LinesOK ==
    /\ armRun = 0 => armTool = "f1c2"
    /\ armTool = "f1c2" =>
        /\ armPhase = "measure"
        /\ \A l \in Legs : requestLog[l] >= result[l].embedded
        /\ \A l \in Legs : Elsewhere(result[l].by, l)
        /\ armAt # "idle" => Elsewhere(measured.by, Leg)
        /\ armAt \in {"wait", "probe"} => measured.n = 0
        /\ armAt \in {"measured", "succeeded", "stopped ok"} => measured.n = RowsPerLeg
        /\ armAt # "idle" =>
               \A x \in Legs \ {Leg} : Apart(x, Leg, measured.by, Made)
        /\ \A x, y \in Legs : (Recorded(y) /\ result[x].run < result[y].run) =>
               Apart(x, y, result[y].by, LinesPerLeg)

ArmInv == ArmTypeOK /\ RunsOK /\ StoppedOK /\ ValidationOK /\ LinesOK

\* The types of the parts that the steps below use.
LEMMA ArmFacts ==
    ASSUME ArmTypeOK
    PROVE  /\ armRun \in 0 .. ArmRunBound /\ armRun \in Nat
           /\ armPort # 0 => armPort \in 1 .. armRun /\ armPort \in ArmRunIds
           /\ armAt # "idle" => armRun \in ArmRunIds /\ Leg \in Legs
           /\ measured.n \in Nat /\ measured.by \in SUBSET (1 .. armRun)
           /\ measured.by \subseteq ArmRunIds
           /\ \A l \in Legs : /\ requestLog[l] \in Nat
                              /\ result[l].run \in 0 .. armRun
                              /\ result[l].run # 0 => result[l].run \in ArmRunIds
                              /\ result[l].rows \in Nat
                              /\ result[l].by \subseteq ArmRunIds
                              /\ result[l].by \in SUBSET (1 .. armRun)
                              /\ result[l].embedded \in Nat
  <1>1. armRun \in 0 .. ArmRunBound /\ armPort \in 0 .. armRun /\ (armAt # "idle" => armRun > 0)
    BY DEF ArmTypeOK
  <1>2. /\ armRun \in Nat /\ 1 .. armRun \subseteq ArmRunIds
        /\ armPort # 0 => armPort \in 1 .. armRun /\ armPort \in ArmRunIds
        /\ armAt # "idle" => armRun \in ArmRunIds
    BY <1>1, ArmRunBoundAssumption DEF ArmRunIds
  <1>3. armAt # "idle" => Leg \in Legs
    BY <1>2 DEF ArmTypeOK, Leg
  <1>4. measured.n \in Nat /\ measured.by \in SUBSET (1 .. armRun)
    BY DEF ArmTypeOK, RowsMeasuredBy
  <1>5. ASSUME NEW l \in Legs
        PROVE  /\ requestLog[l] \in Nat
               /\ result[l].run \in 0 .. armRun
               /\ result[l].rows \in Nat
               /\ result[l].by \in SUBSET (1 .. armRun)
               /\ result[l].embedded \in Nat
    <2>1. requestLog[l] \in Nat /\ result[l] \in ResultsBy(armRun)
      BY DEF ArmTypeOK
    <2> QED BY <2>1 DEF ResultsBy
  <1>6. \A l \in Legs : result[l].run # 0 => result[l].run \in ArmRunIds
    BY <1>1, <1>5, ArmRunBoundAssumption DEF ArmRunIds
  <1> QED BY <1>1, <1>2, <1>3, <1>4, <1>5, <1>6


\* What fewer runs can have written, more runs can.
LEMMA GrowingTypes ==
    ASSUME NEW m \in Nat, NEW n \in Nat, m <= n
    PROVE  RowsMeasuredBy(m) \subseteq RowsMeasuredBy(n) /\ ResultsBy(m) \subseteq ResultsBy(n)
  <1>1. 0 .. m \subseteq 0 .. n /\ 1 .. m \subseteq 1 .. n
    OBVIOUS
  <1>2. RowsMeasuredBy(m) \subseteq RowsMeasuredBy(n)
    BY <1>1 DEF RowsMeasuredBy
  <1>3. ResultsBy(m) \subseteq ResultsBy(n)
    BY <1>1 DEF ResultsBy
  <1> QED BY <1>2, <1>3

\* A result is one of the run under way.
LEMMA RecordType ==
    ASSUME ArmTypeOK, armAt # "idle", NEW ok \in BOOLEAN, NEW stopped \in BOOLEAN
    PROVE  Record(ok, stopped) \in ResultsBy(armRun)
  <1>1. /\ armRun \in 0 .. armRun /\ measured.n \in Nat
        /\ measured.by \in SUBSET (1 .. armRun) /\ requestLog[Leg] \in Nat
    BY ArmFacts
  <1> QED BY <1>1 DEF Record, ResultsBy

\* Every step keeps the types: the port and the rows belong to runs that were begun.
LEMMA ArmTypeStep == ASSUME ArmTypeOK, RunsOK, [ArmNext]_armVars PROVE ArmTypeOK'
  <1>1. CASE \E tool \in DOMAIN ArmPhases, l \in Legs : \E stage \in ArmPhases[tool] :
             BeginArm(tool, stage, l)
    <2>1. PICK tool \in DOMAIN ArmPhases, l \in Legs :
              \E stage \in ArmPhases[tool] : BeginArm(tool, stage, l)
      BY <1>1
    <2>2. tool \in {"f1c2", "gate"}
      BY DEF ArmPhases
    <2>3. /\ armRun' = armRun + 1 /\ armRun < ArmRunBound /\ armAt' = "wait"
          /\ armTool' = tool
          /\ legOf' = [legOf EXCEPT ![armRun + 1] = l]
          /\ armServer' = [armServer EXCEPT ![armRun + 1] = "booting"]
          /\ measured' = [n |-> 0, by |-> {}] /\ validated' = FALSE
          /\ UNCHANGED <<armPort, requestLog, result>>
      BY <2>1 DEF BeginArm, Files
    <2>4. /\ armRun \in Nat /\ armRun' \in Nat /\ armRun <= armRun' /\ armRun' > 0
          /\ armRun' \in 0 .. ArmRunBound
      BY <2>3, ArmFacts, ArmRunBoundAssumption
    <2>5. /\ legOf' \in [ArmRunIds -> Legs]
          /\ armServer' \in [ArmRunIds -> {"none", "booting", "up", "dead"}]
      BY <2>3 DEF ArmTypeOK
    <2>6. armPort \in 0 .. armRun /\ requestLog' \in [Legs -> Nat]
      BY <2>3 DEF ArmTypeOK
    <2>7. armPort' \in 0 .. armRun'
      BY <2>3, <2>4, <2>6
    <2>8. measured' \in RowsMeasuredBy(armRun')
      BY <2>3 DEF RowsMeasuredBy
    <2>9. result \in [Legs -> ResultsBy(armRun)]
      BY DEF ArmTypeOK
    <2>10. result' \in [Legs -> ResultsBy(armRun')]
      BY <2>3, <2>4, <2>9, GrowingTypes
    <2> QED BY <2>2, <2>3, <2>4, <2>5, <2>6, <2>7, <2>8, <2>10 DEF ArmTypeOK
  <1>2. CASE WaitReady \/ WaitFails \/ AllMeasured \/ RequestRaises \/ StopRaises
             \/ KillDriver \/ WriteReport \/ Validate
    <2>1. /\ UNCHANGED <<armTool, armRun, legOf, armServer, armPort, measured, requestLog,
                         result>>
          /\ armAt' \in {"idle", "probe", "rows", "measured", "failed", armAt}
          /\ armAt' = armAt \/ armAt # "idle"
          /\ validated' \in BOOLEAN \/ validated' = validated
      BY <1>2 DEF WaitReady, WaitFails, AllMeasured, RequestRaises, StopRaises, KillDriver,
         WriteReport, Validate, ThisRun, Servers, Files, Reports
    <2> QED BY <2>1 DEF ArmTypeOK
  <1>3. CASE (\E ok \in BOOLEAN : Probe(ok)) \/ MeasureRow
    <2>1. /\ UNCHANGED <<armTool, armRun, legOf, armServer, armPort, result, validated>>
          /\ armPort # 0 /\ requestLog' = Logged
          /\ armAt' \in {"failed", "measured", "rows"} /\ armAt # "idle"
          /\ \/ measured' = measured
             \/ measured' = [n |-> measured.n + 1, by |-> measured.by \cup {armPort}]
      BY <1>3 DEF Probe, MeasureRow, ThisRun, Servers, Reports
    <2>2. requestLog' \in [Legs -> Nat]
      <3>1. legOf[armPort] \in Legs /\ requestLog \in [Legs -> Nat]
        BY <2>1, ArmFacts DEF ArmTypeOK
      <3>2. requestLog[legOf[armPort]] + 1 \in Nat
        BY <3>1
      <3> QED BY <2>1, <3>1, <3>2 DEF Logged
    <2>3. measured' \in RowsMeasuredBy(armRun)
      <3>1. CASE measured' = measured
        BY <3>1 DEF ArmTypeOK
      <3>2. CASE measured' = [n |-> measured.n + 1, by |-> measured.by \cup {armPort}]
        <4>1. measured.n + 1 \in Nat /\ measured.by \cup {armPort} \in SUBSET (1 .. armRun)
          BY <2>1, ArmFacts
        <4> QED BY <3>2, <4>1 DEF RowsMeasuredBy
      <3> QED BY <2>1, <3>1, <3>2
    <2> QED BY <2>1, <2>2, <2>3 DEF ArmTypeOK
  <1>4. CASE WriteEarly \/ WriteResult
    <2>1. /\ UNCHANGED <<armTool, armRun, legOf, armServer, armPort, measured, requestLog,
                         validated>>
          /\ armAt # "idle" /\ armAt' \in {"succeeded", "idle"}
          /\ \/ result' = result
             \/ \E ok, stopped \in BOOLEAN :
                    result' = [result EXCEPT ![Leg] = Record(ok, stopped)]
      BY <1>4 DEF WriteEarly, WriteResult, ThisRun, Servers, Reports
    <2>2. result' \in [Legs -> ResultsBy(armRun)]
      <3>1. result \in [Legs -> ResultsBy(armRun)]
        BY DEF ArmTypeOK
      <3>2. CASE result' = result
        BY <3>1, <3>2
      <3>3. ASSUME NEW ok \in BOOLEAN, NEW stopped \in BOOLEAN,
                   result' = [result EXCEPT ![Leg] = Record(ok, stopped)]
            PROVE  result' \in [Legs -> ResultsBy(armRun)]
        <4>1. Record(ok, stopped) \in ResultsBy(armRun)
          BY <2>1, RecordType
        <4> QED BY <3>1, <3>3, <4>1
      <3> QED BY <2>1, <3>2, <3>3
    <2> QED BY <2>1, <2>2 DEF ArmTypeOK
  <1>5. CASE StopArmServer \/ \E r \in ArmRunIds : BindPort(r) \/ ArmServerDies(r)
    <2>1. /\ UNCHANGED <<armTool, armRun, legOf, measured, requestLog, result, validated>>
          /\ armAt' \in {armAt, "stopped ok", "stopped failed"}
          /\ armAt' = armAt \/ armAt # "idle"
      BY <1>5 DEF StopArmServer, BindPort, ArmServerDies, Rest, ThisRun, Files, Reports
    <2>2. armServer' \in [ArmRunIds -> {"none", "booting", "up", "dead"}]
      BY <1>5 DEF StopArmServer, BindPort, ArmServerDies, Down, ArmTypeOK
    <2>3. armPort' \in {0, armPort} \/
              \E r \in ArmRunIds : armPort' = r /\ armServer[r] = "booting"
      BY <1>5 DEF StopArmServer, BindPort, ArmServerDies, Released
    <2>4. \A r \in ArmRunIds : armServer[r] = "booting" => r \in 0 .. armRun
      BY ArmFacts, ArmRunBoundAssumption DEF RunsOK, ArmRunIds
    <2>5. armPort \in 0 .. armRun
      BY DEF ArmTypeOK
    <2>6. 0 \in 0 .. armRun
      BY ArmFacts
    <2>7. armPort' \in 0 .. armRun
      BY <2>3, <2>4, <2>5, <2>6
    <2> QED BY <2>1, <2>2, <2>7 DEF ArmTypeOK
  <1>6. CASE UNCHANGED armVars
    BY <1>6 DEF armVars, ArmTypeOK
  <1> QED BY <1>1, <1>2, <1>3, <1>4, <1>5, <1>6 DEF ArmNext

\* Every step keeps what the results and the last validation say of runs and servers:
\* server_stopped is written after the process is reaped, and nothing revives it.
LEMMA BooksStep ==
    ASSUME ArmTypeOK, RunsOK, StoppedOK, ValidationOK, [ArmNext]_armVars
    PROVE  RunsOK' /\ StoppedOK' /\ ValidationOK'
  <1>0. \A l \in Legs : result[l].stopped => result[l].run \in ArmRunIds
    BY ArmFacts DEF RunsOK
  <1>1. CASE \E tool \in DOMAIN ArmPhases, l \in Legs : \E stage \in ArmPhases[tool] :
             BeginArm(tool, stage, l)
    <2>1. PICK tool \in DOMAIN ArmPhases, l \in Legs :
              \E stage \in ArmPhases[tool] : BeginArm(tool, stage, l)
      BY <1>1
    <2>2. /\ armRun' = armRun + 1 /\ armRun < ArmRunBound /\ armAt' = "wait"
          /\ legOf' = [legOf EXCEPT ![armRun + 1] = l]
          /\ armServer' = [armServer EXCEPT ![armRun + 1] = "booting"]
          /\ result' = result /\ validated' = FALSE
      BY <2>1 DEF BeginArm, Files
    <2>3. armRun \in Nat /\ armRun + 1 \in ArmRunIds
      BY <2>2, ArmFacts, ArmRunBoundAssumption DEF ArmRunIds
    <2>4. \A r \in ArmRunIds : r # armRun + 1 => armServer'[r] = armServer[r] /\ legOf'[r] = legOf[r]
      BY <2>2 DEF ArmTypeOK
    <2>5. armServer[armRun + 1] = "none"
      BY <2>3 DEF RunsOK
    <2>6. \A k \in Legs : result[k].run # 0 =>
              result[k].run \in ArmRunIds /\ result[k].run # armRun + 1 /\ result[k].run > 0
      BY ArmFacts
    <2>7. \A r \in ArmRunIds : armRun + 1 < r => armServer'[r] = "none"
      BY <2>3, <2>4 DEF RunsOK, ArmRunIds
    <2>8. RunsOK'
      BY <2>2, <2>4, <2>6, <2>7 DEF RunsOK
    <2>9. StoppedOK'
      BY <1>0, <2>2, <2>4, <2>5 DEF StoppedOK
    <2> QED BY <2>2, <2>8, <2>9 DEF ValidationOK
  <1>2. CASE WaitReady \/ WaitFails \/ AllMeasured \/ RequestRaises \/ StopRaises
             \/ KillDriver \/ (\E ok \in BOOLEAN : Probe(ok)) \/ MeasureRow
    <2>1. /\ UNCHANGED <<armRun, legOf, armServer, result>>
          /\ validated' = validated
          /\ armAt # "idle"
          /\ armAt' \notin {"stopped ok", "stopped failed"}
      BY <1>2 DEF WaitReady, WaitFails, AllMeasured, RequestRaises, StopRaises, KillDriver,
         Probe, MeasureRow, ThisRun, Servers, Files, Reports
    <2> QED BY <2>1 DEF RunsOK, StoppedOK, ValidationOK
  <1>3. CASE WriteEarly \/ WriteResult
    <2>1. /\ UNCHANGED <<armRun, legOf, armServer>>
          /\ validated' = validated
          /\ armAt # "idle"
          /\ armAt' \notin {"stopped ok", "stopped failed"}
      BY <1>3 DEF WriteEarly, WriteResult, ThisRun, Servers, Reports
    <2>2. Leg \in Legs /\ armRun \in ArmRunIds /\ armRun \in Nat /\ armRun > 0
      BY <2>1, ArmFacts DEF ArmTypeOK
    <2>3. \/ result' = result
          \/ \E ok, stopped \in BOOLEAN :
                 /\ result' = [result EXCEPT ![Leg] = Record(ok, stopped)]
                 /\ stopped => armServer[armRun] = "dead"
      BY <1>3 DEF WriteEarly, WriteResult, StoppedOK
    <2>4. \A ok, stopped : Record(ok, stopped).run = armRun /\ Record(ok, stopped).stopped = stopped
      BY DEF Record
    <2>5. \A l \in Legs :
              \/ result'[l] = result[l]
              \/ /\ l = Leg /\ result'[l].run = armRun
                 /\ result'[l].stopped => armServer[armRun] = "dead"
      <3>1. DOMAIN result = Legs
        BY DEF ArmTypeOK
      <3>2. ASSUME NEW ok \in BOOLEAN, NEW stopped \in BOOLEAN, NEW l \in Legs,
                   result' = [result EXCEPT ![Leg] = Record(ok, stopped)]
            PROVE  result'[l] = IF l = Leg THEN Record(ok, stopped) ELSE result[l]
        BY <3>1, <3>2
      <3> QED BY <2>3, <2>4, <3>2
    <2>6. legOf[armRun] = Leg
      BY DEF Leg
    <2>7. RunsOK'
      <3>1. \A r \in ArmRunIds : armRun' < r => armServer'[r] = "none"
        BY <2>1 DEF RunsOK
      <3>2. ASSUME NEW l \in Legs
            PROVE  /\ result'[l].run > 0 => legOf'[result'[l].run] = l
                   /\ result'[l].run = 0 => result'[l].rows = 0 /\ ~result'[l].stopped
        <4>1. CASE result'[l] = result[l]
          BY <2>1, <4>1 DEF RunsOK
        <4>2. CASE l = Leg /\ result'[l].run = armRun
          <5>1. legOf'[result'[l].run] = l
            BY <2>1, <2>6, <4>2
          <5>2. result'[l].run # 0
            BY <2>2, <4>2
          <5> QED BY <5>1, <5>2
        <4> QED BY <2>5, <4>1, <4>2
      <3> QED BY <3>1, <3>2 DEF RunsOK
    <2>8. StoppedOK'
      BY <2>1, <2>5 DEF StoppedOK
    <2> QED BY <2>1, <2>7, <2>8 DEF ValidationOK
  <1>4. CASE StopArmServer
    <2>1. /\ armServer' = Down(armRun)
          /\ UNCHANGED <<armRun, legOf, result>> /\ validated' = validated /\ armAt # "idle"
      BY <1>4 DEF StopArmServer, ThisRun, Files, Reports
    <2>2. armRun \in ArmRunIds /\ armRun \in Nat
      BY <2>1, ArmFacts
    <2>3. \A r \in ArmRunIds :
              armServer'[r] = IF r = armRun THEN "dead" ELSE armServer[r]
      BY <2>1 DEF Down, ArmTypeOK
    <2>4. RunsOK'
      BY <2>1, <2>2, <2>3 DEF RunsOK, ArmRunIds
    <2>5. StoppedOK'
      BY <1>0, <2>1, <2>2, <2>3 DEF StoppedOK
    <2> QED BY <2>1, <2>4, <2>5 DEF ValidationOK
  <1>5. CASE \E r \in ArmRunIds : BindPort(r) \/ ArmServerDies(r)
    <2>1. PICK r \in ArmRunIds : BindPort(r) \/ ArmServerDies(r)
      BY <1>5
    <2>2. /\ armServer[r] \in {"booting", "up"}
          /\ UNCHANGED <<armTool, armAt, armRun, legOf, requestLog, result, validated>>
      BY <2>1 DEF BindPort, ArmServerDies, Rest, ThisRun, Files, Reports
    <2>3. \A s \in ArmRunIds : s # r => armServer'[s] = armServer[s]
      BY <2>1 DEF BindPort, ArmServerDies, Down, ArmTypeOK
    <2>4. RunsOK'
      BY <2>2, <2>3 DEF RunsOK
    <2>5. armAt # "idle" => armRun \in ArmRunIds
      BY ArmFacts
    <2>6. StoppedOK'
      BY <1>0, <2>2, <2>3, <2>5 DEF StoppedOK
    <2>7. ValidationOK'
      BY <2>2 DEF ValidationOK, LegValid
    <2> QED BY <2>4, <2>6, <2>7
  <1>6. CASE WriteReport \/ Validate
    <2>1. /\ UNCHANGED <<armTool, armAt, armRun, legOf, armServer, requestLog, result>>
          /\ armAt = "idle"
          /\ validated' => ValidLegs = Legs
      BY <1>6 DEF WriteReport, Validate, ThisRun, Servers, Files
    <2>2. \A l \in Legs : validated' => LegValid(l)
      BY <2>1 DEF ValidLegs
    <2>3. \A l \in Legs : LegValid(l) => LegValid(l)'
      BY <2>1 DEF LegValid
    <2>4. ValidationOK'
      BY <2>1, <2>2, <2>3 DEF ValidationOK
    <2> QED BY <2>1, <2>4 DEF RunsOK, StoppedOK
  <1>7. CASE UNCHANGED armVars
    BY <1>7 DEF armVars, RunsOK, StoppedOK, ValidationOK, LegValid
  <1> QED BY <1>1, <1>2, <1>3, <1>4, <1>5, <1>6, <1>7 DEF ArmNext

\* The number of lines of a run is a number.
LEMMA LinesFacts ==
    ASSUME ArmTypeOK
    PROVE  /\ LinesPerLeg \in Nat /\ LinesPerLeg = RowsPerLeg + 1 /\ RowsPerLeg \in Nat
           /\ Made \in Nat
  <1>1. measured.n \in Nat
    BY ArmFacts
  <1>2. RowsPerLeg \in Nat
    BY RowsPerLegAssumption
  <1>3. LinesPerLeg \in Nat
    BY <1>2 DEF LinesPerLeg
  <1>4. Made \in Nat
    <2>1. measured.n + 1 \in Nat
      BY <1>1
    <2>2. Made \in {measured.n + 1, LinesPerLeg, 0}
      BY DEF Made
    <2> QED BY <1>3, <2>1, <2>2
  <1>5. LinesPerLeg = RowsPerLeg + 1
    BY DEF LinesPerLeg
  <1> QED BY <1>2, <1>3, <1>4, <1>5, Zenon

\* What is at least m is at least anything smaller.
LEMMA LessThanMore ==
    ASSUME NEW m \in Nat, NEW n \in Nat, n <= m, NEW lines \in Nat
    PROVE  (lines >= m => lines >= n) /\ (lines > m => lines > n)
  OBVIOUS

\* A step that asks nothing and writes nothing keeps the count of the lines.
LEMMA QuietStep ==
    ASSUME ArmTypeOK, LinesOK,
           UNCHANGED <<armTool, armPhase, armRun, legOf, measured, requestLog, result>>,
           armAt' # "idle" => armAt # "idle" /\ Made' \in Nat /\ Made' <= Made,
           armAt' \in {"wait", "probe"} => armAt \in {"wait", "probe"},
           armAt' \in {"measured", "succeeded", "stopped ok"} => measured.n = RowsPerLeg
    PROVE  LinesOK'
  <1>1. \A x \in Legs : requestLog[x] \in Nat
    BY ArmFacts
  <1>2. Made \in Nat /\ (armAt # "idle" => Leg \in Legs) /\ Leg' = Leg
    BY ArmFacts, LinesFacts DEF Leg
  <1>3. ASSUME NEW x \in Legs, armAt' # "idle", Leg \in Legs, Apart(x, Leg, measured.by, Made)
        PROVE  Apart(x, Leg, measured.by, Made)'
    <2>1. requestLog[Leg] \in Nat
      BY <1>1, <1>3
    <2>4. Made \in Nat
      BY <1>2
    <2>5. Made' \in Nat
      BY <1>3
    <2>6. Made' <= Made
      BY <1>3
    <2>2. /\ Recorded(x)' = Recorded(x) /\ Clean(x)' = Clean(x)
          /\ Strange(measured.by, Leg)' = Strange(measured.by, Leg)
          /\ Strange(result[x].by, x)' = Strange(result[x].by, x)
          /\ requestLog'[Leg'] = requestLog[Leg]
      BY <1>2 DEF Recorded, Clean, Strange
    <2>3. /\ requestLog[Leg] >= Made => requestLog[Leg] >= Made'
          /\ requestLog[Leg] > Made => requestLog[Leg] > Made'
      BY <2>1, <2>4, <2>5, <2>6, LessThanMore, Zenon
    <2> QED BY <1>3, <2>2, <2>3 DEF Apart
  <1>4. (armRun = 0 => armTool = "f1c2")' 
    BY DEF LinesOK
  <1>5. ASSUME armTool = "f1c2"
        PROVE  /\ armPhase' = "measure"
               /\ \A l \in Legs : requestLog'[l] >= result'[l].embedded
               /\ \A l \in Legs : Elsewhere(result[l].by, l)'
               /\ \A x, y \in Legs : (Recorded(y) /\ result[x].run < result[y].run)' =>
                      Apart(x, y, result[y].by, LinesPerLeg)'
    BY <1>5 DEF LinesOK, Elsewhere, Strange, Apart, Recorded, Clean
  <1>6. ASSUME armTool = "f1c2"
        PROVE  /\ armAt' # "idle" => Elsewhere(measured.by, Leg)'
               /\ armAt' \in {"wait", "probe"} => measured'.n = 0
               /\ armAt' \in {"measured", "succeeded", "stopped ok"} => measured'.n = RowsPerLeg
    BY <1>2, <1>6 DEF LinesOK, Elsewhere, Strange
  <1>7. ASSUME armTool = "f1c2"
        PROVE  (armAt # "idle" => \A x \in Legs \ {Leg} : Apart(x, Leg, measured.by, Made))'
    <2>1. SUFFICES ASSUME armAt' # "idle", NEW x \in Legs \ {Leg'}
                   PROVE  Apart(x, Leg, measured.by, Made)'
      OBVIOUS
    <2>2. armAt # "idle" /\ Leg \in Legs /\ x \in Legs \ {Leg}
      BY <1>2, <2>1
    <2>3. Apart(x, Leg, measured.by, Made)
      BY <1>7, <2>2 DEF LinesOK
    <2> QED BY <1>3, <2>1, <2>2, <2>3
  <1> QED BY <1>4, <1>5, <1>6, <1>7 DEF LinesOK

\* A run begins with no line of its own; what a mixed-up leg left in its log stays there.
LEMMA BeginLines ==
    ASSUME ArmTypeOK, RunsOK, LinesOK, NEW tool \in DOMAIN ArmPhases, NEW l \in Legs,
           NEW stage \in ArmPhases[tool], BeginArm(tool, stage, l)
    PROVE  LinesOK'
  <1>1. /\ armRun < ArmRunBound /\ armRun' = armRun + 1 /\ armTool' = tool /\ armPhase' = stage
        /\ armAt' = "wait" /\ legOf' = [legOf EXCEPT ![armRun + 1] = l]
        /\ measured' = [n |-> 0, by |-> {}] /\ requestLog' = requestLog /\ result' = result
        /\ armRun > 0 => tool = armTool
    BY DEF BeginArm, Files
  <1>2. armRun \in Nat
    BY ArmFacts
  <1>3. armRun + 1 \in ArmRunIds /\ armRun' # 0
    BY <1>1, <1>2, ArmRunBoundAssumption DEF ArmRunIds
  <1>4. /\ legOf'[armRun + 1] = l
        /\ \A r \in ArmRunIds : r # armRun + 1 => legOf'[r] = legOf[r]
    BY <1>1, <1>3 DEF ArmTypeOK
  <1>5. Leg' = l
    BY <1>1, <1>4 DEF Leg
  <1>6. \A r \in 1 .. armRun : legOf'[r] = legOf[r]
    <2>1. \A r \in 1 .. armRun : r \in ArmRunIds /\ r # armRun + 1
      BY <1>1, <1>2, ArmRunBoundAssumption DEF ArmRunIds
    <2> QED BY <1>4, <2>1
  <1>7. \A x \in Legs : Strange(result[x].by, x)' <=> Strange(result[x].by, x)
    <2>1. \A x \in Legs : result[x].by \in SUBSET (1 .. armRun)
      BY ArmFacts
    <2> QED BY <1>1, <1>6, <2>1 DEF Strange
  <1>8. Made' = 0 /\ measured'.by = {} /\ measured'.n = 0
    BY <1>1 DEF Made
  <1>9. CASE tool # "f1c2"
    BY <1>1, <1>3, <1>9 DEF LinesOK
  <1>10. CASE tool = "f1c2"
    <2>1. armTool = "f1c2" /\ stage = "measure"
      <3>1. stage = "measure"
        BY <1>10 DEF ArmPhases
      <3>2. armRun = 0 \/ armRun > 0
        BY <1>2
      <3> QED BY <1>1, <1>10, <3>1, <3>2 DEF LinesOK
    <2>2. /\ \A k \in Legs : requestLog[k] >= result[k].embedded
          /\ \A k \in Legs : Elsewhere(result[k].by, k)
          /\ \A x, y \in Legs : (Recorded(y) /\ result[x].run < result[y].run) =>
                 Apart(x, y, result[y].by, LinesPerLeg)
      BY <2>1 DEF LinesOK
    <2>3. \A k \in Legs : Elsewhere(result[k].by, k)'
      BY <1>1, <1>7, <2>2 DEF Elsewhere
    <2>4. \A x, y \in Legs : (Recorded(y) /\ result[x].run < result[y].run)' =>
                 Apart(x, y, result[y].by, LinesPerLeg)'
      BY <1>1, <1>7, <2>2 DEF Apart, Recorded, Clean
    <2>5. Elsewhere(measured.by, Leg)'
      BY <1>8 DEF Elsewhere, Strange
    <2>6. ASSUME NEW x \in Legs \ {l}
          PROVE  Apart(x, Leg, measured.by, Made)'
      <3>1. requestLog[l] \in Nat
        BY ArmFacts
      <3>2. requestLog[l] >= 0
        BY <3>1
      <3>3. ~Strange(measured.by, Leg)'
        BY <1>8 DEF Strange
      <3>4. Strange(result[x].by, x) => requestLog[l] > 0
        BY <2>2 DEF Elsewhere
      <3> QED BY <1>1, <1>5, <1>7, <1>8, <3>2, <3>3, <3>4 DEF Apart
    <2> QED BY <1>1, <1>3, <1>5, <1>8, <2>1, <2>2, <2>3, <2>4, <2>5, <2>6 DEF LinesOK
  <1> QED BY <1>9, <1>10

\* One line more is enough for a count that grew by one.
LEMMA MoreLines ==
    ASSUME NEW m \in Nat, NEW n \in Nat, n <= m + 1, NEW lines \in Nat
    PROVE  (lines >= m => lines + 1 >= n) /\ (lines > m => lines + 1 > n)
  OBVIOUS

\* A request adds its line to the log of the server that answers: to this leg's, which
\* keeps the count, or to the other's, whose result then no longer fits its log.
LEMMA LogLines ==
    ASSUME ArmTypeOK, RunsOK, LinesOK, (\E ok \in BOOLEAN : Probe(ok)) \/ MeasureRow
    PROVE  LinesOK'
  <1> DEFINE o == legOf[armPort]
  <1>1. /\ UNCHANGED <<armTool, armPhase, armRun, legOf, result>>
        /\ armAt \in {"probe", "rows"} /\ armPort # 0 /\ requestLog' = Logged
        /\ armAt' \in {"failed", "measured", "rows"}
        /\ measured'.by \subseteq measured.by \cup {armPort}
    BY DEF Probe, MeasureRow, ThisRun, Servers, Reports
  <1>2. o \in Legs /\ Leg \in Legs /\ Leg' = Leg
    BY <1>1, ArmFacts DEF ArmTypeOK, Leg
  <1>3. \A k \in Legs : requestLog[k] \in Nat
    BY ArmFacts
  <1>4. \A k \in Legs : requestLog'[k] = IF k = o THEN requestLog[k] + 1 ELSE requestLog[k]
    BY <1>1 DEF Logged, ArmTypeOK
  <1>5. \A k \in Legs : requestLog'[k] \in Nat
    BY <1>3, <1>4
  <1>6. \A k \in Legs : requestLog'[k] >= requestLog[k]
    BY <1>3, <1>4
  <1>7. \A by, k : Strange(by, k)' <=> Strange(by, k)
    BY <1>1 DEF Strange
  <1>8. Strange(measured.by, Leg)' => Strange(measured.by, Leg) \/ o # Leg
    BY <1>1, <1>2 DEF Strange
  <1>9. CASE armTool # "f1c2"
    BY <1>1, <1>9 DEF LinesOK
  <1>10. CASE armTool = "f1c2"
    <2>1. /\ armPhase = "measure"
          /\ \A l \in Legs : requestLog[l] >= result[l].embedded
          /\ \A l \in Legs : Elsewhere(result[l].by, l)
          /\ Elsewhere(measured.by, Leg)
          /\ armAt = "probe" => measured.n = 0
          /\ \A x \in Legs \ {Leg} : Apart(x, Leg, measured.by, Made)
          /\ \A x, y \in Legs : (Recorded(y) /\ result[x].run < result[y].run) =>
                 Apart(x, y, result[y].by, LinesPerLeg)
      BY <1>1, <1>10 DEF LinesOK
    <2>2. /\ \A l \in Legs : result[l].embedded \in Nat
          /\ measured.n \in Nat
      BY ArmFacts
    <2>3. \A l \in Legs : requestLog'[l] >= result'[l].embedded
      BY <1>1, <1>3, <1>5, <1>6, <2>1, <2>2
    <2>4. \A l \in Legs : Clean(l)' => Clean(l) /\ l # o
      BY <1>1, <1>3, <1>4, <2>1, <2>2 DEF Clean
    <2>5. \A l \in Legs : requestLog[l] > 0 => requestLog'[l] > 0
      BY <1>3, <1>5, <1>6
    <2>6. \A l \in Legs : Elsewhere(result[l].by, l)'
      BY <1>1, <1>7, <2>1, <2>5 DEF Elsewhere
    <2>7. requestLog'[o] > 0
      BY <1>2, <1>3, <1>4
    <2>8. Elsewhere(measured.by, Leg)'
      <3>1. CASE Strange(measured.by, Leg)
        BY <1>2, <2>1, <2>5, <3>1 DEF Elsewhere
      <3>2. CASE o # Leg
        <4>1. \A k \in Legs \ {Leg} : k = o
          BY <1>2, <3>2 DEF Legs
        <4> QED BY <1>2, <2>7, <4>1 DEF Elsewhere
      <3> QED BY <1>8, <3>1, <3>2 DEF Elsewhere
    <2>9. LinesPerLeg \in Nat /\ Made \in Nat
      BY LinesFacts
    <2>10. \A x, y \in Legs : (Recorded(y) /\ result[x].run < result[y].run)' =>
               Apart(x, y, result[y].by, LinesPerLeg)'
      <3>1. \A y \in Legs : /\ requestLog[y] >= LinesPerLeg => requestLog'[y] >= LinesPerLeg
                            /\ requestLog[y] > LinesPerLeg => requestLog'[y] > LinesPerLeg
        BY <1>3, <1>5, <1>6, <2>9
      <3> QED BY <1>1, <1>7, <2>1, <2>4, <3>1 DEF Apart, Recorded
    <2>11. Made' \in Nat /\ Made' <= Made + 1
      <3>1. CASE MeasureRow
        <4>1. Made = measured.n + 1 /\ Made' = measured.n + 1 + 1
          BY <3>1 DEF MeasureRow, Made
        <4> QED BY <2>2, <4>1
      <3>2. CASE \E ok \in BOOLEAN : Probe(ok)
        <4>1. armAt = "probe" /\ armAt' \in {"failed", "rows"} /\ measured' = measured
          BY <2>1, <3>2 DEF Probe
        <4>2. Made = 0
          BY <4>1 DEF Made
        <4>3. measured'.n = 0
          BY <2>1, <4>1
        <4>4. armAt' = "failed" => Made' = 0
          BY DEF Made
        <4>5. armAt' = "rows" => Made' = measured'.n + 1
          BY DEF Made
        <4>6. Made' = 0 \/ Made' = 1
          BY <4>1, <4>3, <4>4, <4>5
        <4> QED BY <4>2, <4>6
      <3> QED BY <3>1, <3>2
    <2>12. ASSUME NEW x \in Legs \ {Leg}
           PROVE  Apart(x, Leg, measured.by, Made)'
      <3>1. SUFFICES ASSUME Recorded(x), Clean(x), x # o
                     PROVE  /\ ~Strange(measured.by, Leg)'
                            /\ requestLog'[Leg] >= Made'
                            /\ Strange(result[x].by, x) => requestLog'[Leg] > Made'
        BY <1>1, <1>2, <1>7, <2>4 DEF Apart, Recorded
      <3>2. o = Leg
        BY <1>2, <3>1 DEF Legs
      <3>3. /\ ~Strange(measured.by, Leg) /\ requestLog[Leg] >= Made
            /\ Strange(result[x].by, x) => requestLog[Leg] > Made
        BY <2>1, <3>1 DEF Apart
      <3>4. requestLog'[Leg] = requestLog[Leg] + 1
        BY <1>2, <1>4, <3>2
      <3>5. requestLog[Leg] \in Nat
        BY <1>2, <1>3
      <3>6. /\ requestLog[Leg] >= Made => requestLog[Leg] + 1 >= Made'
            /\ requestLog[Leg] > Made => requestLog[Leg] + 1 > Made'
        BY <2>9, <2>11, <3>5, MoreLines
      <3> QED BY <1>8, <3>2, <3>3, <3>4, <3>6
    <2>13. armAt' \notin {"wait", "probe", "measured", "succeeded", "stopped ok"}
      BY <2>1 DEF Probe, MeasureRow
    <2> QED BY <1>1, <1>2, <1>10, <2>1, <2>3, <2>6, <2>8, <2>10, <2>12, <2>13 DEF LinesOK
  <1> QED BY <1>9, <1>10

\* A result takes over what was counted for its run.
LEMMA WriteLines ==
    ASSUME ArmTypeOK, RunsOK, LinesOK, WriteEarly \/ WriteResult
    PROVE  LinesOK'
  <1>1. /\ UNCHANGED <<armTool, armPhase, armRun, legOf, measured, requestLog>>
        /\ armAt \in {"measured", "stopped ok", "stopped failed"}
        /\ armAt' \in {"succeeded", "idle"} /\ (armAt' = "succeeded" => armAt = "measured")
        /\ armTool = "f1c2" =>
               \E ok, stopped \in BOOLEAN :
                   /\ result' = [result EXCEPT ![Leg] = Record(ok, stopped)]
                   /\ ok => armAt \in {"measured", "stopped ok"}
    BY DEF WriteEarly, WriteResult, ThisRun, Servers, Reports
  <1>2. CASE armTool # "f1c2"
    BY <1>1, <1>2 DEF LinesOK
  <1>3. CASE armTool = "f1c2"
    <2>1. PICK ok \in BOOLEAN, stopped \in BOOLEAN :
              /\ result' = [result EXCEPT ![Leg] = Record(ok, stopped)]
              /\ ok => armAt \in {"measured", "stopped ok"}
      BY <1>1, <1>3
    <2>2. /\ armPhase = "measure"
          /\ \A l \in Legs : requestLog[l] >= result[l].embedded
          /\ \A l \in Legs : Elsewhere(result[l].by, l)
          /\ Elsewhere(measured.by, Leg)
          /\ ok => measured.n = RowsPerLeg
          /\ armAt' = "succeeded" => measured.n = RowsPerLeg
          /\ \A x \in Legs \ {Leg} : Apart(x, Leg, measured.by, Made)
          /\ \A x, y \in Legs : (Recorded(y) /\ result[x].run < result[y].run) =>
                 Apart(x, y, result[y].by, LinesPerLeg)
      BY <1>1, <1>3, <2>1 DEF LinesOK
    <2>3. Leg \in Legs /\ Leg' = Leg
      BY <1>1, ArmFacts DEF Leg
    <2>4. /\ result'[Leg] = Record(ok, stopped)
          /\ \A l \in Legs : l # Leg => result'[l] = result[l]
      BY <2>1, <2>3 DEF ArmTypeOK
    <2>5. /\ result'[Leg].run = armRun
          /\ ok => /\ result'[Leg].by = measured.by
                   /\ result'[Leg].embedded = requestLog[Leg]
          /\ ~ok => /\ result'[Leg].rows = 0 /\ result'[Leg].by = {}
                    /\ result'[Leg].embedded = 0
      BY <1>3, <2>4 DEF Record
    <2>6. \A l \in Legs : /\ requestLog[l] \in Nat
                          /\ result[l].run \in 0 .. armRun
      BY ArmFacts
    <2>7. armRun \in Nat
      BY ArmFacts
    <2>8. requestLog[Leg] >= result'[Leg].embedded
      <3>1. requestLog[Leg] \in Nat
        BY <2>3, <2>6
      <3>2. result'[Leg].embedded \in {requestLog[Leg], 0}
        BY <2>5
      <3> QED BY <3>1, <3>2
    <2>9. \A l \in Legs : requestLog'[l] >= result'[l].embedded
      BY <1>1, <2>2, <2>4, <2>8
    <2>10. \A by, k : Strange(by, k)' <=> Strange(by, k)
      BY <1>1 DEF Strange
    <2>11. ASSUME NEW l \in Legs
           PROVE  Elsewhere(result[l].by, l)'
      <3>1. CASE l # Leg
        BY <1>1, <2>2, <2>4, <2>10, <3>1 DEF Elsewhere
      <3>2. CASE l = Leg /\ ok
        BY <1>1, <2>2, <2>5, <2>10, <3>2 DEF Elsewhere
      <3>3. CASE l = Leg /\ ~ok
        BY <2>5, <3>3 DEF Elsewhere, Strange
      <3> QED BY <3>1, <3>2, <3>3
    <2>12. ok \/ armAt' = "succeeded" => Made = LinesPerLeg
      BY <1>1, <2>1 DEF Made
    <2>13. armAt' = "succeeded" => Made' = Made
      BY <1>1, <2>12 DEF Made, LinesPerLeg
    <2>14. \A x \in Legs \ {Leg} : Recorded(x)' = Recorded(x) /\ Clean(x)' = Clean(x)
      BY <1>1, <2>4 DEF Recorded, Clean
    <2>15. \A x \in Legs \ {Leg} : armAt' = "succeeded" => Apart(x, Leg, measured.by, Made)'
      BY <1>1, <2>2, <2>3, <2>4, <2>10, <2>13, <2>14 DEF Apart
    <2>16. Elsewhere(measured.by, Leg)'
      BY <1>1, <2>2, <2>3, <2>10 DEF Elsewhere
    <2>17. ASSUME NEW x \in Legs, NEW y \in Legs, Recorded(y)', result'[x].run < result'[y].run
           PROVE  Apart(x, y, result[y].by, LinesPerLeg)'
      <3>1. x # Leg
        <4>1. SUFFICES ASSUME x = Leg
                       PROVE  FALSE
          OBVIOUS
        <4>2. armRun < result'[y].run
          BY <2>5, <2>17, <4>1
        <4>3. result'[y].run = armRun \/ (result'[y].run = result[y].run)
          BY <2>4, <2>5
        <4>4. result[y].run \in 0 .. armRun
          BY <2>6
        <4> QED BY <2>7, <4>2, <4>3, <4>4
      <3>2. CASE y = Leg
        <4>1. ok
          <5>1. RowsPerLeg # 0
            BY RowsPerLegAssumption
          <5> QED BY <2>5, <2>17, <3>2, <5>1 DEF Recorded
        <4>2. Apart(x, Leg, measured.by, LinesPerLeg)
          BY <2>2, <2>12, <3>1, <4>1
        <4> QED BY <1>1, <2>4, <2>5, <2>10, <2>14, <3>1, <3>2, <4>1, <4>2 DEF Apart
      <3>3. CASE y # Leg
        <4>1. Recorded(y) /\ result[x].run < result[y].run
          BY <2>4, <2>14, <2>17, <3>1, <3>3
        <4>2. Apart(x, y, result[y].by, LinesPerLeg)
          BY <2>2, <4>1
        <4> QED BY <1>1, <2>4, <2>10, <2>14, <3>1, <3>3, <4>2 DEF Apart
      <3> QED BY <3>2, <3>3
    <2>18. (armRun = 0 => armTool = "f1c2")'
      BY <1>1, <1>3
    <2> QED BY <1>1, <2>2, <2>3, <2>9, <2>11, <2>15, <2>16, <2>17, <2>18 DEF LinesOK
  <1> QED BY <1>2, <1>3

\* Every step keeps the count of the lines.
LEMMA LinesStep == ASSUME ArmTypeOK, RunsOK, LinesOK, [ArmNext]_armVars PROVE LinesOK'
  <1>0. Made \in Nat
    BY LinesFacts
  <1>1. CASE \E tool \in DOMAIN ArmPhases, l \in Legs : \E stage \in ArmPhases[tool] :
             BeginArm(tool, stage, l)
    BY <1>1, BeginLines
  <1>2. CASE (\E ok \in BOOLEAN : Probe(ok)) \/ MeasureRow
    BY <1>2, LogLines
  <1>3. CASE WriteEarly \/ WriteResult
    BY <1>3, WriteLines
  <1>4. CASE \/ WaitReady \/ WaitFails \/ AllMeasured \/ RequestRaises \/ StopArmServer
             \/ StopRaises \/ KillDriver \/ (\E r \in ArmRunIds : BindPort(r) \/ ArmServerDies(r))
             \/ WriteReport \/ Validate \/ UNCHANGED armVars
    <2>1. UNCHANGED <<armTool, armPhase, armRun, legOf, measured, requestLog, result>>
      BY <1>4 DEF WaitReady, WaitFails, AllMeasured, RequestRaises, StopArmServer, StopRaises,
         KillDriver, BindPort, ArmServerDies, WriteReport, Validate, ThisRun, Servers, Files,
         Reports, Rest, armVars
    <2>2. \/ armAt' = armAt
          \/ armAt' = "idle"
          \/ armAt # "idle" /\ armAt' \in {"failed", "stopped failed"}
          \/ armAt = "wait" /\ armAt' = "probe"
          \/ armAt = "wait" /\ armAt' = "rows" /\ armPhase = "performance"
          \/ armAt = "rows" /\ armAt' = "measured" /\ measured.n = RowsPerLeg
          \/ armAt = "succeeded" /\ armAt' = "stopped ok"
      BY <1>4 DEF WaitReady, WaitFails, AllMeasured, RequestRaises, StopArmServer, StopRaises,
         KillDriver, BindPort, ArmServerDies, WriteReport, Validate, ThisRun, Servers, Files,
         Reports, Rest, armVars
    <2>3. CASE armTool # "f1c2"
      BY <2>1, <2>3 DEF LinesOK
    <2>4. CASE armTool = "f1c2"
      <3>1. /\ armPhase # "performance"
            /\ armAt \in {"measured", "succeeded", "stopped ok"} => measured.n = RowsPerLeg
        BY <2>4 DEF LinesOK
      <3>2. /\ armAt' # "idle" => armAt # "idle"
            /\ armAt' \in {"wait", "probe"} => armAt \in {"wait", "probe"}
            /\ armAt' \in {"measured", "succeeded", "stopped ok"} => measured.n = RowsPerLeg
        BY <2>2, <3>1
      <3>3. armAt' # "idle" => Made' \in {0, Made}
        BY <2>1, <2>2, <3>1 DEF Made, LinesPerLeg
      <3>4. armAt' # "idle" => Made' \in Nat /\ Made' <= Made
        BY <1>0, <3>3
      <3> QED BY <2>1, <3>2, <3>4, QuietStep
    <2> QED BY <2>3, <2>4
  <1> QED BY <1>1, <1>2, <1>3, <1>4 DEF ArmNext

\* The invariant of the arms holds in every reachable state of a run of either benchmark.
THEOREM ArmInvariance == ArmSpec => []ArmInv
  <1>1. ArmInit => ArmInv
    <2>1. SUFFICES ASSUME ArmInit
                   PROVE  ArmInv
      OBVIOUS
    <2>2. ArmTypeOK
      <3>1. measured \in RowsMeasuredBy(0)
        <4>1. {} \in SUBSET (1 .. 0)
          OBVIOUS
        <4> QED BY <2>1, <4>1 DEF RowsMeasuredBy, ArmInit
      <3>2. NoResult \in ResultsBy(0)
        <4>1. 0 \in 0 .. 0 /\ {} \in SUBSET (1 .. 0)
          OBVIOUS
        <4> QED BY <4>1 DEF NoResult, ResultsBy
      <3>3. armRun = 0 /\ 0 \in 0 .. ArmRunBound /\ 0 \in 0 .. 0
        BY <2>1, ArmRunBoundAssumption DEF ArmInit
      <3> QED BY <2>1, <3>1, <3>2, <3>3 DEF ArmInit, ArmTypeOK, Legs
    <2>3. RunsOK /\ StoppedOK /\ ValidationOK
      BY <2>1 DEF ArmInit, RunsOK, StoppedOK, ValidationOK, NoResult
    <2>4. LinesOK
      <3>1. RowsPerLeg # 0
        BY RowsPerLegAssumption
      <3>2. \A l \in Legs : requestLog[l] = 0 /\ result[l] = NoResult
        BY <2>1 DEF ArmInit
      <3>3. \A l \in Legs : ~Recorded(l)
        BY <3>1, <3>2 DEF Recorded, NoResult
      <3>4. \A l \in Legs : requestLog[l] >= result[l].embedded
        BY <3>2 DEF NoResult
      <3>5. \A l \in Legs : Elsewhere(result[l].by, l)
        BY <3>2 DEF NoResult, Elsewhere, Strange
      <3> QED BY <2>1, <3>3, <3>4, <3>5 DEF LinesOK, ArmInit
    <2> QED BY <2>2, <2>3, <2>4 DEF ArmInv
  <1>2. ArmInv /\ [ArmNext]_armVars => ArmInv'
    BY ArmTypeStep, BooksStep, LinesStep DEF ArmInv
  <1> QED BY <1>1, <1>2, PTL DEF ArmSpec

\* Whatever runs were repeated over the directories, killed, or could not be stopped, a
\* validation that passes is about servers that are gone.
THEOREM ValidationsAreOfDeadServers == ArmSpec => []ValidatedServersAreGone
  <1>1. ArmInv => ValidatedServersAreGone
    BY DEF ArmInv, ValidationOK, StoppedOK, LegValid, ValidatedServersAreGone
  <1> QED BY <1>1, ArmInvariance, PTL

\* However many drivers were killed and left their servers on the port, every row of a
\* validated f1c2 leg was answered by a server started for that leg: of two validated legs
\* the later one logged all its lines itself, or the log of the earlier one grew after it
\* was copied; and then a row the earlier one got from it is a line too many in its log.
THEOREM ValidatedRowsAreOwn == ArmSpec => []ValidatedRowsAreOfTheLeg
  <1>1. ASSUME ArmInv, validated, armTool = "f1c2", NEW l \in Legs
        PROVE  ~Strange(result[l].by, l)
    <2>1. \A k \in Legs : Recorded(k) /\ Clean(k) /\ requestLog[k] = LinesPerLeg
      BY <1>1 DEF ArmInv, ValidationOK, LegValid, Recorded, Clean
    <2>2. RowsPerLeg # 0
      BY RowsPerLegAssumption
    <2>3. \A k \in Legs : result[k].run \in 0 .. armRun
      BY <1>1, ArmFacts DEF ArmInv
    <2>4. \A k \in Legs : result[k].run \in Nat /\ result[k].run > 0
      BY <1>1, <2>1, <2>2, <2>3 DEF ArmInv, RunsOK, Recorded
    <2>5. PICK o \in Legs : o # l
      BY DEF Legs
    <2>6. result[l].run # result[o].run
      BY <1>1, <2>4, <2>5 DEF ArmInv, RunsOK
    <2>7. \A x, y \in Legs : result[x].run < result[y].run =>
              /\ ~Strange(result[y].by, y)
              /\ Strange(result[x].by, x) => requestLog[y] > LinesPerLeg
      BY <1>1, <2>1 DEF ArmInv, LinesOK, Apart
    <2>8. ~(LinesPerLeg > LinesPerLeg)
      <3>1. LinesPerLeg \in Nat
        BY <1>1, LinesFacts DEF ArmInv
      <3> QED BY <3>1
    <2>9. result[l].run < result[o].run \/ result[o].run < result[l].run
      BY <2>4, <2>6
    <2> QED BY <2>1, <2>7, <2>8, <2>9
  <1>2. ArmInv => ValidatedRowsAreOfTheLeg
    BY <1>1 DEF ValidatedRowsAreOfTheLeg, Strange
  <1> QED BY <1>2, ArmInvariance, PTL

-----------------------------------------------------------------------------
(* ProbeRun                                                                *)

ProberPositions == {"none", "start", "check", "open", "write", "replace", "ended"}
Writing == {"check", "open", "write", "replace"}
ProbeRecords == [by : Probers \cup {0}, status : {"torn", "running", "passed", "failed"},
                 outcomes : Seq(Outcomes)]

\* The states of a behavior leg: a prober has a file open exactly while it writes.
ProbeTypeOK ==
    /\ legAt \in {"idle", "probe"}
    /\ legRuns \in Probers \cup {0}
    /\ legAt = "probe" => legRuns \in Probers
    /\ proberAt \in [Probers -> ProberPositions]
    /\ proberCode \in [Probers -> Int]
    /\ outcomes \in [Probers -> Seq(Outcomes)]
    /\ label \in [Probers -> {"running", "passed", "failed"}]
    /\ handle \in [Probers -> Inodes \cup {0}]
    /\ \A p \in Probers : handle[p] # 0 <=> proberAt[p] = "write"
    /\ content \in [Inodes -> ProbeRecords]
    /\ incomplete \in Inodes \cup {0}
    /\ probeFile \in Inodes \cup {0}
    /\ legResult \in [run : Probers \cup {0}, status : {"none", "passed", "failed"},
                      evidence : ProbeRecords]
    /\ orphaned \in BOOLEAN
    /\ \A p \in Probers : proberAt[p] \in {"none", "start"} => outcomes[p] = << >>
    /\ \A p \in Probers : legRuns < p => proberAt[p] = "none"

\* Whatever says "passed" - a label, an exit code, a record, a result - was earned.
Earned ==
    /\ \A p \in Probers : label[p] = "passed" =>
           Everything(outcomes[p]) /\ proberAt[p] \in {"open", "write", "replace", "ended"}
    /\ \A p \in Probers : proberCode[p] = 0 =>
           Everything(outcomes[p]) /\ proberAt[p] = "ended"
    /\ \A i \in Inodes : content[i].status = "passed" => Everything(content[i].outcomes)
    /\ legResult.status = "passed" =>
           /\ legResult.run \in Probers /\ proberCode[legResult.run] = 0
           /\ Everything(legResult.evidence.outcomes)

\* The record is what its prober has found, or that without the last check.
Behind(found) ==
    /\ found.by \in Probers
    /\ \/ outcomes[found.by] = found.outcomes
       \/ \E e \in Outcomes : outcomes[found.by] = Append(found.outcomes, e)

\* What prober p finds in the files when nobody else is at work.
FilesOf(p) ==
    /\ proberAt[p] \in Writing /\ probeFile # 0 => content[probeFile].by = p
    /\ proberAt[p] = "check" =>
           IF probeFile = 0 THEN outcomes[p] = << >>
                            ELSE content[probeFile].outcomes = outcomes[p]
    /\ proberAt[p] = "write" => handle[p] = incomplete /\ content[incomplete] = Torn
    /\ proberAt[p] = "replace" =>
           /\ incomplete # 0
           /\ content[incomplete] = [by |-> p, status |-> label[p], outcomes |-> outcomes[p]]
    /\ Len(outcomes[p]) > 1 => probeFile # 0
    /\ proberCode[p] = 0 => probeFile # 0 /\ content[probeFile].by = p

\* Until a driver leaves a prober behind, only the prober of the last run is at work.
AloneAtWork ==
    ~orphaned =>
        /\ \A p \in Probers : AliveProber(p) => p = legRuns /\ legAt = "probe"
        /\ incomplete # 0 => incomplete # probeFile
        /\ \A p \in Probers : FilesOf(p)
        /\ probeFile # 0 => Behind(content[probeFile])
        /\ legResult.status = "passed" => legResult.evidence.by = legResult.run

ProbeInv == ProbeTypeOK /\ Earned /\ AloneAtWork


\* A prober that is about to open the temporary file finds a free inode: the others hold at
\* most one each, and one is probe.json.
LEMMA AnInodeIsFree ==
    ASSUME ProbeTypeOK, NEW p \in Probers, proberAt[p] = "open"
    PROVE  \E j \in Inodes : j \notin {probeFile} \cup {handle[q] : q \in Probers}
  <1> DEFINE Others == Probers \ {p}
             Held == {handle[q] : q \in Others}
             f == [q \in Others |-> handle[q]]
  <1>1. ProbeRunBound \in Nat /\ ProbeRunBound >= 1
    BY ProbeRunBoundAssumption DEF Probers
  <1>2. IsFiniteSet(Probers) /\ Cardinality(Probers) = ProbeRunBound
    BY <1>1, FS_Interval DEF Probers
  <1>3. IsFiniteSet(Inodes) /\ Cardinality(Inodes) = ProbeRunBound + 1
    BY <1>1, FS_Interval DEF Inodes
  <1>4. IsFiniteSet(Others) /\ Cardinality(Others) = ProbeRunBound - 1
    BY <1>2, FS_RemoveElement
  <1>5. f \in Surjection(Others, Held)
    BY DEF Surjection
  <1>6. IsFiniteSet(Held) /\ Cardinality(Held) <= Cardinality(Others)
    <2> HIDE DEF f, Held, Others
    <2> QED BY <1>4, <1>5, FS_Surjection
  <1>7. /\ IsFiniteSet(Held \cup {probeFile})
        /\ Cardinality(Held \cup {probeFile}) \in {Cardinality(Held), Cardinality(Held) + 1}
    <2> HIDE DEF Held
    <2> QED BY <1>6, FS_AddElement
  <1>8. Cardinality(Held) \in Nat
    <2> HIDE DEF Held
    <2> QED BY <1>6, FS_CardinalityType
  <1>9. ~(Inodes \subseteq Held \cup {probeFile})
    <2>1. SUFFICES ASSUME Inodes \subseteq Held \cup {probeFile}
                   PROVE  FALSE
      OBVIOUS
    <2>2. Cardinality(Inodes) <= Cardinality(Held \cup {probeFile})
      <3> HIDE DEF Held
      <3> QED BY <1>7, <2>1, FS_Subset
    <2> HIDE DEF Held, Others
    <2> QED BY <1>1, <1>3, <1>4, <1>6, <1>7, <1>8, <2>2
  <1>10. PICK j \in Inodes : j \notin Held \cup {probeFile}
    BY <1>9
  <1>11. handle[p] = 0
    BY DEF ProbeTypeOK
  <1>12. j # 0
    BY <1>1 DEF Inodes
  <1> QED BY <1>10, <1>11, <1>12

\* What opening the temporary file does.
LEMMA Opened ==
    ASSUME ProbeTypeOK, NEW p \in Probers, OpenIncomplete(p)
    PROVE  \E i \in Inodes :
               /\ IF incomplete # 0 THEN i = incomplete ELSE i # probeFile
               /\ incomplete' = i
               /\ handle' = [handle EXCEPT ![p] = i]
               /\ content' = [content EXCEPT ![i] = Torn]
  <1> DEFINE held == {probeFile} \cup {handle[q] : q \in Probers}
             i == IF incomplete # 0 THEN incomplete ELSE CHOOSE j \in Inodes : j \notin held
  <1>1. incomplete' = i /\ handle' = [handle EXCEPT ![p] = i] /\ content' = [content EXCEPT ![i] = Torn]
    BY DEF OpenIncomplete
  <1>2. CASE incomplete # 0
    BY <1>1, <1>2 DEF ProbeTypeOK
  <1>3. CASE incomplete = 0
    <2>1. \E j \in Inodes : j \notin held
      BY AnInodeIsFree DEF OpenIncomplete
    <2>2. i \in Inodes /\ i \notin held
      <3> HIDE DEF held
      <3> QED BY <1>3, <2>1
    <2> QED BY <1>1, <1>3, <2>2
  <1> QED BY <1>2, <1>3

\* What is written into probe.json is a record.
LEMMA RecordTypes ==
    /\ Torn \in ProbeRecords /\ NoRecord \in ProbeRecords
    /\ \A p \in Probers, s \in {"running", "passed", "failed"}, es \in Seq(Outcomes) :
           [by |-> p, status |-> s, outcomes |-> es] \in ProbeRecords
  <1>1. << >> \in Seq(Outcomes)
    OBVIOUS
  <1> QED BY <1>1 DEF Torn, NoRecord, ProbeRecords

\* Every step keeps the types, and a prober has a file open exactly while it writes.
LEMMA ProbeTypeStep == ASSUME ProbeTypeOK, [ProbeNext]_probeVars PROVE ProbeTypeOK'
  <1> USE DEF ProberPositions
  <1>1. CASE BeginLeg
    <2>1. /\ legRuns < ProbeRunBound /\ legRuns' = legRuns + 1 /\ legAt' = "probe"
          /\ proberAt' = [proberAt EXCEPT ![legRuns + 1] = "start"]
          /\ UNCHANGED <<proberCode, outcomes, label, handle, content, incomplete, probeFile,
                         legResult, orphaned>>
      BY <1>1 DEF BeginLeg, ProberGoes, fileVars
    <2>2. legRuns \in Nat
      BY ProbeRunBoundAssumption DEF ProbeTypeOK, Probers
    <2>3. legRuns + 1 \in Probers
      BY <2>1, <2>2, ProbeRunBoundAssumption DEF Probers
    <2>4. proberAt[legRuns + 1] = "none"
      BY <2>2, <2>3 DEF ProbeTypeOK
    <2>5. \A p \in Probers : legRuns + 1 < p => legRuns < p /\ p # legRuns + 1
      BY <2>2, ProbeRunBoundAssumption DEF Probers
    <2> QED BY <2>1, <2>3, <2>4, <2>5 DEF ProbeTypeOK
  <1>2. CASE ProbeTimesOut \/ ReadEvidence
    <2>1. /\ legRuns \in Probers /\ legRuns' = legRuns /\ legAt' = "idle"
          /\ UNCHANGED <<outcomes, label, content, incomplete, probeFile, orphaned>>
      BY <1>2 DEF ProbeTimesOut, ReadEvidence, proberVars, fileVars, ProbeTypeOK
    <2>2. /\ proberAt' \in [Probers -> ProberPositions] /\ proberCode' \in [Probers -> Int]
          /\ handle' \in [Probers -> Inodes \cup {0}]
          /\ \A p \in Probers : proberAt'[p] = proberAt[p] \/ (proberAt'[p] = "ended" /\ legRuns = p)
          /\ \A p \in Probers : handle'[p] # 0 <=> proberAt'[p] = "write"
      <3>1. CASE ProbeTimesOut
        <4>1. /\ proberAt' = [proberAt EXCEPT ![legRuns] = "ended"]
              /\ proberCode' = [proberCode EXCEPT ![legRuns] = 9]
              /\ handle' = [handle EXCEPT ![legRuns] = 0]
          BY <3>1 DEF ProbeTimesOut, ProberEnds, ProberGoes
        <4>2. /\ proberAt \in [Probers -> ProberPositions] /\ proberCode \in [Probers -> Int]
              /\ handle \in [Probers -> Inodes \cup {0}]
              /\ \A p \in Probers : handle[p] # 0 <=> proberAt[p] = "write"
          BY DEF ProbeTypeOK
        <4>3. proberAt' \in [Probers -> ProberPositions]
          BY <4>1, <4>2
        <4>4. proberCode' \in [Probers -> Int]
          <5>1. proberCode \in [Probers -> Int]
            BY DEF ProbeTypeOK
          <5>2. 9 \in Int
            OBVIOUS
          <5> QED BY <4>1, <5>1, <5>2, Zenon
        <4>5. handle' \in [Probers -> Inodes \cup {0}]
          BY <4>1, <4>2
        <4>6. \A p \in Probers :
                  /\ proberAt'[p] = IF p = legRuns THEN "ended" ELSE proberAt[p]
                  /\ handle'[p] = IF p = legRuns THEN 0 ELSE handle[p]
          BY <4>1, <4>2
        <4> QED BY <4>2, <4>3, <4>4, <4>5, <4>6
      <3>2. CASE ReadEvidence
        BY <3>2 DEF ReadEvidence, proberVars, ProbeTypeOK
      <3> QED BY <1>2, <3>1, <3>2
    <2>3. legResult' \in [run : Probers \cup {0}, status : {"none", "passed", "failed"},
                          evidence : ProbeRecords]
      <3>1. CASE ProbeTimesOut
        BY <2>1, <3>1, RecordTypes DEF ProbeTimesOut
      <3>2. CASE ReadEvidence
        <4>1. (IF probeFile = 0 THEN NoRecord ELSE content[probeFile]) \in ProbeRecords
          BY RecordTypes DEF ProbeTypeOK
        <4> QED BY <2>1, <3>2, <4>1 DEF ReadEvidence
      <3> QED BY <1>2, <3>1, <3>2
    <2>4. \A p \in Probers : legRuns < p => p # legRuns
      BY ProbeRunBoundAssumption DEF Probers
    <2> QED BY <2>1, <2>2, <2>3, <2>4 DEF ProbeTypeOK
  <1>3. CASE DriverDies
    BY <1>3 DEF DriverDies, proberVars, fileVars, ProbeTypeOK, AliveProber
  <1>4. ASSUME NEW p \in Probers,
               \/ StartProber(p) \/ (\E found \in Outcomes : RunCheck(p, found))
               \/ UncaughtError(p) \/ OpenIncomplete(p) \/ WriteIncomplete(p)
               \/ RenameIncomplete(p) \/ ProberDies(p)
        PROVE  ProbeTypeOK'
    <2>1. /\ UNCHANGED <<legAt, legRuns, legResult, orphaned>>
          /\ proberAt[p] \notin {"none", "ended"}
          /\ \E at \in {"check", "open", "write", "replace", "ended"} :
                 proberAt' = [proberAt EXCEPT ![p] = at]
      BY <1>4 DEF StartProber, RunCheck, UncaughtError, OpenIncomplete, WriteIncomplete,
         RenameIncomplete, ProberDies, ProberEnds, ProberGoes, AfterRecord, AliveProber,
         DriverOfLeg, ProbeTypeOK
    <2>2. /\ proberCode' \in [Probers -> Int]
          /\ label' \in [Probers -> {"running", "passed", "failed"}]
      BY <1>4 DEF StartProber, RunCheck, UncaughtError, OpenIncomplete, WriteIncomplete,
         RenameIncomplete, ProberDies, ProberEnds, AfterRecord, ProbeTypeOK
    <2>3. /\ outcomes' \in [Probers -> Seq(Outcomes)]
          /\ \A q \in Probers : q # p => outcomes'[q] = outcomes[q]
      <3>1. CASE outcomes' = outcomes
        BY <3>1 DEF ProbeTypeOK
      <3>2. ASSUME NEW e \in Outcomes, outcomes' = [outcomes EXCEPT ![p] = Append(@, e)]
            PROVE  <2>3!1 /\ <2>3!2
        <4>1. outcomes \in [Probers -> Seq(Outcomes)] /\ Append(outcomes[p], e) \in Seq(Outcomes)
          BY DEF ProbeTypeOK
        <4> QED BY <3>2, <4>1
      <3> QED
        BY <1>4, <3>1, <3>2 DEF StartProber, RunCheck, UncaughtError, OpenIncomplete,
           WriteIncomplete, RenameIncomplete, ProberDies, fileVars
    <2>4. /\ handle' \in [Probers -> Inodes \cup {0}]
          /\ \A q \in Probers : handle'[q] # 0 <=> proberAt'[q] = "write"
      <3>1. CASE OpenIncomplete(p)
        <4>1. 0 \notin Inodes
          BY ProbeRunBoundAssumption DEF Inodes
        <4>2. PICK i \in Inodes : handle' = [handle EXCEPT ![p] = i]
          BY <3>1, Opened
        <4>3. proberAt' = [proberAt EXCEPT ![p] = "write"]
          BY <3>1 DEF OpenIncomplete, ProberGoes
        <4> QED BY <4>1, <4>2, <4>3 DEF ProbeTypeOK
      <3>2. CASE ~OpenIncomplete(p)
        BY <1>4, <3>2 DEF StartProber, RunCheck, UncaughtError, WriteIncomplete,
           RenameIncomplete, ProberDies, ProberEnds, ProberGoes, AfterRecord, ProbeTypeOK
      <3> QED BY <3>1, <3>2
    <2>5. /\ content' \in [Inodes -> ProbeRecords]
          /\ incomplete' \in Inodes \cup {0} /\ probeFile' \in Inodes \cup {0}
      <3>1. CASE OpenIncomplete(p)
        BY <3>1, Opened, RecordTypes DEF OpenIncomplete, ProbeTypeOK
      <3>2. CASE WriteIncomplete(p)
        <4>1. [by |-> p, status |-> label[p], outcomes |-> outcomes[p]] \in ProbeRecords
          BY RecordTypes DEF ProbeTypeOK
        <4> QED BY <3>2, <4>1, RecordTypes DEF WriteIncomplete, ProbeTypeOK
      <3>3. CASE ~(OpenIncomplete(p) \/ WriteIncomplete(p))
        BY <1>4, <3>3 DEF StartProber, RunCheck, UncaughtError, RenameIncomplete, ProberDies,
           fileVars, ProbeTypeOK
      <3> QED BY <3>1, <3>2, <3>3
    <2>6. \A q \in Probers : legRuns < q => q # p
      BY <2>1 DEF ProbeTypeOK
    <2>7. /\ proberAt' \in [Probers -> ProberPositions] /\ proberAt'[p] \notin {"none", "start"}
          /\ \A q \in Probers : q # p => proberAt'[q] = proberAt[q]
      BY <2>1 DEF ProbeTypeOK
    <2> QED BY <2>1, <2>2, <2>3, <2>4, <2>5, <2>6, <2>7 DEF ProbeTypeOK
  <1>5. CASE UNCHANGED probeVars
    BY <1>5 DEF probeVars, proberVars, fileVars, ProbeTypeOK
  <1> QED BY <1>1, <1>2, <1>3, <1>4, <1>5 DEF ProbeNext

\* A step of prober p.
ProberStep(p) ==
    \/ StartProber(p) \/ (\E found \in Outcomes : RunCheck(p, found))
    \/ UncaughtError(p) \/ OpenIncomplete(p) \/ WriteIncomplete(p)
    \/ RenameIncomplete(p) \/ ProberDies(p)

\* A step of prober p changes no other prober and nothing of the leg.
LEMMA ProberFacts ==
    ASSUME ProbeTypeOK, NEW p \in Probers, ProberStep(p)
    PROVE  /\ UNCHANGED <<legAt, legRuns, legResult, orphaned>>
           /\ AliveProber(p)
           /\ \A q \in Probers : q # p =>
                  /\ proberAt'[q] = proberAt[q] /\ proberCode'[q] = proberCode[q]
                  /\ outcomes'[q] = outcomes[q] /\ label'[q] = label[q]
                  /\ handle'[q] = handle[q]
           /\ proberAt'[p] \in Writing \cup {"ended"}
           /\ ~RenameIncomplete(p) => probeFile' = probeFile
           /\ proberCode'[p] # proberCode[p] => proberAt'[p] = "ended"
           /\ proberCode'[p] = 0 =>
                  proberCode[p] = 0 \/ (label[p] = "passed" /\ RenameIncomplete(p) /\ incomplete # 0)
  <1>1. /\ UNCHANGED <<legAt, legRuns, legResult, orphaned>>
        /\ AliveProber(p)
        /\ ~RenameIncomplete(p) => probeFile' = probeFile
    BY DEF ProberStep, StartProber, RunCheck, UncaughtError, OpenIncomplete, WriteIncomplete,
       RenameIncomplete, ProberDies, AliveProber, DriverOfLeg, fileVars
  <1>2. \/ proberCode' = proberCode
        \/ /\ proberAt' = [proberAt EXCEPT ![p] = "ended"]
           /\ \E c \in {0, 1, 9} :
                  /\ proberCode' = [proberCode EXCEPT ![p] = c]
                  /\ c = 0 => label[p] = "passed" /\ RenameIncomplete(p) /\ incomplete # 0
    BY DEF ProberStep, StartProber, RunCheck, UncaughtError, OpenIncomplete, WriteIncomplete,
       RenameIncomplete, ProberDies, ProberEnds, ProberGoes
  <1>3. \E at \in Writing \cup {"ended"} : proberAt' = [proberAt EXCEPT ![p] = at]
    BY DEF ProberStep, StartProber, RunCheck, UncaughtError, OpenIncomplete, WriteIncomplete,
       RenameIncomplete, ProberDies, ProberEnds, ProberGoes, AfterRecord, Writing
  <1>4. \/ outcomes' = outcomes
        \/ \E e \in Outcomes : outcomes' = [outcomes EXCEPT ![p] = Append(@, e)]
    BY DEF ProberStep, StartProber, RunCheck, UncaughtError, OpenIncomplete, WriteIncomplete,
       RenameIncomplete, ProberDies
  <1>5. label' = label \/ \E s : label' = [label EXCEPT ![p] = s]
    BY DEF ProberStep, StartProber, RunCheck, UncaughtError, OpenIncomplete, WriteIncomplete,
       RenameIncomplete, ProberDies, AfterRecord
  <1>6. handle' = handle \/ \E i : handle' = [handle EXCEPT ![p] = i]
    BY DEF ProberStep, StartProber, RunCheck, UncaughtError, OpenIncomplete, WriteIncomplete,
       RenameIncomplete, ProberDies, ProberEnds
  <1>7. \A q \in Probers : q # p =>
            /\ proberAt'[q] = proberAt[q] /\ proberCode'[q] = proberCode[q]
            /\ outcomes'[q] = outcomes[q] /\ label'[q] = label[q]
            /\ handle'[q] = handle[q]
    BY <1>2, <1>3, <1>4, <1>5, <1>6 DEF ProbeTypeOK
  <1>8. /\ proberAt'[p] \in Writing \cup {"ended"}
        /\ proberCode'[p] # proberCode[p] => proberAt'[p] = "ended"
        /\ proberCode'[p] = 0 =>
               proberCode[p] = 0 \/ (label[p] = "passed" /\ RenameIncomplete(p) /\ incomplete # 0)
    BY <1>2, <1>3 DEF ProbeTypeOK
  <1> QED BY <1>1, <1>7, <1>8

\* Every step keeps it: a check resets the label, and only an earned label is turned into
\* an exit code, a record or a result.
LEMMA EarnedStep ==
    ASSUME ProbeTypeOK, Earned, [ProbeNext]_probeVars
    PROVE  Earned'
  <1>1. CASE BeginLeg
    <2>1. /\ legRuns < ProbeRunBound
          /\ proberAt' = [proberAt EXCEPT ![legRuns + 1] = "start"]
          /\ UNCHANGED <<proberCode, outcomes, label, content, legResult>>
      BY <1>1 DEF BeginLeg, ProberGoes, fileVars
    <2>2. legRuns \in Nat
      BY ProbeRunBoundAssumption DEF ProbeTypeOK, Probers
    <2>3. legRuns + 1 \in Probers /\ legRuns < legRuns + 1
      BY <2>1, <2>2, ProbeRunBoundAssumption DEF Probers
    <2>4. proberAt[legRuns + 1] = "none"
      BY <2>3 DEF ProbeTypeOK
    <2>5. \A p \in Probers : p # legRuns + 1 => proberAt'[p] = proberAt[p]
      BY <2>1 DEF ProbeTypeOK
    <2> QED BY <2>1, <2>3, <2>4, <2>5 DEF Earned
  <1>2. CASE ProbeTimesOut
    <2>1. /\ legRuns \in Probers /\ AliveProber(legRuns)
          /\ UNCHANGED <<outcomes, label, content>>
          /\ legResult' = [run |-> legRuns, status |-> "failed", evidence |-> NoRecord]
          /\ proberAt' = [proberAt EXCEPT ![legRuns] = "ended"]
          /\ proberCode' = [proberCode EXCEPT ![legRuns] = 9]
      BY <1>2 DEF ProbeTimesOut, ProberEnds, ProberGoes, fileVars, ProbeTypeOK
    <2>2. legResult'.status # "passed"
      BY <2>1
    <2>3. \A p \in Probers : proberAt'[p] \in {proberAt[p], "ended"} /\ proberCode'[p] \in {proberCode[p], 9}
      BY <2>1 DEF ProbeTypeOK
    <2>4. \A p \in Probers : proberCode'[p] = 0 => proberCode[p] = 0
      BY <2>3
    <2> QED BY <2>1, <2>2, <2>3, <2>4 DEF Earned
  <1>3. CASE ReadEvidence
    <2> DEFINE found == IF probeFile = 0 THEN NoRecord ELSE content[probeFile]
    <2>1. /\ legRuns \in Probers
          /\ UNCHANGED <<proberAt, proberCode, outcomes, label, content>>
          /\ legResult' = [run |-> legRuns,
                           status |-> IF LegPassed(legRuns, found) THEN "passed" ELSE "failed",
                           evidence |-> found]
      BY <1>3 DEF ReadEvidence, proberVars, fileVars, ProbeTypeOK
    <2>2. found.status = "passed" => Everything(found.outcomes)
      BY DEF NoRecord, Earned, ProbeTypeOK
    <2>3. legResult'.status = "passed" =>
              /\ legResult'.run \in Probers /\ proberCode'[legResult'.run] = 0
              /\ Everything(legResult'.evidence.outcomes)
      <3> HIDE DEF found
      <3> QED BY <2>1, <2>2 DEF LegPassed
    <2> QED BY <2>1, <2>3 DEF Earned
  <1>4. CASE DriverDies \/ UNCHANGED probeVars
    BY <1>4 DEF DriverDies, probeVars, proberVars, fileVars, Earned
  <1>5. ASSUME NEW p \in Probers, ProberStep(p)
        PROVE  Earned'
    <2>1. label'[p] = "passed" =>
              Everything(outcomes'[p]) /\ proberAt'[p] \in {"open", "write", "replace", "ended"}
      <3>1. CASE \E found \in Outcomes : RunCheck(p, found)
        BY <3>1 DEF RunCheck, ProbeTypeOK
      <3>2. CASE RenameIncomplete(p)
        <4>1. CASE label' = label
          <5>1. label[p] = "passed" => proberAt'[p] = "ended"
            BY <3>2 DEF RenameIncomplete, ProberEnds, ProberGoes, ProbeTypeOK
          <5> QED BY <3>2, <4>1, <5>1 DEF RenameIncomplete, Earned
        <4>2. CASE label' # label
          <5>1. AfterRecord(p) /\ outcomes' = outcomes
            BY <3>2, <4>2 DEF RenameIncomplete
          <5> QED BY <4>2, <5>1 DEF AfterRecord, ProberGoes, ProbeTypeOK
        <4> QED BY <4>1, <4>2
      <3>3. CASE StartProber(p) \/ UncaughtError(p)
        BY <3>3 DEF StartProber, UncaughtError, Earned
      <3>4. CASE OpenIncomplete(p) \/ WriteIncomplete(p) \/ ProberDies(p)
        BY <3>4 DEF OpenIncomplete, WriteIncomplete, ProberDies, ProberEnds, ProberGoes, Earned,
           ProbeTypeOK
      <3> QED BY <1>5, <3>1, <3>2, <3>3, <3>4 DEF ProberStep
    <2>2. proberCode'[p] = 0 => Everything(outcomes'[p]) /\ proberAt'[p] = "ended"
      <3>1. proberCode[p] # 0
        BY <1>5, ProberFacts DEF Earned, AliveProber
      <3>2. CASE proberCode'[p] = 0
        <4>1. label[p] = "passed" /\ RenameIncomplete(p) /\ proberAt'[p] = "ended"
          BY <1>5, <3>1, <3>2, ProberFacts
        <4> QED BY <4>1 DEF RenameIncomplete, Earned
      <3> QED BY <3>2
    <2>3. \A i \in Inodes : content'[i].status = "passed" => Everything(content'[i].outcomes)
      <3>1. CASE content' = content
        BY <3>1 DEF Earned
      <3>2. CASE OpenIncomplete(p)
        <4>1. PICK i \in Inodes : content' = [content EXCEPT ![i] = Torn]
          BY <3>2, Opened
        <4>2. \A j \in Inodes : content'[j] = Torn \/ content'[j] = content[j]
          BY <4>1 DEF ProbeTypeOK
        <4>3. Torn.status # "passed"
          BY DEF Torn
        <4> QED BY <4>2, <4>3 DEF Earned
      <3>3. CASE WriteIncomplete(p)
        <4> DEFINE mine == [by |-> p, status |-> label[p], outcomes |-> outcomes[p]]
        <4>1. PICK new \in {mine, Torn} : content' = [content EXCEPT ![handle[p]] = new]
          BY <3>3 DEF WriteIncomplete
        <4>2. new.status = "passed" => Everything(new.outcomes)
          BY DEF Torn, Earned
        <4>3. \A i \in Inodes : content'[i] = new \/ content'[i] = content[i]
          BY <4>1 DEF ProbeTypeOK
        <4> QED BY <4>2, <4>3 DEF Earned
      <3> QED BY <1>5, <3>1, <3>2, <3>3 DEF ProberStep, StartProber, RunCheck, UncaughtError,
              RenameIncomplete, ProberDies, fileVars
    <2>4. legResult' = legResult
      BY <1>5, ProberFacts
    <2>5. \A q \in Probers : q # p =>
              /\ proberAt'[q] = proberAt[q] /\ proberCode'[q] = proberCode[q]
              /\ outcomes'[q] = outcomes[q] /\ label'[q] = label[q]
      BY <1>5, ProberFacts
    <2>6. legResult.status = "passed" =>
              /\ legResult.run \in Probers /\ proberCode'[legResult.run] = 0
              /\ Everything(legResult.evidence.outcomes)
      <3>1. AliveProber(p)
        BY <1>5, ProberFacts
      <3> QED BY <2>5, <3>1 DEF Earned, AliveProber
    <2> QED BY <2>1, <2>2, <2>3, <2>4, <2>5, <2>6 DEF Earned
  <1> QED BY <1>1, <1>2, <1>3, <1>4, <1>5 DEF ProbeNext, ProberStep

\* A record that is a prober's whole list, or that without its last check.
LEMMA BehindByOne ==
    ASSUME NEW s \in Seq(Outcomes), NEW e \in Outcomes
    PROVE  /\ Len(Append(s, e)) = Len(s) + 1
           /\ SubSeq(s, 1, Len(s)) = s
           /\ SubSeq(Append(s, e), 1, Len(s)) = s
           /\ Len(s) \in Nat
  <1>1. Len(s) \in Nat /\ Append(s, e) \in Seq(Outcomes) /\ Len(Append(s, e)) = Len(s) + 1
    OBVIOUS
  <1>2. SubSeq(s, 1, Len(s)) = s
    BY SubSeqFull
  <1>3. \A i \in 1 .. Len(s) : Append(s, e)[i] = s[i]
    OBVIOUS
  <1>4. \A i \in 1 .. Len(s) : Append(s, e)[i] \in Outcomes
    BY <1>3
  <1> DEFINE t == SubSeq(Append(s, e), 1, Len(s))
  <1>5. /\ t \in Seq(Outcomes) /\ Len(t) = Len(s)
        /\ \A i \in 1 .. Len(s) : t[i] = Append(s, e)[i]
    <2>1. 1 \in Int /\ Len(s) \in Int
      BY <1>1
    <2>2. /\ t \in Seq(Outcomes)
          /\ Len(t) = IF 1 <= Len(s) THEN Len(s) - 1 + 1 ELSE 0
          /\ \A i \in 1 .. Len(s) - 1 + 1 : t[i] = Append(s, e)[1 + i - 1]
      BY <1>4, <2>1, SubSeqProperties
    <2>3. Len(s) - 1 + 1 = Len(s)
      BY <1>1
    <2>4. Len(t) = Len(s)
      BY <1>1, <2>2
    <2>5. \A i \in 1 .. Len(s) : 1 + i - 1 = i
      OBVIOUS
    <2> HIDE DEF t
    <2> QED BY <2>2, <2>3, <2>4, <2>5
  <1>6. t = s
    <2> HIDE DEF t
    <2> QED BY <1>3, <1>5, SeqEqual
  <1> QED BY <1>1, <1>2, <1>6

\* A record with a writer is not a torn one.
LEMMA NotTorn ==
    ASSUME ProbeRunBound \in Nat, NEW found, found.by \in Probers
    PROVE  found # Torn
  BY DEF Probers, Torn

\* A step of the only prober at work keeps the files in order.
LEMMA FilesStep ==
    ASSUME ProbeTypeOK, AloneAtWork, ~orphaned, NEW p \in Probers, ProberStep(p)
    PROVE  /\ FilesOf(p)'
           /\ incomplete' # 0 => incomplete' # probeFile'
           /\ probeFile # 0 => probeFile' # 0
           /\ probeFile' # 0 => Behind(content[probeFile])'
           /\ probeFile' # 0 => content'[probeFile'].by \in {p, content[probeFile].by}
           /\ proberAt[p] \notin Writing =>
                  probeFile' = probeFile /\ (probeFile # 0 => content'[probeFile].by = content[probeFile].by)
  <1>0. /\ FilesOf(p) /\ (incomplete # 0 => incomplete # probeFile)
        /\ probeFile # 0 => Behind(content[probeFile])
        /\ AliveProber(p)
    BY ProberFacts DEF AloneAtWork
  <1>1. CASE StartProber(p)
    <2>1. /\ UNCHANGED <<outcomes, label, content, incomplete, probeFile>>
          /\ \/ /\ probeFile # 0 /\ proberAt' = [proberAt EXCEPT ![p] = "ended"]
                /\ proberCode' = [proberCode EXCEPT ![p] = 1]
             \/ /\ probeFile = 0 /\ proberAt' = [proberAt EXCEPT ![p] = "check"]
                /\ proberCode' = proberCode
          /\ proberAt[p] = "start"
      BY <1>1 DEF StartProber, ProberEnds, ProberGoes, fileVars
    <2>2. outcomes[p] = << >>
      BY <2>1 DEF ProbeTypeOK
    <2>3. /\ proberAt'[p] = IF probeFile # 0 THEN "ended" ELSE "check"
          /\ proberCode'[p] = IF probeFile # 0 THEN 1 ELSE proberCode[p]
      BY <2>1 DEF ProbeTypeOK
    <2>4. FilesOf(p)'
      BY <1>0, <2>1, <2>2, <2>3 DEF FilesOf, Writing
    <2> QED BY <1>0, <2>1, <2>4 DEF Behind, Writing
  <1>2. CASE \E found \in Outcomes : RunCheck(p, found)
    <2>1. PICK e \in Outcomes : RunCheck(p, e)
      BY <1>2
    <2>2. /\ UNCHANGED <<proberCode, content, incomplete, probeFile>>
          /\ outcomes' = [outcomes EXCEPT ![p] = Append(@, e)]
          /\ proberAt' = [proberAt EXCEPT ![p] = "open"]
          /\ proberAt[p] = "check"
      BY <2>1 DEF RunCheck, ProberGoes, fileVars
    <2>3. /\ outcomes[p] \in Seq(Outcomes) /\ outcomes'[p] = Append(outcomes[p], e)
          /\ proberAt'[p] = "open"
      BY <2>2 DEF ProbeTypeOK
    <2>4. probeFile # 0 => content[probeFile].by = p /\ content[probeFile].outcomes = outcomes[p]
      BY <1>0, <2>2 DEF FilesOf, Writing
    <2>5. probeFile = 0 => Len(outcomes'[p]) = 1
      <3>1. probeFile = 0 => outcomes[p] = << >>
        BY <1>0, <2>2 DEF FilesOf
      <3>2. Len(Append(<< >>, e)) = 1
        OBVIOUS
      <3> QED BY <2>3, <3>1, <3>2
    <2>6. probeFile # 0 => Behind(content[probeFile])'
      BY <2>2, <2>3, <2>4 DEF Behind
    <2>7. FilesOf(p)'
      BY <1>0, <2>2, <2>3, <2>4, <2>5 DEF FilesOf, Writing
    <2> QED BY <1>0, <2>2, <2>6, <2>7 DEF Writing
  <1>3. CASE UncaughtError(p) \/ ProberDies(p)
    <2>1. /\ UNCHANGED <<outcomes, label, content, incomplete, probeFile>>
          /\ proberAt' = [proberAt EXCEPT ![p] = "ended"]
          /\ \E c \in {1, 9} : proberCode' = [proberCode EXCEPT ![p] = c]
      BY <1>3 DEF UncaughtError, ProberDies, ProberEnds, ProberGoes, fileVars
    <2>2. proberAt'[p] = "ended" /\ proberCode'[p] # 0
      BY <2>1 DEF ProbeTypeOK
    <2>3. FilesOf(p)'
      BY <1>0, <2>1, <2>2 DEF FilesOf, Writing
    <2> QED BY <1>0, <2>1, <2>3 DEF Behind, Writing
  <1>4. CASE OpenIncomplete(p)
    <2>1. /\ UNCHANGED <<proberCode, outcomes, label, probeFile>>
          /\ proberAt' = [proberAt EXCEPT ![p] = "write"] /\ proberAt[p] = "open"
      BY <1>4 DEF OpenIncomplete, ProberGoes
    <2>2. PICK i \in Inodes : /\ IF incomplete # 0 THEN i = incomplete ELSE i # probeFile
                              /\ incomplete' = i
                              /\ handle' = [handle EXCEPT ![p] = i]
                              /\ content' = [content EXCEPT ![i] = Torn]
      BY <1>4, Opened
    <2>3. i # probeFile
      BY <1>0, <2>2
    <2>4. /\ proberAt'[p] = "write" /\ handle'[p] = i /\ content'[i] = Torn
          /\ probeFile # 0 => content'[probeFile] = content[probeFile]
      BY <2>1, <2>2, <2>3 DEF ProbeTypeOK
    <2>5. FilesOf(p)'
      BY <1>0, <2>1, <2>2, <2>4 DEF FilesOf, Writing
    <2> QED BY <1>0, <2>1, <2>2, <2>3, <2>4, <2>5 DEF Behind, Writing
  <1>5. CASE WriteIncomplete(p)
    <2> DEFINE mine == [by |-> p, status |-> label[p], outcomes |-> outcomes[p]]
    <2>1. /\ UNCHANGED <<proberCode, outcomes, label, incomplete, probeFile>>
          /\ proberAt' = [proberAt EXCEPT ![p] = "replace"] /\ proberAt[p] = "write"
          /\ handle' = [handle EXCEPT ![p] = 0]
      BY <1>5 DEF WriteIncomplete, ProberGoes
    <2>2. /\ handle[p] = incomplete /\ content[incomplete] = Torn /\ incomplete # 0
          /\ incomplete \in Inodes /\ incomplete # probeFile
      BY <1>0, <2>1 DEF FilesOf, ProbeTypeOK
    <2>3. content' = [content EXCEPT ![incomplete] = mine]
      BY <1>5, <2>2 DEF WriteIncomplete
    <2>4. /\ proberAt'[p] = "replace" /\ content'[incomplete] = mine
          /\ probeFile # 0 => content'[probeFile] = content[probeFile]
      BY <2>1, <2>2, <2>3 DEF ProbeTypeOK
    <2>5. FilesOf(p)'
      BY <1>0, <2>1, <2>2, <2>4 DEF FilesOf, Writing
    <2> QED BY <1>0, <2>1, <2>2, <2>4, <2>5 DEF Behind, Writing
  <1>6. CASE RenameIncomplete(p)
    <2>1. /\ incomplete # 0
          /\ content[incomplete] = [by |-> p, status |-> label[p], outcomes |-> outcomes[p]]
          /\ proberAt[p] = "replace"
      BY <1>0, <1>6 DEF RenameIncomplete, FilesOf
    <2>2. /\ probeFile' = incomplete /\ incomplete' = 0 /\ UNCHANGED <<outcomes, content>>
      BY <1>6, <2>1 DEF RenameIncomplete
    <2>3. proberAt'[p] \in {"check", "open", "ended"}
      <3>1. \E at \in {"check", "open", "ended"} : proberAt' = [proberAt EXCEPT ![p] = at]
        BY <1>6, <2>1 DEF RenameIncomplete, ProberEnds, ProberGoes, AfterRecord
      <3> QED BY <3>1 DEF ProbeTypeOK
    <2>4. /\ content'[probeFile'].by = p /\ content'[probeFile'].outcomes = outcomes'[p]
          /\ probeFile' # 0
      BY <2>1, <2>2
    <2>5. FilesOf(p)'
      BY <2>2, <2>3, <2>4 DEF FilesOf, Writing
    <2>6. Behind(content[probeFile])'
      BY <2>4 DEF Behind
    <2> QED BY <2>1, <2>2, <2>4, <2>5, <2>6 DEF Writing
  <1> QED BY <1>1, <1>2, <1>3, <1>4, <1>5, <1>6 DEF ProberStep

\* Every step keeps the files in order until a driver leaves its prober behind.
LEMMA AloneStep ==
    ASSUME ProbeTypeOK, AloneAtWork, [ProbeNext]_probeVars
    PROVE  AloneAtWork'
  <1>1. CASE BeginLeg
    <2>1. /\ legRuns < ProbeRunBound /\ legRuns' = legRuns + 1 /\ legAt = "idle" /\ legAt' = "probe"
          /\ proberAt' = [proberAt EXCEPT ![legRuns + 1] = "start"]
          /\ UNCHANGED <<proberCode, outcomes, label, handle, content, incomplete, probeFile,
                         legResult, orphaned>>
      BY <1>1 DEF BeginLeg, ProberGoes, fileVars
    <2>2. legRuns \in Nat
      BY ProbeRunBoundAssumption DEF ProbeTypeOK, Probers
    <2>3. legRuns + 1 \in Probers
      BY <2>1, <2>2, ProbeRunBoundAssumption DEF Probers
    <2>4. SUFFICES ASSUME ~orphaned
                   PROVE  AloneAtWork'
      BY <2>1 DEF AloneAtWork
    <2>5. \A q \in Probers : ~AliveProber(q)
      BY <2>1, <2>4 DEF AloneAtWork
    <2>6. \A q \in Probers : proberAt'[q] = IF q = legRuns + 1 THEN "start" ELSE proberAt[q]
      BY <2>1 DEF ProbeTypeOK
    <2>7. \A q \in Probers : AliveProber(q)' => q = legRuns' /\ legAt' = "probe"
      BY <2>1, <2>5, <2>6 DEF AliveProber
    <2>8. \A q \in Probers : proberAt'[q] \in {"start", "none", "ended"}
      BY <2>5, <2>6 DEF AliveProber
    <2>9. \A q \in Probers : FilesOf(q)'
      BY <2>1, <2>4, <2>8 DEF AloneAtWork, FilesOf, Writing
    <2> QED BY <2>1, <2>4, <2>7, <2>9 DEF AloneAtWork, Behind
  <1>2. CASE ProbeTimesOut \/ ReadEvidence \/ DriverDies
    <2>1. /\ legRuns \in Probers /\ UNCHANGED <<legRuns, outcomes, label, content, incomplete, probeFile>>
          /\ orphaned => orphaned'
          /\ orphaned' = orphaned \/ AliveProber(legRuns)
      BY <1>2 DEF ProbeTimesOut, ReadEvidence, DriverDies, proberVars, fileVars, ProbeTypeOK
    <2>2. SUFFICES ASSUME ~orphaned, ~orphaned'
                   PROVE  AloneAtWork'
      BY <2>1 DEF AloneAtWork
    <2>3. \A q \in Probers : \/ proberAt'[q] = proberAt[q] /\ proberCode'[q] = proberCode[q] /\ handle'[q] = handle[q]
                             \/ proberAt'[q] = "ended" /\ proberCode'[q] = 9
      <3>1. CASE ProbeTimesOut
        BY <2>1, <3>1 DEF ProbeTimesOut, ProberEnds, ProberGoes, ProbeTypeOK
      <3>2. CASE ReadEvidence \/ DriverDies
        BY <3>2 DEF ReadEvidence, DriverDies, proberVars
      <3> QED BY <1>2, <3>1, <3>2
    <2>4. proberAt'[legRuns] \in {"none", "ended"}
      BY <1>2, <2>1, <2>2 DEF ProbeTimesOut, ReadEvidence, DriverDies, ProberEnds, ProberGoes, AliveProber,
         proberVars, ProbeTypeOK
    <2>5. \A q \in Probers : ~AliveProber(q)'
      BY <2>2, <2>3, <2>4 DEF AloneAtWork, AliveProber
    <2>6. \A q \in Probers : FilesOf(q)'
      BY <2>1, <2>2, <2>3, <2>5 DEF AloneAtWork, FilesOf, AliveProber, Writing
    <2>7. legResult'.status = "passed" => legResult'.evidence.by = legResult'.run
      <3>1. CASE ProbeTimesOut
        BY <3>1 DEF ProbeTimesOut
      <3>2. CASE ReadEvidence
        <4> DEFINE found == IF probeFile = 0 THEN NoRecord ELSE content[probeFile]
        <4>1. legResult' = [run |-> legRuns,
                            status |-> IF LegPassed(legRuns, found) THEN "passed" ELSE "failed",
                            evidence |-> found]
          BY <3>2 DEF ReadEvidence
        <4>2. LegPassed(legRuns, found) => found.by = legRuns
          BY <2>1, <2>2 DEF LegPassed, AloneAtWork, FilesOf
        <4> HIDE DEF found
        <4> QED BY <4>1, <4>2
      <3>3. CASE DriverDies
        BY <2>2, <3>3 DEF DriverDies, AloneAtWork
      <3> QED BY <1>2, <3>1, <3>2, <3>3
    <2> QED BY <2>1, <2>2, <2>5, <2>6, <2>7 DEF AloneAtWork, Behind
  <1>3. ASSUME NEW p \in Probers, ProberStep(p)
        PROVE  AloneAtWork'
    <2>1. UNCHANGED <<legAt, legRuns, legResult, orphaned>>
      BY <1>3, ProberFacts
    <2>2. SUFFICES ASSUME ~orphaned
                   PROVE  AloneAtWork'
      BY <2>1 DEF AloneAtWork
    <2>3. p = legRuns /\ legAt = "probe" /\ AliveProber(p)
      BY <1>3, <2>2, ProberFacts DEF AloneAtWork
    <2>4. \A q \in Probers : AliveProber(q)' => q = legRuns' /\ legAt' = "probe"
      BY <1>3, <2>1, <2>2, <2>3, ProberFacts DEF AloneAtWork, AliveProber
    <2>5. ASSUME NEW q \in Probers
          PROVE  FilesOf(q)'
      <3>1. CASE q = p
        BY <1>3, <2>2, <3>1, FilesStep
      <3>2. CASE q # p
        <4>1. /\ proberAt'[q] = proberAt[q] /\ proberAt[q] \in {"none", "ended"}
              /\ proberCode'[q] = proberCode[q] /\ outcomes'[q] = outcomes[q]
          BY <1>3, <2>2, <2>3, <3>2, ProberFacts DEF AloneAtWork, AliveProber
        <4>2. Len(outcomes'[q]) > 1 => probeFile' # 0
          BY <1>3, <2>2, <4>1, FilesStep DEF AloneAtWork, FilesOf
        <4>3. proberCode'[q] = 0 => probeFile' # 0 /\ content'[probeFile'].by = q
          <5>1. SUFFICES ASSUME proberCode[q] = 0
                         PROVE  probeFile' # 0 /\ content'[probeFile'].by = q
            BY <4>1
          <5>2. probeFile # 0 /\ content[probeFile].by = q
            BY <2>2, <5>1 DEF AloneAtWork, FilesOf
          <5>3. proberAt[p] \notin Writing
            BY <2>2, <3>2, <5>2 DEF AloneAtWork, FilesOf
          <5> QED BY <1>3, <2>2, <5>2, <5>3, FilesStep
        <4> QED BY <4>1, <4>2, <4>3 DEF FilesOf, Writing
      <3> QED BY <3>1, <3>2
    <2>6. /\ incomplete' # 0 => incomplete' # probeFile'
          /\ probeFile' # 0 => Behind(content[probeFile])'
      BY <1>3, <2>2, FilesStep
    <2> QED BY <2>1, <2>2, <2>4, <2>5, <2>6 DEF AloneAtWork
  <1>4. CASE UNCHANGED probeVars
    BY <1>4 DEF probeVars, proberVars, fileVars, AloneAtWork, AliveProber, FilesOf, Behind
  <1> QED BY <1>1, <1>2, <1>3, <1>4 DEF ProbeNext, ProberStep

\* The invariant of the behavior legs holds in every reachable state.
THEOREM ProbeInvariance == ProbeSpec => []ProbeInv
  <1>1. ProbeInit => ProbeInv
    <2>1. SUFFICES ASSUME ProbeInit
                   PROVE  ProbeInv
      OBVIOUS
    <2>2. ProbeTypeOK
      <3>1. << >> \in Seq(Outcomes) /\ -1 \in Int
        OBVIOUS
      <3>2. NoLeg \in [run : Probers \cup {0}, status : {"none", "passed", "failed"},
                       evidence : ProbeRecords]
        BY RecordTypes DEF NoLeg
      <3> QED BY <2>1, <3>1, <3>2, RecordTypes DEF ProbeInit, ProbeTypeOK, ProberPositions
    <2>3. Earned
      <3>1. \A p \in Probers : proberCode[p] # 0
        BY <2>1 DEF ProbeInit
      <3> QED BY <2>1, <3>1 DEF ProbeInit, Earned, NoLeg, Torn
    <2>4. AloneAtWork
      <3>1. \A p \in Probers : proberCode[p] # 0
        BY <2>1 DEF ProbeInit
      <3>2. ~(Len(<< >>) > 1)
        OBVIOUS
      <3>3. \A p \in Probers : FilesOf(p)
        BY <2>1, <3>1, <3>2 DEF ProbeInit, FilesOf, Writing
      <3> QED BY <2>1, <3>3 DEF ProbeInit, AloneAtWork, AliveProber, NoLeg
    <2> QED BY <2>2, <2>3, <2>4 DEF ProbeInv
  <1>2. ProbeInv /\ [ProbeNext]_probeVars => ProbeInv'
    BY ProbeTypeStep, EarnedStep, AloneStep DEF ProbeInv
  <1> QED BY <1>1, <1>2, PTL DEF ProbeSpec

\* Whatever other runs share the directory, whoever is killed, a leg that passed ran every
\* check and so did the record it carries; and until a prober is orphaned that record is its
\* own and probe.json is whole and at most one check behind.
THEOREM LegsEarnTheirEvidence == ProbeSpec => []EvidenceIsEarned
  <1>1. ASSUME ProbeInv, ~orphaned, probeFile # 0
        PROVE  UpToDate(content[probeFile])
    <2> DEFINE found == content[probeFile]
    <2>1. Behind(found)
      BY <1>1 DEF ProbeInv, AloneAtWork
    <2>2. found.outcomes \in Seq(Outcomes)
      <3>1. found \in ProbeRecords
        BY <1>1 DEF ProbeInv, ProbeTypeOK
      <3> QED BY <3>1 DEF ProbeRecords
    <2>3. found # Torn
      <3> HIDE DEF found
      <3> QED BY <2>1, NotTorn, ProbeRunBoundAssumption DEF Behind
    <2>4. "passed" \in Outcomes
      BY DEF Outcomes
    <2> HIDE DEF found
    <2>5. ASSUME outcomes[found.by] = found.outcomes
          PROVE  UpToDate(found)
      <3>1. SubSeq(found.outcomes, 1, Len(found.outcomes)) = found.outcomes
        BY <2>2, <2>4, BehindByOne
      <3> QED BY <2>1, <2>3, <2>5, <3>1 DEF UpToDate, Behind
    <2>6. ASSUME NEW e \in Outcomes, outcomes[found.by] = Append(found.outcomes, e)
          PROVE  UpToDate(found)
      <3>1. /\ Len(outcomes[found.by]) = Len(found.outcomes) + 1
            /\ SubSeq(outcomes[found.by], 1, Len(found.outcomes)) = found.outcomes
            /\ Len(found.outcomes) \in Nat
        BY <2>2, <2>6, BehindByOne
      <3>2. Len(found.outcomes) = Len(outcomes[found.by]) - 1
        BY <3>1
      <3> QED BY <2>1, <2>3, <3>1, <3>2 DEF UpToDate, Behind
    <2>7. UpToDate(found)
      BY <2>1, <2>5, <2>6 DEF Behind
    <2> QED BY <2>7 DEF found
  <1>2. ProbeInv => EvidenceIsEarned
    BY <1>1 DEF ProbeInv, Earned, AloneAtWork, FilesOf, EvidenceIsEarned
  <1> QED BY <1>2, ProbeInvariance, PTL

-----------------------------------------------------------------------------
(* ArmVerdict                                                              *)

Responses == [end : Ends \cup {"pending"}, answers : SUBSET Queued, aborted : BOOLEAN,
              done : BOOLEAN, refusal : {"none", "expected", "other", "admitted", "raised"}]

\* What the judgement relies on: an arm that runs has a workload that holds, and only a
\* cancelled victim was cut off.
VerdictInv ==
    /\ arm \in Arms \cup {"none"}
    /\ envelope \in [Queued -> Envelopes]
    /\ outcome \in [ArmTasks -> Responses]
    /\ cancelled \in BOOLEAN
    /\ arm = "none" => verdictOf = "none"
    /\ arm # "none" /\ verdictOf # "refused" => WorkloadHolds(envelope)
    /\ outcome[Victim].aborted => cancelled
    /\ VerdictIsEarned

\* In a workload that holds, the text of a task holds a nonce only with the answer to the
\* task the nonce belongs to.
LEMMA NonceIsOfItsTask ==
    ASSUME WorkloadHolds(envelope), NEW t \in Queued, NEW u \in Queued,
           outcome[t].answers \subseteq Queued
    PROVE  NonceIn(t, u) <=> (envelope[u].nonce # "none" /\ u \in outcome[t].answers)
  BY DEF NonceIn, WorkloadHolds

\* A workload is accepted or refused before anything comes back.
LEMMA BeginJudgementInv == ASSUME VerdictInv, BeginJudgement PROVE VerdictInv'
  <1> USE DEF VerdictInv, BeginJudgement
  <1>1. PICK env \in [Queued -> Envelopes] :
            /\ envelope' = env
            /\ verdictOf' = IF WorkloadHolds(env) THEN "none" ELSE "refused"
    OBVIOUS
  <1>2. arm' # "none" /\ verdictOf' # "refused" => WorkloadHolds(envelope')
    BY <1>1
  <1>3. VerdictIsEarned'
    BY <1>1 DEF VerdictIsEarned
  <1> QED
    BY <1>1, <1>2, <1>3 DEF Arms, WorkloadHolds

\* What comes back changes an outcome, and no verdict stands yet.
LEMMA ResponseInv ==
    ASSUME VerdictInv, NEW t \in ArmTasks, NEW r \in Responses, Pending(t),
           outcome' = [outcome EXCEPT ![t] = r], cancelled' \in BOOLEAN,
           UNCHANGED <<arm, envelope, verdictOf>>,
           IF t = Victim THEN r.aborted => cancelled' ELSE cancelled' = cancelled
    PROVE  VerdictInv'
  <1>1. outcome' \in [ArmTasks -> Responses]
    BY DEF VerdictInv
  <1>2. outcome'[Victim].aborted => cancelled'
    BY DEF VerdictInv, ArmTasks, Victim, BadRequest, Queued
  <1>3. VerdictIsEarned'
    BY DEF VerdictIsEarned, Pending
  <1> QED
    BY <1>1, <1>2, <1>3 DEF VerdictInv, WorkloadHolds

\* What the gates accept is what the verdict claims.
LEMMA GatesEarnTheVerdict ==
    ASSUME VerdictInv, arm # "none", verdictOf = "none",
           NEW watched \in [peak : 1..2, depth : 0..3, release : {"late", "in_time"}],
           GatesPass(watched)
    PROVE  /\ \A t \in Expecting : t \in outcome[t].answers
           /\ \A t, u \in Queued : envelope[u].nonce # "none" /\ u \in outcome[t].answers => u = t
           /\ \A t \in Queued : outcome[t].end = "finished"
           /\ outcome[BadRequest].refusal = "expected"
           /\ watched.peak = ArmSlots
           /\ cancelled => outcome[Victim].aborted /\ outcome[Victim].end # "finished"
           /\ arm = "overlap" =>
                  cancelled /\ watched.release = "in_time" /\ watched.depth >= 2
  <1>1. WorkloadHolds(envelope)
    BY DEF VerdictInv
  <1>2. \A t \in Queued : outcome[t].answers \subseteq Queued
    BY DEF VerdictInv, Responses, ArmTasks
  <1>3. \A t \in Queued : t # BadRequest /\ t # Victim /\ t \in ArmTasks
    BY DEF Queued, BadRequest, Victim, ArmTasks
  <1>4. \A t \in Queued : /\ Healthy(t)
                          /\ envelope[t].expectsOwn => NonceIn(t, t)
                          /\ \A u \in Queued \ {t} : ~NonceIn(t, u)
    BY <1>3 DEF GatesPass, MappingHolds
  <1>5. \A t \in Expecting : t \in outcome[t].answers
    BY <1>1, <1>2, <1>4, NonceIsOfItsTask DEF Expecting
  <1>6. \A t, u \in Queued : envelope[u].nonce # "none" /\ u \in outcome[t].answers => u = t
    BY <1>1, <1>2, <1>4, NonceIsOfItsTask
  <1>7. outcome[BadRequest].refusal = "expected"
    BY DEF GatesPass, AllComplete, MappingHolds, BadRequest, Victim, Queued
  <1>8. cancelled => outcome[Victim].aborted /\ outcome[Victim].end # "finished"
    BY DEF GatesPass, AllComplete, CleanlyCancelled
  <1>9. arm = "overlap" => cancelled /\ watched.release = "in_time" /\ watched.depth >= 2
    <2> SUFFICES ASSUME arm = "overlap"
                 PROVE  cancelled /\ watched.release = "in_time" /\ watched.depth >= 2
      OBVIOUS
    <2>1. PeersIsolated(watched) /\ watched.depth >= Cardinality(Queued) + 2 - ArmSlots
      BY DEF GatesPass
    <2>2. Cardinality(Queued) = 2 /\ ArmSlots = 2
      <3>1. Cardinality({"interactive"}) = 1 /\ IsFiniteSet({"interactive"})
        BY FS_Singleton
      <3>2. Queued = {"interactive"} \cup {"background"} /\ "background" \notin {"interactive"}
        BY DEF Queued
      <3> QED
        BY <3>1, <3>2, FS_AddElement DEF ArmSlots
    <2> QED
      BY <2>1, <2>2 DEF PeersIsolated, CleanlyCancelled, VerdictInv
  <1> QED
    BY <1>4, <1>5, <1>6, <1>7, <1>8, <1>9 DEF GatesPass, Healthy

\* The judgement looks at outcomes that no longer change.
LEMMA JudgeInv == ASSUME VerdictInv, Judge PROVE VerdictInv'
  <1>1. PICK watched \in [peak : 1..2, depth : 0..3, release : {"late", "in_time"}] :
            /\ evidence' = watched
            /\ verdictOf' = IF GatesPass(watched) THEN "passed" ELSE "failed"
    BY DEF Judge
  <1>2. VerdictIsEarned'
    <2>1. CASE GatesPass(watched)
      BY <1>1, <2>1, GatesEarnTheVerdict
         DEF Judge, VerdictIsEarned, Expecting, ArmSlots
    <2>2. CASE ~GatesPass(watched)
      BY <1>1, <2>2 DEF VerdictIsEarned
    <2> QED
      BY <2>1, <2>2
  <1> QED
    BY <1>1, <1>2 DEF Judge, VerdictInv, WorkloadHolds

\* Whatever comes back to an arm's tasks and whatever its workload marks, a verdict
\* "passed" is earned: the answers are at their own tasks, whole, the invalid request was
\* refused and no cancelled victim ended as a success.
THEOREM VerdictsAreEarned == JudgeSpec => []VerdictIsEarned
  <1>1. VerdictInit => VerdictInv
    <2> SUFFICES ASSUME VerdictInit PROVE VerdictInv
      OBVIOUS
    <2>1. NoResponse \in Responses
      BY DEF NoResponse, Responses
    <2>2. envelope \in [Queued -> Envelopes]
      BY DEF VerdictInit, Envelopes
    <2> QED
      BY <2>1, <2>2 DEF VerdictInit, VerdictInv, VerdictIsEarned, ArmTasks, NoResponse
  <1>2. VerdictInv /\ [JudgeNext]_verdictVars => VerdictInv'
    <2> SUFFICES ASSUME VerdictInv, [JudgeNext]_verdictVars PROVE VerdictInv'
      OBVIOUS
    <2>1. CASE BeginJudgement
      BY <2>1, BeginJudgementInv
    <2>2. ASSUME NEW t \in Queued, Respond(t) PROVE VerdictInv'
      <3>1. PICK end \in Ends, answers \in SUBSET Queued :
                outcome' = [outcome EXCEPT ![t] = [NoResponse EXCEPT !.end = end,
                                                                   !.answers = answers]]
        BY <2>2 DEF Respond
      <3>2. [NoResponse EXCEPT !.end = end, !.answers = answers] \in Responses
        BY DEF NoResponse, Responses
      <3>3. t \in ArmTasks /\ t # Victim
        BY DEF ArmTasks, Queued, Victim
      <3>4. cancelled \in BOOLEAN
        BY DEF VerdictInv
      <3> QED
        BY <2>2, <3>1, <3>2, <3>3, <3>4, ResponseInv DEF Respond
    <2>3. CASE VictimEnds
      <3>1. PICK end \in Ends, aborted, done, cut \in BOOLEAN :
                /\ ~cut => ~aborted
                /\ outcome' = [outcome EXCEPT ![Victim] =
                       [NoResponse EXCEPT !.end = end, !.aborted = aborted, !.done = done]]
                /\ cancelled' = cut
        BY <2>3 DEF VictimEnds
      <3> DEFINE r == [NoResponse EXCEPT !.end = end, !.aborted = aborted, !.done = done]
      <3>2. r \in Responses /\ (r.aborted => cut)
        BY <3>1 DEF NoResponse, Responses
      <3> QED
        BY <2>3, <3>1, <3>2, ResponseInv DEF VictimEnds, ArmTasks
    <2>4. CASE BadRequestEnds
      <3>1. PICK r \in {"expected", "other", "admitted", "raised"} :
                outcome' = [outcome EXCEPT ![BadRequest] =
                       [NoResponse EXCEPT !.end = IF r = "raised" THEN r ELSE "finished",
                                          !.refusal = r]]
        BY <2>4 DEF BadRequestEnds
      <3>2. [NoResponse EXCEPT !.end = IF r = "raised" THEN r ELSE "finished",
                               !.refusal = r] \in Responses
        BY DEF NoResponse, Responses, Ends
      <3> QED
        BY <2>4, <3>1, <3>2, ResponseInv DEF BadRequestEnds, ArmTasks, BadRequest, Victim,
           VerdictInv
    <2>5. CASE Judge
      BY <2>5, JudgeInv
    <2>6. CASE UNCHANGED verdictVars
      BY <2>6 DEF verdictVars, VerdictInv, VerdictIsEarned, WorkloadHolds, Expecting, ArmSlots
    <2> QED
      BY <2>1, <2>2, <2>3, <2>4, <2>5, <2>6 DEF JudgeNext
  <1>3. VerdictInv => VerdictIsEarned
    BY DEF VerdictInv
  <1> QED
    BY <1>1, <1>2, <1>3, PTL DEF JudgeSpec

-----------------------------------------------------------------------------
(* LogAttribution: records and lines                                       *)

\* A record is of one of four classes, and an answered one has a served signature.
LEMMA RecordShape ==
    ASSUME NEW r \in Records
    PROVE  /\ r.class \in {"served", "cancelled", "failed", "rejected"}
           /\ r.class = "served" => r.signature \in ServedSignatures
  BY DEF Records

\* A line an answered task wrote never says "cancelled".
LEMMA ServedLine ==
    ASSUME LogTypeOK, LinesAreHonest, NEW t \in Tasks,
           record[t].class = "served", line[t] # Unwritten
    PROVE  line[t] = record[t].signature /\ line[t] \notin CancelledSignatures
  <1>1. line[t] = record[t].signature
    BY DEF LinesAreHonest
  <1>2. record[t] \in Records
    BY DEF LogTypeOK
  <1> QED
    BY <1>1, <1>2, RecordShape DEF ServedSignatures

\* In a whole log, the line that matches a task and is matched by its own task is the
\* task's own, unless the task's own line matches it too.
LEMMA MatchIsOwn ==
    ASSUME LogTypeOK, LinesAreHonest, Admitted \subseteq sliced,
           NEW a \in Tasks, NEW l \in Tasks, Matches(a, l), OwnMatches(l)
    PROVE  l = a \/ OwnMatches(a)
  <1>1. CASE record[a].class = "served"
    <2>1. a \in sliced
      BY <1>1 DEF Admitted
    <2>2. line[a] = record[a].signature
      BY <1>1, <2>1, ServedLine DEF LinesAreHonest
    <2> QED
      BY <1>1, <2>1, <2>2 DEF OwnMatches, Matches
  <1>2. CASE record[a].class = "cancelled"
    <2>1. line[l] \in CancelledSignatures /\ line[l] # Unwritten
      BY <1>2, SignatureAssumption, UnwrittenAssumption DEF Matches
    <2>2. record[l].class # "served"
      BY <2>1, ServedLine
    <2>3. record[l].class = "cancelled"
      BY <2>2 DEF OwnMatches, Matches
    <2> QED
      BY <1>2, <2>3 DEF LinesAreHonest
  <1> QED
    BY <1>1, <1>2 DEF Matches

-----------------------------------------------------------------------------
(* The invariant                                                           *)

\* The initial state satisfies the invariant.
LEMMA LogInitInv == LogInit => LogInv
  <1> SUFFICES ASSUME LogInit PROVE LogInv
    OBVIOUS
  <1>1. LogTypeOK
    <2>1. [class |-> "rejected"] \in Records
      BY DEF Records
    <2>2. record \in [Tasks -> Records] /\ line \in [Tasks -> Signatures \cup {Unwritten}]
      BY <2>1 DEF LogInit
    <2>3. attributing \in -1..(RecordCount + 2) /\ taken \in [Tasks -> 0..RecordCount]
      BY RecordCountAssumption DEF LogInit
    <2>4. waitSource \in [Tasks -> Sources]
      BY DEF LogInit, Sources
    <2> QED
      BY <2>2, <2>3, <2>4 DEF LogInit, LogTypeOK
  <1>2. LinesAreHonest
    BY DEF LogInit, LinesAreHonest
  <1>3. Claims
    BY DEF LogInit, Claims, Tasks
  <1>4. Outcome
    BY DEF LogInit, Outcome
  <1> QED
    BY <1>1, <1>2, <1>3, <1>4 DEF LogInv

\* The scenario's end writes records before any line exists.
LEMMA CollectInv ==
    ASSUME LogInv, CollectRecords
    PROVE  LogInv'
  <1> USE DEF LogInv, CollectRecords
  <1>0. RecordCount \in Nat
    BY RecordCountAssumption
  <1>1. LogTypeOK'
    BY <1>0 DEF LogTypeOK
  <1>2. /\ \A t \in Tasks : line[t] = Unwritten
        /\ sliced = {}
        /\ \A t \in Tasks : taken[t] = 0
    BY DEF LinesAreHonest, Claims, Tasks
  <1>3. LinesAreHonest'
    BY <1>2 DEF LinesAreHonest
  <1>4. Claims'
    BY <1>2 DEF Claims, Tasks
  <1>5. Outcome'
    BY <1>0 DEF Outcome
  <1> QED
    BY <1>1, <1>3, <1>4, <1>5

\* A run writes its line before the log is read.
LEMMA LogLineInv ==
    ASSUME LogInv, NEW t \in Tasks, LogLine(t)
    PROVE  LogInv'
  <1> USE DEF LogInv, LogLine
  <1>0. RecordCount \in Nat
    BY RecordCountAssumption
  <1>1. PICK s \in Signatures : /\ record[t].class = "served" => s = record[t].signature
                                /\ line' = [line EXCEPT ![t] = s]
    OBVIOUS
  <1>2. LogTypeOK'
    BY <1>1 DEF LogTypeOK
  <1>3. sliced = {} /\ \A u \in Tasks : taken[u] = 0
    BY DEF LinesAreHonest, Claims, Tasks
  <1>4. LinesAreHonest'
    BY <1>0, <1>1, <1>3 DEF LinesAreHonest, LogTypeOK, Admitted
  <1>5. Claims'
    BY <1>3 DEF Claims, Tasks
  <1>6. Outcome'
    BY <1>0, <1>3 DEF Outcome
  <1> QED
    BY <1>2, <1>4, <1>5, <1>6

\* Reading the log fixes the slice.
LEMMA SliceInv ==
    ASSUME LogInv, SliceLog
    PROVE  LogInv'
  <1> USE DEF LogInv, SliceLog
  <1>0. RecordCount \in Nat
    BY RecordCountAssumption
  <1>1. LogTypeOK'
    BY <1>0 DEF LogTypeOK
  <1>2. \A t \in Tasks : taken[t] = 0
    BY DEF Claims, Tasks
  <1>3. LinesAreHonest'
    BY <1>0 DEF LinesAreHonest, Admitted
  <1>4. Claims'
    BY <1>2 DEF Claims, Tasks
  <1>5. Outcome'
    BY <1>0, <1>2 DEF Outcome
  <1> QED
    BY <1>1, <1>3, <1>4, <1>5

\* The step that gives the line l to the task whose turn it is.
LEMMA TakeInv ==
    ASSUME LogInv, attributing \in Tasks, NEW l \in Tasks,
           Unambiguous(attributing, l),
           taken' = [taken EXCEPT ![attributing] = l],
           attributing' = attributing + 1,
           UNCHANGED <<record, line, sliced, waitSource, attributed>>
    PROVE  LogInv'
  <1> DEFINE a == attributing
  <1> USE DEF LogInv
  <1>0. RecordCount \in Nat /\ a \in 1..RecordCount /\ a < a + 1
    BY RecordCountAssumption DEF Tasks
  <1>1. l \in sliced /\ l \notin Used /\ Matches(a, l) /\ Candidates(a) = {l}
    BY DEF Unambiguous, Candidates
  <1>2. taken[a] = 0
    BY <1>0 DEF Claims
  <1>3. /\ taken'[a] = l
        /\ \A u \in Tasks : u # a => taken'[u] = taken[u]
        /\ l # 0
    BY <1>0 DEF LogTypeOK, Tasks
  <1>4. \A u \in Tasks : taken[u] # l
    BY <1>1, <1>3 DEF Used
  <1>5. LogTypeOK'
    BY <1>0 DEF LogTypeOK, Tasks
  <1>6. LinesAreHonest'
    BY <1>0 DEF LinesAreHonest, Admitted
  <1>7. Claims'
    <2>1. \A t, k \in Tasks : Matches(t, k)' <=> Matches(t, k)
      BY DEF Matches
    <2>2. \A t \in Tasks : OwnMatches(t)' <=> OwnMatches(t)
      BY <2>1 DEF OwnMatches
    <2>3. Admitted' = Admitted
      BY DEF Admitted
    <2>4. \A t \in Tasks : taken'[t] # 0 =>
             t < a + 1 /\ taken'[t] \in sliced /\ Matches(t, taken'[t])
      BY <1>0, <1>1, <1>3 DEF Claims, Tasks
    <2>5. \A t, u \in Tasks : taken'[t] # 0 /\ taken'[t] = taken'[u] => t = u
      BY <1>3, <1>4 DEF Claims
    <2>6. OwnMatches(a) /\ Admitted \subseteq sliced => l = a
      <3> SUFFICES ASSUME OwnMatches(a), Admitted \subseteq sliced PROVE l = a
        OBVIOUS
      <3>1. \A v \in Tasks : taken[v] # a
        BY <1>0, <1>2 DEF Claims, Tasks
      <3>2. a \in Candidates(a)
        BY <3>1 DEF Candidates, Used, OwnMatches
      <3> QED
        BY <1>1, <3>2
    <2>7. OwnMatches(l) /\ Admitted \subseteq sliced => l = a
      BY <1>1, <2>6, MatchIsOwn
    <2>8. ASSUME Admitted \subseteq sliced, NEW t \in Tasks, OwnMatches(t)
          PROVE  taken'[t] \in {0, t} /\ \A u \in Tasks : taken'[u] = t => u = t
      <3>1. taken'[t] \in {0, t}
        BY <1>3, <2>6, <2>8 DEF Claims
      <3>2. \A u \in Tasks : taken'[u] = t => u = t
        BY <1>3, <2>7, <2>8 DEF Claims
      <3> QED
        BY <3>1, <3>2
    <2> QED
      <3>1. \A t \in Tasks : (taken[t] # 0 =>
               t < attributing /\ taken[t] \in sliced /\ Matches(t, taken[t]))'
        BY <2>4 DEF Matches
      <3>2. (Admitted \subseteq sliced =>
               \A t \in Tasks : OwnMatches(t) =>
                 taken[t] \in {0, t} /\ \A u \in Tasks : taken[u] = t => u = t)'
        BY <2>2, <2>3, <2>8
      <3>3. (\A t, u \in Tasks : taken[t] # 0 /\ taken[t] = taken[u] => t = u)'
        BY <2>5
      <3> QED
        BY <3>1, <3>2, <3>3 DEF Claims
  <1>8. Outcome'
    BY <1>0, <1>2 DEF Outcome, Tasks
  <1> QED
    BY <1>5, <1>6, <1>7, <1>8

\* A task's turn, whether it takes a line or not.
LEMMA AttributeInv ==
    ASSUME LogInv, Attribute
    PROVE  LogInv'
  <1>1. CASE \E l \in Tasks : /\ Unambiguous(attributing, l)
                              /\ taken' = [taken EXCEPT ![attributing] = l]
    BY <1>1, TakeInv DEF Attribute
  <1>2. CASE UNCHANGED taken
    <2>0. RecordCount \in Nat /\ attributing \in 1..RecordCount
      BY RecordCountAssumption DEF Attribute, Tasks
    <2>1. LogTypeOK'
      BY <1>2, <2>0 DEF LogInv, LogTypeOK, Attribute
    <2>2. LinesAreHonest'
      BY <1>2, <2>0 DEF LogInv, LinesAreHonest, Attribute, Admitted
    <2>3. Claims'
      BY <1>2, <2>0 DEF LogInv, Claims, Attribute, Admitted, OwnMatches, Matches, Tasks
    <2>4. Outcome'
      BY <1>2, <2>0 DEF LogInv, Outcome, Attribute
    <2> QED
      BY <2>1, <2>2, <2>3, <2>4 DEF LogInv
  <1> QED
    BY <1>1, <1>2 DEF Attribute

\* The sources and the flag are read off what was taken.
LEMMA ResolveInv ==
    ASSUME LogInv, Resolve
    PROVE  LogInv'
  <1> USE DEF LogInv, Resolve
  <1>0. RecordCount \in Nat
    BY RecordCountAssumption
  <1>1. LogTypeOK'
    BY <1>0 DEF LogTypeOK, Sources
  <1>2. LinesAreHonest'
    BY <1>0 DEF LinesAreHonest, Admitted
  <1>3. Claims'
    BY <1>0 DEF Claims, Admitted, OwnMatches, Matches, Tasks
  <1>4. Outcome'
    BY <1>0 DEF Outcome, Admitted, Used
  <1> QED
    BY <1>1, <1>2, <1>3, <1>4

\* The invariant holds in every state of every behavior.
THEOREM LogInvariant == LogSpec => []LogInv
  <1>1. LogInv /\ [LogNext]_logVars => LogInv'
    <2> SUFFICES ASSUME LogInv, [LogNext]_logVars PROVE LogInv'
      OBVIOUS
    <2>1. CASE UNCHANGED logVars
      BY <2>1 DEF logVars, LogInv, LogTypeOK, LinesAreHonest, Claims, Outcome,
                  Admitted, OwnMatches, Matches, Used
    <2> QED
      BY <2>1, CollectInv, LogLineInv, SliceInv, AttributeInv, ResolveInv DEF LogNext
  <1> QED
    BY <1>1, LogInitInv, PTL DEF LogSpec

-----------------------------------------------------------------------------
(* What the report promises                                                *)

\* With a whole log, a wait presented as the engine's own is that of the task's run.
THEOREM ExactWaitIsOwn == LogSpec => []OwnLine
  <1>1. LogInv => OwnLine
    <2> SUFFICES ASSUME LogInv, Admitted \subseteq sliced, NEW t \in Tasks,
                        waitSource[t] = "server-request-log", OwnMatches(t)
                 PROVE  taken[t] = t
      BY DEF OwnLine
    <2>1. taken[t] # 0
      BY DEF LogInv, Outcome
    <2> QED
      BY <2>1 DEF LogInv, Claims
  <1> QED
    BY <1>1, LogInvariant, PTL

\* An injection of a finite set into a subset of it leaves nothing out.
LEMMA InjectionIntoSubset ==
    ASSUME NEW S, IsFiniteSet(S), NEW T, T \subseteq S,
           NEW f \in [S -> T], \A x, y \in S : f[x] = f[y] => x = y
    PROVE  T = S
  <1>1. IsFiniteSet(T) /\ Cardinality(T) \in Nat /\ Cardinality(S) \in Nat
        /\ Cardinality(T) <= Cardinality(S)
        /\ (Cardinality(S) = Cardinality(T) => S = T)
    BY FS_Subset, FS_CardinalityType
  <1>2. f \in Injection(S, T)
    BY DEF Injection, IsInjective
  <1>3. Cardinality(S) <= Cardinality(T)
    BY <1>1, <1>2, FS_Injection
  <1> QED
    BY <1>1, <1>3

\* A report flagged attributed gives every admitted task its own line, although the code
\* never looks at whether the log is whole.
THEOREM AttributedReportIsExact == LogSpec => []AttributedIsExact
  <1>1. LogInv => AttributedIsExact
    <2> SUFFICES ASSUME LogInv, attributed
                 PROVE  \A t \in Admitted : taken[t] = t
      BY DEF AttributedIsExact
    <2>1. \A t \in Admitted : taken[t] # 0 /\ taken[t] \in sliced /\ Matches(t, taken[t])
      BY DEF LogInv, Outcome, Claims, Admitted
    <2>2. sliced \subseteq Admitted
      BY DEF LogInv, LinesAreHonest, LogTypeOK
    <2>3. sliced = Admitted
      <3> DEFINE f == [t \in Admitted |-> taken[t]]
      <3>1. IsFiniteSet(Admitted)
        <4>1. IsFiniteSet(1..RecordCount)
          BY RecordCountAssumption, FS_Interval
        <4> QED
          BY <4>1, FS_Subset DEF Admitted, Tasks
      <3>2. f \in [Admitted -> sliced]
        BY <2>1
      <3>3. \A x, y \in Admitted : f[x] = f[y] => x = y
        BY <2>1 DEF LogInv, Claims, Admitted
      <3> HIDE DEF f
      <3> QED
        BY <2>2, <3>1, <3>2, <3>3, InjectionIntoSubset
    <2>4. \A t \in Admitted : OwnMatches(t)
      <3> SUFFICES ASSUME NEW t \in Admitted PROVE OwnMatches(t)
        OBVIOUS
      <3>1. t \in Tasks /\ t \in sliced /\ line[t] # Unwritten
        BY <2>3 DEF Admitted, LogInv, LinesAreHonest
      <3>2. CASE record[t].class = "served"
        BY <3>1, <3>2 DEF LogInv, LinesAreHonest, OwnMatches, Matches
      <3>3. CASE record[t].class = "cancelled"
        <4>1. line[taken[t]] \in CancelledSignatures /\ taken[t] \in Admitted
              /\ taken[t] \in Tasks
          BY <2>1, <2>3, <3>3 DEF Matches, Admitted
        <4>2. record[taken[t]].class # "served"
          BY <2>1, <2>3, <4>1, ServedLine, SignatureAssumption, UnwrittenAssumption DEF LogInv
        <4>3. record[taken[t]].class = "cancelled"
          BY <2>1, <4>1, <4>2 DEF Matches
        <4>4. taken[t] = t
          BY <3>1, <3>3, <4>1, <4>3 DEF LogInv, LinesAreHonest
        <4> QED
          BY <2>1, <3>1, <4>4 DEF OwnMatches
      <3> QED
        BY <2>1, <3>2, <3>3 DEF Matches
    <2>5. \A t \in Admitted : t \in Tasks
      BY DEF Admitted
    <2> QED
      BY <2>1, <2>3, <2>4, <2>5 DEF LogInv, Claims
  <1> QED
    BY <1>1, LogInvariant, PTL

=============================================================================
