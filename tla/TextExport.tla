------------------------------ MODULE TextExport ----------------------------
(***************************************************************************)
(* tools/export_qwen_text.py: derive a text-only bundle from a multimodal  *)
(* one.  The bundle is built in <destination>.incomplete and renamed when  *)
(* it is whole; an exception removes the build, a crash leaves it.  Two    *)
(* runs may aim at one destination, and the source may be rewritten while  *)
(* they read it.                                                           *)
(*                                                                         *)
(* Abstracted: a shard is all text, mixed or all vision; its payload is a  *)
(* version number, its hash that version.                                  *)
(***************************************************************************)
EXTENDS Integers, FiniteSets

CONSTANTS
    Exporters,      \* the runs of the tool
    SourceShards,
    KindOf,         \* what each shard holds
    MaxVersion      \* rewrites of the source while an export runs

ASSUME KindOfAssumption == KindOf \in [SourceShards -> {"text", "mixed", "vision"}]
ASSUME MaxVersionAssumption == MaxVersion \in Nat

VARIABLES
    tensorsKnown,   \* the source holds only tensors of a known namespace
    metadataAgrees, \* its quantization maps can be reconciled
    version,        \* version of each shard of the source
    exportAt,       \* where each run is
    build,          \* <destination>.incomplete: absent, or its files
    digest,         \* the hashes a run has entered in its manifest
    published       \* the destination: absent, or its files and its manifest

exportVars == <<tensorsKnown, metadataAgrees, version, exportAt, build, digest, published>>

Missing == [there |-> FALSE]
EmptyBuild == [there |-> TRUE, content |-> [s \in {} |-> 0], rest |-> {}]
NoDigest == [s \in {} |-> 0]

ExportInit ==
    /\ tensorsKnown = TRUE
    /\ metadataAgrees = TRUE
    /\ version = [s \in SourceShards |-> 0]
    /\ exportAt = [p \in Exporters |-> "outside"]
    /\ build = Missing
    /\ digest = [p \in Exporters |-> NoDigest]
    /\ published = Missing

Bundle == <<tensorsKnown, metadataAgrees, version>>

\* retained: a shard with no retained tensor is left out.
Kept == {s \in SourceShards : KindOf[s] # "vision"}
Linked(s) == KindOf[s] = "text"

With(f, s, v) == [x \in DOMAIN f \cup {s} |-> IF x = s THEN v ELSE f[x]]
Go(p, to) == exportAt' = [exportAt EXCEPT ![p] = to]

-----------------------------------------------------------------------------
(* One run                                                                 *)

\* Everything is read and checked before anything is written.
CheckInputs(p) ==
    /\ exportAt[p] = "outside"
    /\ Go(p, IF ~published.there /\ tensorsKnown /\ metadataAgrees THEN "checked" ELSE "refused")
    /\ UNCHANGED <<Bundle, build, digest, published>>

\* mkdir(exist_ok=False), before the try: a run that finds a build of another run,
\* or of a crashed one, leaves it alone.
MakeBuild(p) ==
    /\ exportAt[p] = "checked"
    /\ IF build.there THEN Go(p, "refused") /\ UNCHANGED build
       ELSE Go(p, "shards") /\ build' = EmptyBuild
    /\ UNCHANGED <<Bundle, digest, published>>

\* A shard that keeps every tensor is a hard link to the source's file: its content
\* stays whatever the source's is.  Another is written out, as the source is now.
WriteShard(p, s) ==
    /\ exportAt[p] = "shards"
    /\ s \in Kept \ DOMAIN build.content
    /\ \A t \in DOMAIN build.content : t \in DOMAIN digest[p]
    /\ build' = [build EXCEPT !.content = With(@, s, version[s])]
    /\ UNCHANGED <<Bundle, exportAt, digest, published>>

Content(dir, s) == IF Linked(s) THEN version[s] ELSE dir.content[s]

\* except BaseException: the build is removed.
Abort(p) ==
    /\ Go(p, "failed")
    /\ build' = Missing

VerifyShard_Trusting(p, s) ==
    /\ exportAt[p] = "shards"
    /\ s \in DOMAIN build.content \ DOMAIN digest[p]
    /\ digest' = [digest EXCEPT ![p] = With(@, s, version[s])]
    /\ UNCHANGED <<Bundle, exportAt, build, published>>

\* The source is read a second time for the hash; "payload changed" otherwise.
VerifyShard(p, s) ==
    /\ exportAt[p] = "shards"
    /\ s \in DOMAIN build.content \ DOMAIN digest[p]
    /\ IF Content(build, s) = version[s]
         THEN /\ digest' = [digest EXCEPT ![p] = With(@, s, version[s])]
              /\ UNCHANGED <<exportAt, build>>
         ELSE Abort(p) /\ UNCHANGED digest
    /\ UNCHANGED <<Bundle, published>>

\* Sidecars, the config and the manifest, in this order.
NextPart == [shards |-> "sidecars", sidecars |-> "config", config |-> "manifest"]

WriteRest(p) ==
    /\ exportAt[p] \in DOMAIN NextPart
    /\ exportAt[p] = "shards" => DOMAIN digest[p] = Kept
    /\ build' = [build EXCEPT !.rest = @ \cup {NextPart[exportAt[p]]}]
    /\ Go(p, NextPart[exportAt[p]])
    /\ UNCHANGED <<Bundle, digest, published>>

\* A rename onto a bundle that is there fails.
Publish(p) ==
    /\ exportAt[p] = "manifest"
    /\ IF published.there THEN Abort(p) /\ UNCHANGED published
       ELSE /\ published' = [there |-> TRUE, content |-> build.content,
                             rest |-> build.rest, manifest |-> digest[p]]
            /\ build' = Missing
            /\ Go(p, "done")
    /\ UNCHANGED <<Bundle, digest>>

Building(p) == exportAt[p] \in {"shards"} \cup {NextPart[x] : x \in DOMAIN NextPart}

\* A full disk, an unaligned tensor, an interrupt.
ExportRaises(p) ==
    /\ Building(p)
    /\ Abort(p)
    /\ UNCHANGED <<Bundle, digest, published>>

ExportCrash(p) ==
    /\ exportAt[p] = "checked" \/ Building(p)
    /\ Go(p, "crashed")
    /\ UNCHANGED <<Bundle, build, digest, published>>

\* Outside the tool: the bundle that is exported, and its shards rewritten in place.
ChooseSource(k, m) ==
    /\ \A p \in Exporters : exportAt[p] = "outside"
    /\ tensorsKnown' = k
    /\ metadataAgrees' = m
    /\ UNCHANGED <<version, exportAt, build, digest, published>>

RewriteSource(s) ==
    /\ version[s] < MaxVersion
    /\ version' = [version EXCEPT ![s] = @ + 1]
    /\ UNCHANGED <<tensorsKnown, metadataAgrees, exportAt, build, digest, published>>

ExportNext ==
    \/ \E p \in Exporters :
           \/ CheckInputs(p)
           \/ MakeBuild(p)
           \/ \E s \in SourceShards : WriteShard(p, s) \/ VerifyShard(p, s)
           \/ WriteRest(p)
           \/ Publish(p)
           \/ ExportRaises(p)
           \/ ExportCrash(p)
    \/ \E k, m \in BOOLEAN : ChooseSource(k, m)
    \/ \E s \in SourceShards : RewriteSource(s)

ExportSpec == ExportInit /\ [][ExportNext]_exportVars

-----------------------------------------------------------------------------

\* The destination appears whole and never changes: it has every retained shard,
\* the sidecars, the config and the manifest, and the manifest's hashes are those
\* of the shards that were written out, whatever two runs, a crash, an exception
\* and a source that is rewritten under them do.
ExportIsWhole ==
    published.there =>
        /\ DOMAIN published.content = Kept
        /\ DOMAIN published.manifest = Kept
        /\ published.rest = {"sidecars", "config", "manifest"}
        /\ \A s \in Kept : ~Linked(s) => published.manifest[s] = published.content[s]
        /\ tensorsKnown /\ metadataAgrees

=============================================================================
