--------------------------- MODULE QuantConversion --------------------------
(***************************************************************************)
(* tools/convert_mlx_quant.py: plan a quantisation, run the converter as a *)
(* subprocess, optionally delete the local source, and write a provenance  *)
(* file.  A run may crash after any step and be repeated with other flags; *)
(* the directories and the provenance file stay.                           *)
(*                                                                         *)
(* Abstracted: arguments are valid or not, sizes are units of disk, the    *)
(* digests are left out.  The converter is external: it fills its output   *)
(* directory, may fail at any point, and reports success when the output   *)
(* is whole, or when it wrote nothing.                                     *)
(***************************************************************************)
EXTENDS Integers

CONSTANT ConvertBound   \* runs of the tool

ASSUME ConvertBoundAssumption == ConvertBound \in Nat

\* Where the output lies with respect to a local source.
Layouts == {"apart", "outputInSource", "sourceInOutput"}
Kinds == {"local", "hub"}
DiskUnits == 4      \* free space of the volume at the start
SourceUnits == 2
OutputUnits == 1
FloorUnits == 1     \* --min-free-gib

VARIABLES
    convKind, layout,       \* what and where, the same for every run
    args,                   \* what the command line says
    convAt,
    source, output,         \* the directories: absent, part, whole
    provOf,                 \* the provenance file: what the output was when it was written
    free, convRuns,
    exitCode

convVars == <<convKind, layout, args, convAt, source, output, provOf, free,
              convRuns, exitCode>>

\* sizes: --source-bytes and --expect-output-bytes are given.
Flags == [validArgs : BOOLEAN, sizes : BOOLEAN, dryRun : BOOLEAN, force : BOOLEAN,
          delete : BOOLEAN]

ConvertInit ==
    /\ convKind = "local"
    /\ layout = "apart"
    /\ args = [validArgs |-> TRUE, sizes |-> FALSE, dryRun |-> FALSE, force |-> FALSE,
               delete |-> FALSE]
    /\ convAt = "fresh"
    /\ source = "whole"
    /\ output = "absent"
    /\ provOf = "none"
    /\ free = DiskUnits
    /\ convRuns = 0
    /\ exitCode = -1

Dirs == <<source, output, provOf, free>>
Conversion == <<convKind, layout, args, convRuns>>

-----------------------------------------------------------------------------
(* The plan: nothing is written                                            *)

\* validate_source: a local source must have its config.json.
SourceValid == convKind = "hub" \/ source # "absent"

\* fits_requirement: a local source is already on the disk; a hub source has no
\* measured size.
Needed == OutputUnits + FloorUnits + (IF convKind = "local" THEN 0 ELSE SourceUnits)
DiskSafe == (convKind = "hub" => args.sizes) /\ free >= Needed

OutputEmpty == output = "absent" /\ layout # "sourceInOutput"

Plan_FillsAnyOutput ==
    IF ~args.validArgs \/ ~SourceValid THEN 2
    ELSE IF ~DiskSafe THEN 3
    ELSE IF provOf # "none" /\ ~args.force THEN 2
    ELSE 0

\* run, up to the dry run: 2 for a usage error, 3 for the disk guard, else 0.
Plan ==
    IF ~args.validArgs \/ ~SourceValid THEN 2
    ELSE IF ~DiskSafe THEN 3
    ELSE IF ~OutputEmpty THEN 2
    ELSE IF provOf # "none" /\ ~args.force THEN 2
    ELSE 0

BeginConversion(origin, lay, flags) ==
    /\ convAt \in {"fresh", "exited"}
    /\ convRuns < ConvertBound
    /\ convAt # "fresh" => (origin = convKind /\ lay = layout)
    /\ origin = "hub" => lay = "apart"
    /\ convRuns' = convRuns + 1
    /\ convKind' = origin
    /\ layout' = lay
    /\ args' = flags
    /\ convAt' = "planning"
    /\ exitCode' = -1
    /\ UNCHANGED Dirs

ExitConversion(code) == convAt' = "exited" /\ exitCode' = code

DecidePlan ==
    /\ convAt = "planning"
    /\ IF Plan # 0 \/ args.dryRun THEN ExitConversion(Plan)
       ELSE convAt' = "converting" /\ UNCHANGED exitCode
    /\ UNCHANGED <<Conversion, Dirs>>

-----------------------------------------------------------------------------
(* The conversion                                                          *)

\* The converter writes file after file, over the files that are there.
ConverterWrites ==
    /\ convAt = "converting"
    /\ output' = IF output = "part" THEN "whole" ELSE "part"
    /\ free' = IF output = "absent" THEN free - OutputUnits ELSE free
    /\ UNCHANGED <<Conversion, convAt, source, provOf, exitCode>>

\* A failing converter's code is passed through.
ConverterFails ==
    /\ convAt = "converting"
    /\ ExitConversion(1)
    /\ UNCHANGED <<Conversion, Dirs>>

ConverterSucceeds ==
    /\ convAt = "converting"
    /\ output \in {"absent", "whole"}
    /\ convAt' = "converted"
    /\ UNCHANGED <<Conversion, Dirs, exitCode>>

\* _assert_output_valid: a successful converter that left no output.
OutputInvalid ==
    /\ convAt = "converted"
    /\ output = "absent"
    /\ ExitConversion(2)
    /\ UNCHANGED <<Conversion, Dirs>>

\* --delete-source-cache applies to a local source, and not to one inside the output.
AfterValidation ==
    IF args.delete /\ convKind = "local" /\ layout # "sourceInOutput"
    THEN "deleting" ELSE "recording"

OutputValid ==
    /\ convAt = "converted"
    /\ output # "absent"
    /\ convAt' = AfterValidation
    /\ UNCHANGED <<Conversion, Dirs, exitCode>>

\* rmtree removes what it reaches, the output too when the source contains it; an
\* OSError ends it and is recorded in the provenance.
DeleteSource ==
    /\ convAt = "deleting"
    /\ source # "absent"
    /\ source' = IF source = "whole" THEN "part" ELSE "absent"
    /\ output' = IF layout = "outputInSource" /\ source = "part" THEN "absent" ELSE output
    /\ UNCHANGED <<Conversion, convAt, provOf, free, exitCode>>

DeletionEnds ==
    /\ convAt = "deleting"
    /\ convAt' = "recording"
    /\ UNCHANGED <<Conversion, Dirs, exitCode>>

\* The digest in it was taken before the deletion.
WriteProvenance ==
    /\ convAt = "recording"
    /\ IF provOf # "none" /\ ~args.force
         THEN ExitConversion(2) /\ UNCHANGED provOf
         ELSE provOf' = "whole" /\ ExitConversion(0)
    /\ UNCHANGED <<Conversion, source, output, free>>

ConversionCrash ==
    /\ convAt \notin {"fresh", "exited"}
    /\ ExitConversion(-9)
    /\ UNCHANGED <<Conversion, Dirs>>

ConvertNext ==
    \/ \E origin \in Kinds, lay \in Layouts, flags \in Flags :
           BeginConversion(origin, lay, flags)
    \/ DecidePlan
    \/ ConverterWrites
    \/ ConverterFails
    \/ ConverterSucceeds
    \/ OutputInvalid
    \/ OutputValid
    \/ DeleteSource
    \/ DeletionEnds
    \/ WriteProvenance
    \/ ConversionCrash

ConvertSpec == ConvertInit /\ [][ConvertNext]_convVars

-----------------------------------------------------------------------------

\* With the output outside the source, a provenance file stands beside a complete
\* output ("ONLY after a successful conversion"), and the source loses a file only
\* when the output is complete: no crash, failure or repeated run leaves the user
\* with neither.
ConversionIsHonest ==
    layout = "apart" =>
        /\ provOf # "none" => output = "whole"
        /\ source # "whole" => output = "whole"

=============================================================================
