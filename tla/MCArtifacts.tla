------------------------------ MODULE MCArtifacts ------------------------------
(***************************************************************************)
(* What the service makes of images and keeps on disk, for TLC: published  *)
(* files, the files of the database, the inference worker with its         *)
(* threads, and the algorithms of ImagingSamples.  These share no state:   *)
(* a behaviour is about one "part"; that of an algorithm takes one input.  *)
(***************************************************************************)
EXTENDS ImagingSamples

CONSTANTS Callers, MaxCrashes, MaxCommits, MaxFaults,   \* files and database
          Threads, WarmupRuns, MaximumBatchSize         \* inference worker

ASSUME ArtifactsAssumption ==
    /\ {MaxCrashes, MaxCommits, MaxFaults} \subseteq Nat
    /\ {WarmupRuns, MaximumBatchSize} \subseteq Nat \ {0}

VARIABLES part, seed, input,
          operation, target, disk, staging, at, crashes,
          main, wal, connection, commits, saved, temporary, doing, restored, faults,
          state, session, warmed, within, batch

Files == INSTANCE Publication
Base == INSTANCE DatabaseFiles
Worker == INSTANCE OnnxWorker

fileVars == <<operation, target, disk, staging, at, crashes>>
baseVars == <<main, wal, connection, commits, saved, temporary, doing, restored, faults>>
workerVars == <<state, session, warmed, within, batch>>
sampleVars == <<part, seed, input>>
vars == <<sampleVars, fileVars, baseVars, workerVars>>

(* Only the part a behaviour is about varies.                              *)
Init ==
    /\ part \in Parts \cup {"files", "base", "worker"}
    /\ seed \in Seeds
    /\ part \notin Parts => seed = 1
    /\ input = <<>>
    /\ Files!Init /\ Base!Init /\ Worker!Init
    /\ part # "files" => operation = "intake" /\ target = Files!Absent
    /\ part # "base" => saved = Base!NoFile

FileStep == part = "files" /\ Files!Next /\ UNCHANGED <<sampleVars, baseVars, workerVars>>
BaseStep == part = "base" /\ Base!Next /\ UNCHANGED <<sampleVars, fileVars, workerVars>>
WorkerStep == part = "worker" /\ Worker!Next /\ UNCHANGED <<sampleVars, fileVars, baseVars>>

Take ==
    /\ part \in Parts /\ input = <<>>
    /\ input' \in Inputs(part, seed)
    /\ UNCHANGED <<part, seed, fileVars, baseVars, workerVars>>

Next == FileStep \/ BaseStep \/ WorkerStep \/ Take

Spec == Init /\ [][Next]_vars

Taken(p) == part = p /\ input # <<>>

-------------------------------------------------------------------------------
(* Published files are what AtomicTarget says of them.                     *)
Published == Files!Published

(* Staging files are left behind by a process that died, by nothing else.  *)
StagingOwned == Files!StagingOwned

(* backup.py: no damaged file in place, no acknowledged commit lost.       *)
CommittedKept == Base!CommittedKept

(* backup.py: a restore after a clean stop takes effect.                   *)
CleanRestoreHolds == Base!CleanRestoreHolds

(* backup.py, against the documentation: any restore takes effect.         *)
RestoreHolds == Base!RestoreHolds

(* onnx_worker.py: a batch runs on a session that is there and warm.       *)
RunsOnWarmSession == Worker!RunsOnWarmSession

(* sahi.py: the slices cover a frame; the merge accounts for detections,   *)
(* and its results do not depend on the order in which these come.         *)
SlicesAccounted ==
    /\ Taken("slices") => Frames!Covered(input.width, input.height, input.size)
    /\ Taken("detections") =>
          /\ Frames!DetectionsAccounted(6, 3, input, 2)
          /\ Frames!OrderIgnored(6, 3, input, 2)

(* projection.py: each visible prediction is evidence of one result.       *)
EvidenceKept == Taken("discs") => Discs!EvidenceKept(input.predictions, input.provenance)

(* rendering.py, preview_center.py: the tiles add up to one canvas, and of *)
(* its preview only the opening in the middle is filled.                   *)
CanvasAccounted ==
    /\ Taken("canvas") => Render!OneCanvas(input.frames, input.side, input.mask)
    /\ Taken("opening") =>
          Center!OnlyOpeningFilled(input.preview, input.covered, input.center, input.reference)

(* dense_evidence.py, projective.py, calibration.py: a cycle is judged by  *)
(* what was not fitted, its center found by the joins that agree.          *)
CycleJudged ==
    /\ Taken("joins") => Joins!Judged(input.joins, input.solver)
    /\ Taken("centers") => Calibration!Agreed(input)

(* center_completion.py: the screens are turned onto the flashes.          *)
ScreensAligned ==
    Taken("screens") =>
        Screens!Aligned(input.flashes.angles, input.flashes.turn, input.flashes.error,
                        input.coarse, input.offset)

(* model_validation.py, onnx_worker.py, sahi.py: an imported bundle that   *)
(* suits the worker can be sliced for, but for short batches.              *)
BundleRuns == Taken("bundles") => \A windows \in 1..6 : Bundles!Runs(input.bundle, input.size, windows)

(* center_completion.py, against the documentation: the residual gates     *)
(* hold for the rotation that is applied.                                  *)
AppliedRotationFits ==
    Taken("screens") => Screens!AppliedFits(input.flashes.angles, input.coarse, input.offset)
===============================================================================
