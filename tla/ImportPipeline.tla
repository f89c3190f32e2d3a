--------------------------- MODULE ImportPipeline ---------------------------
(***************************************************************************)
(* The import of one iPhone recording: four stages that turn the files of  *)
(* the recorder into a VI-Map, and the manifest.json by which a later call *)
(* on the same output directory knows which stages it may skip.            *)
(*                                                                         *)
(* Source: tools/sensor-recorder-pipeline/pipeline.py.                     *)
(*                                                                         *)
(* What a file says is abstracted to the recordings that it was made from. *)
(* A recording stands for its files together with a configuration: this is *)
(* what input_fingerprint identifies.  A stage may raise an exception      *)
(* between any two of its effects, and the process may be killed; MaxFaults*)
(* bounds both together.                                                   *)
(***************************************************************************)
EXTENDS Integers, Sequences, FiniteSets

CONSTANTS Recordings,
          WithImages,          \* those whose configuration has images.enabled
          Selections,          \* pairs of --from and --to
          MaxFaults,
          KillOverCompleted    \* may a kill strike a stage that is run again
                               \* although its record says "completed"?

VARIABLES recording,   \* what --data and --config name
          manifest,    \* manifest.json
          files,       \* the output directory; files.listed: keyframes.csv names
                       \* an image for each keyframe
          run,         \* the process, if one runs
          faults

vars == <<recording, manifest, files, run, faults>>

STAGES == <<"validate", "normalize", "create_vimap", "export_rerun">>
Stages == 1 .. Len(STAGES)

NormalizedFiles ==
  <<"frames.csv", "imu.csv", "keyframes.csv", "calibration.csv", "recording.json">>
Normalized == {NormalizedFiles[i] : i \in 1 .. Len(NormalizedFiles)}

\* A directory is missing, partial or whole; of is what it was made from.
Missing == [state |-> "missing", of |-> {}]
Partial(sources) == [state |-> "partial", of |-> sources]
Whole(sources)   == [state |-> "whole", of |-> sources]

NoRecord == [status |-> "none", fingerprint |-> <<>>]
NoRun    == [pc |-> "idle", stage |-> 1, to |-> 1, force |-> FALSE]

\* The effects of each stage, in their order.  The last step of each is to record
\* its result in the manifest.
StepsOf(stage) ==
  CASE STAGES[stage] = "validate"     -> <<"validate", "record">>
    [] STAGES[stage] = "normalize"    -> NormalizedFiles \o <<"record">>
    [] STAGES[stage] = "create_vimap" ->
         (IF recording \in WithImages
          THEN <<"inputs", "clear_images", "extract", "list_images">>
          ELSE <<"inputs">>)
         \o <<"clear_map", "import", "reload", "map_report", "record">>
    [] STAGES[stage] = "export_rerun" -> <<"export", "rrd_report", "record">>

After(pc) ==
  LET steps == StepsOf(run.stage)
      i == CHOOSE k \in 1 .. Len(steps) : steps[k] = pc
  IN  steps[i + 1]

Working == run.pc \notin {"idle", "next"}

Init ==
  /\ recording \in Recordings
  /\ manifest = [status |-> "none", stages |-> [s \in Stages |-> NoRecord]]
  /\ files = [validation |-> Missing,
              normalized |-> [f \in Normalized |-> {}],
              listed     |-> FALSE,
              images     |-> Missing,
              vimap      |-> Missing,
              map_report |-> {},
              rrd        |-> {},
              rrd_report |-> {}]
  /\ run = NoRun
  /\ faults = 0
-----------------------------------------------------------------------------
\* The digest of the input and of the fingerprints of all stages before this one,
\* whatever their status.
StageFingerprint(stage) ==
  <<recording>> \o [s \in 1 .. stage - 1 |-> manifest.stages[s].fingerprint]

Unchanged(stage) ==
  manifest.stages[stage] =
    [status |-> "completed", fingerprint |-> StageFingerprint(stage)]

Recorded(stage, status) ==
  [manifest.stages EXCEPT ![stage] =
     [status |-> status, fingerprint |-> StageFingerprint(stage)]]

\* Between two runs: another recording or configuration for the same output.
ChangeInput ==
  /\ run.pc = "idle"
  /\ recording' \in Recordings \ {recording}
  /\ UNCHANGED <<manifest, files, run, faults>>

Start ==
  /\ run.pc = "idle"
  /\ \E selection \in Selections, force \in BOOLEAN :
       run' = [pc |-> "next", stage |-> selection[1], to |-> selection[2],
               force |-> force]
  /\ UNCHANGED <<recording, manifest, files, faults>>

SkipStage ==
  /\ run.pc = "next" /\ run.stage <= run.to
  /\ ~run.force /\ Unchanged(run.stage)
  /\ run' = [run EXCEPT !.stage = @ + 1]
  /\ UNCHANGED <<recording, manifest, files, faults>>

BeginStage ==
  /\ run.pc = "next" /\ run.stage <= run.to
  /\ run.force \/ ~Unchanged(run.stage)
  /\ manifest' = [manifest EXCEPT !.status = "running"]
  /\ run' = [run EXCEPT !.pc = StepsOf(run.stage)[1]]
  /\ UNCHANGED <<recording, files, faults>>

CompleteStage ==
  /\ run.pc = "record"
  /\ manifest' = [manifest EXCEPT !.stages = Recorded(run.stage, "completed")]
  /\ run' = [run EXCEPT !.pc = "next", !.stage = @ + 1]
  /\ UNCHANGED <<recording, files, faults>>

Finish ==
  /\ run.pc = "next" /\ run.stage > run.to
  /\ manifest' = [manifest EXCEPT !.status = "completed"]
  /\ run' = NoRun
  /\ UNCHANGED <<recording, files, faults>>
-----------------------------------------------------------------------------
\* One effect of the stage that runs.
Effect(pc, changed) ==
  /\ run.pc = pc
  /\ files' = changed
  /\ run' = [run EXCEPT !.pc = After(pc)]
  /\ UNCHANGED <<recording, manifest, faults>>

ValidateRecording ==
  Effect("validate", [files EXCEPT !.validation = Whole({recording})])

\* Each file is put in place by a rename.  A new keyframes.csv has no image_path.
NormalizeRecording ==
  \E file \in Normalized :
    Effect(file, [files EXCEPT !.normalized[file] = {recording},
                               !.listed = @ /\ file # "keyframes.csv"])

InputsPresent ==
  \A file \in Normalized \ {"frames.csv"} : files.normalized[file] # {}
CheckInputs ==
  /\ InputsPresent
  /\ Effect("inputs", files)

\* The frames that keyframes.csv selects are taken from the video of the recording.
ImageSources == {recording} \cup files.normalized["keyframes.csv"]

ClearImages ==
  Effect("clear_images", [files EXCEPT !.images = Partial({})])
ExtractImages ==
  Effect("extract", [files EXCEPT !.images = Whole(ImageSources)])
\* keyframes.csv is written again, with image_path.
ListImages ==
  Effect("list_images",
         [files EXCEPT !.normalized["keyframes.csv"] = ImageSources, !.listed = TRUE])

MapInTheWay == files.vimap.state # "missing" /\ ~run.force
ClearMap ==
  /\ ~MapInTheWay
  /\ Effect("clear_map", [files EXCEPT !.vimap = Missing])

\* sensor_recorder_to_vimap: it writes the map, with the images that keyframes.csv
\* names, loads it again and compares.
MapSources ==
  (UNION {files.normalized[f] : f \in Normalized \ {"frames.csv"}})
    \cup (IF files.listed THEN files.images.of ELSE {})
ImagesLost == files.listed /\ files.images.state # "whole"
ImportMap ==
  /\ ~ImagesLost
  /\ Effect("import", [files EXCEPT !.vimap = Partial(MapSources)])
ReloadMap == Effect("reload", [files EXCEPT !.vimap = Whole(MapSources)])
ReportMap == Effect("map_report", [files EXCEPT !.map_report = MapSources])

\* The recording is written into a temporary directory, verified and moved.
ExportInputsPresent ==
  /\ files.normalized["keyframes.csv"] # {}
  /\ files.map_report # {}
  /\ files.images.state # "missing"
ExportRerun ==
  /\ ExportInputsPresent
  /\ Effect("export", [files EXCEPT !.rrd = files.map_report \cup files.images.of
                                       \cup files.normalized["keyframes.csv"]])
ReportRerun == Effect("rrd_report", [files EXCEPT !.rrd_report = files.rrd])

StageEffect ==
  \/ ValidateRecording \/ NormalizeRecording \/ CheckInputs
  \/ ClearImages \/ ExtractImages \/ ListImages
  \/ ClearMap \/ ImportMap \/ ReloadMap \/ ReportMap
  \/ ExportRerun \/ ReportRerun
-----------------------------------------------------------------------------
\* run_stage catches every exception, an interrupt included, and passes it on.
RecordFailureOfRun ==
  /\ manifest' = [manifest EXCEPT !.status = "failed"]
  /\ run' = NoRun
  /\ UNCHANGED <<recording, files>>
RecordFailure ==
  /\ manifest' = [status |-> "failed", stages |-> Recorded(run.stage, "failed")]
  /\ run' = NoRun
  /\ UNCHANGED <<recording, files>>

Refuse ==
  /\ \/ run.pc = "inputs" /\ ~InputsPresent
     \/ run.pc = "clear_map" /\ MapInTheWay
     \/ run.pc = "import" /\ ImagesLost
     \/ run.pc = "export" /\ ~ExportInputsPresent
  /\ RecordFailure
  /\ UNCHANGED faults

Raise ==
  /\ Working /\ run.pc # "record"
  /\ faults < MaxFaults
  /\ RecordFailure
  /\ faults' = faults + 1

\* No handler runs.
Kill ==
  /\ run.pc # "idle"
  /\ faults < MaxFaults
  /\ ~KillOverCompleted /\ Working
       => manifest.stages[run.stage].status # "completed"
  /\ run' = NoRun
  /\ faults' = faults + 1
  /\ UNCHANGED <<recording, manifest, files>>

Progress == SkipStage \/ BeginStage \/ CompleteStage \/ Finish \/ StageEffect \/ Refuse

Next == ChangeInput \/ Start \/ Progress \/ Raise \/ Kill

Spec == Init /\ [][Next]_vars

\* A process that runs goes on running; nobody is obliged to start one.
FairSpec == Spec /\ WF_vars(Progress)
-----------------------------------------------------------------------------
Directories == [state : {"missing", "partial", "whole"}, of : SUBSET Recordings]
PCs == {"idle", "next"} \cup Normalized
         \cup {"validate", "inputs", "clear_images", "extract", "list_images",
               "clear_map", "import", "reload", "map_report", "export",
               "rrd_report", "record"}

\* A fingerprint has one component for the input and one for each stage before, and
\* only a stage that was begun has one.
TypeOK ==
  /\ recording \in Recordings
  /\ manifest.status \in {"none", "running", "failed", "completed"}
  /\ \A s \in Stages :
       LET r == manifest.stages[s]
       IN  /\ r.status \in {"none", "failed", "completed"}
           /\ Len(r.fingerprint) = (IF r.status = "none" THEN 0 ELSE s)
           /\ r.status # "none" => r.fingerprint[1] \in Recordings
  /\ {files.validation, files.images, files.vimap} \subseteq Directories
  /\ files.normalized \in [Normalized -> SUBSET Recordings]
  /\ files.listed \in BOOLEAN
  /\ {files.map_report, files.rrd, files.rrd_report} \subseteq SUBSET Recordings
  /\ run.pc \in PCs /\ run.stage \in 1 .. 5 /\ run.to \in Stages
  /\ run.force \in BOOLEAN
  /\ faults \in 0 .. MaxFaults

\* The outputs of a stage are there, finished, and made from r and from nothing else.
\* Not among them is what create_vimap adds to a file of normalize (ImagesListed).
MadeFrom(stage, r) ==
  CASE STAGES[stage] = "validate"     -> files.validation = Whole({r})
    [] STAGES[stage] = "normalize"    ->
         \A f \in Normalized : files.normalized[f] = {r}
    [] STAGES[stage] = "create_vimap" ->
         /\ files.vimap = Whole({r}) /\ files.map_report = {r}
         /\ r \in WithImages => files.images = Whole({r})
    [] STAGES[stage] = "export_rerun" ->
         files.rrd = {r} /\ files.rrd_report = {r}

\* Without image_path the features and the loop closure cannot be computed.
ImagesListed(r) == r \in WithImages => files.listed

\* "[skip] unchanged": a stage whose record says "completed" has the directories and
\* reports that the record describes, after exceptions, interrupted first runs,
\* changes of the input and calls that end after any stage.  (Not after a kill over
\* a completed stage or calls that begin later, nor for recordings without images.)
RecordsHonest ==
  \A s \in Stages :
    manifest.stages[s].status = "completed" /\ ~(Working /\ run.stage = s)
      => MadeFrom(s, manifest.stages[s].fingerprint[1])

\* A run over all stages ends, and the manifest says "completed".
ImportSucceeds ==
  run.pc = "next" /\ run.stage > Len(STAGES) /\ run'.pc = "idle"
    /\ manifest'.status = "completed"

\* It leaves every output made from the recording it was called with, whichever
\* stages it skipped; one that was forced, and so skipped none, also leaves the
\* images listed.
CompletedIsCurrent ==
  [][ImportSucceeds => /\ \A s \in Stages : MadeFrom(s, recording)
                       /\ run.force => ImagesListed(recording)]_vars

\* Without --force this does not hold: normalize has written keyframes.csv again, and
\* create_vimap is skipped, since its record says nothing of that file.
CompletedIsListed == [][ImportSucceeds => ImagesListed(recording)]_vars

=============================================================================
