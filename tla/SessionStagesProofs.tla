------------------------- MODULE SessionStagesProofs -------------------------
(***************************************************************************)
(* Proofs about SessionStages and the import in it, for any number of      *)
(* recordings and failures: what the manifest records as completed is      *)
(* there, and a call that succeeds has made what it leaves from the        *)
(* recording it was called with.  For calls without --force this depends   *)
(* on what the calls before were like (CallsAreFit); for sfm --force it    *)
(* does not.                                                               *)
(***************************************************************************)
EXTENDS SessionStages, SequenceTheorems, TLAPS

-----------------------------------------------------------------------------
(* What is assumed of all calls, the earlier ones included, where a theorem *)
(* says so (see the README on what goes wrong without).                     *)

\* All calls of the import begin at its first stage.
WholeCalls == \A selection \in Selections : selection[1] = 1

\* All configurations have images.
ImagesEnabled == WithImages = Recordings

\* And no kill strikes a stage that is run again over a record "completed".
CallsAreFit == WholeCalls /\ ImagesEnabled /\ ~KillOverCompleted

-----------------------------------------------------------------------------
(* The inductive invariant.                                                *)

ImageSteps == {"clear_images", "extract", "list_images"}
CreateSteps ==
  ImageSteps \cup {"inputs", "clear_map", "import", "reload", "map_report", "record"}

FileRecords == [validation : Import!Directories,
                normalized : [Import!Normalized -> SUBSET Recordings],
                listed     : BOOLEAN,
                images     : Import!Directories,
                vimap      : Import!Directories,
                map_report : SUBSET Recordings,
                rrd        : SUBSET Recordings,
                rrd_report : SUBSET Recordings]
RunRecords == [pc : Import!PCs, stage : 1 .. 5, to : 1 .. 4, force : BOOLEAN]

RecordTyped(s) ==
  LET r == manifest.stages[s]
  IN  /\ r.status \in {"none", "failed", "completed"}
      /\ Len(r.fingerprint) = (IF r.status = "none" THEN 0 ELSE s)
      /\ r.status # "none" => r.fingerprint[1] \in Recordings

ManifestTyped ==
  /\ manifest = [status |-> manifest.status, stages |-> manifest.stages]
  /\ manifest.status \in {"none", "running", "failed", "completed"}
  /\ manifest.stages = [s \in 1 .. 4 |-> manifest.stages[s]]
  /\ \A s \in 1 .. 4 : RecordTyped(s)

ImportTyped ==
  /\ recording \in Recordings
  /\ ManifestTyped
  /\ files \in FileRecords
  /\ run \in RunRecords
  /\ faults \in 0 .. MaxFaults

HasImages == recording \in WithImages

\* A stage that runs is at one of its steps.
AtStep ==
  Import!Working =>
    /\ run.stage \in 1 .. 4
    /\ run.stage = 1 => run.pc \in {"validate", "record"}
    /\ run.stage = 2 => run.pc \in Import!Normalized \cup {"record"}
    /\ run.stage = 3 => run.pc \in CreateSteps /\ (HasImages \/ run.pc \notin ImageSteps)
    /\ run.stage = 4 => run.pc \in {"export", "rrd_report", "record"}

\* What the stage that runs has made so far.
Validated ==
  run.stage = 1 /\ run.pc = "record" => files.validation = Import!Whole({recording})
InPlace(file) == files.normalized[file] = {recording}
Placed == run.stage = 2 =>
  /\ run.pc # "frames.csv" => InPlace("frames.csv")
  /\ run.pc \notin {"frames.csv", "imu.csv"} => InPlace("imu.csv")
  /\ run.pc \in {"calibration.csv", "recording.json", "record"} => InPlace("keyframes.csv")
  /\ run.pc \in {"recording.json", "record"} => InPlace("calibration.csv")
  /\ run.pc = "record" => InPlace("recording.json")
Created == run.stage = 3 =>
  /\ run.pc \notin {"inputs", "clear_images", "extract"}
       => files.images = Import!Whole({recording})
  /\ run.pc \notin ImageSteps \cup {"inputs"} => files.listed
  /\ run.pc \in {"map_report", "record"} => files.vimap = Import!Whole({recording})
  /\ run.pc = "record" => files.map_report = {recording}
Exported == run.stage = 4 =>
  /\ run.pc # "export" => files.rrd = {recording}
  /\ run.pc = "record" => files.rrd_report = {recording}
MadeHere == Validated /\ Placed /\ Created /\ Exported

\* And the stages before it.
MadeSoFar ==
  /\ \A s \in 1 .. run.stage - 1 : Import!MadeFrom(s, recording)
  /\ Import!Working => MadeHere

\* The record of a stage says that it has been completed for r.
CompletedFor(s, r) ==
  manifest.stages[s].status = "completed" /\ manifest.stages[s].fingerprint[1] = r

\* The stages that a run has passed are those of the recording.
Passed == run.pc # "idle" => \A s \in 1 .. run.stage - 1 : CompletedFor(s, recording)

\* A forced run has gone through create_vimap, and so has listed the images.
Listed == run.pc # "idle" /\ run.force /\ HasImages /\ run.stage \in 4 .. 5 => files.listed

RecordsInv ==
  Passed /\ (Import!Working => MadeHere) /\ Listed /\ Import!RecordsHonest

ImportInv == ImportTyped /\ AtStep /\ (CallsAreFit => RecordsInv)

ShellPCs ==
  {"idle", "import", "frontend", "features", "initial_ba", "make_stage", "move_map",
   "export_04", "loops", "search", "relax", "copy_08", "final_ba", "export_08", "poses",
   "show_poses", "done"}

MapRecords == [features : MapDirs, loops : MapDirs, m04 : MapDirs, m08 : MapDirs]
ShellRecords == [pc : ShellPCs, sfm : BOOLEAN, force : BOOLEAN,
                 stage : {"auto", "initial", "final"}, poses : MapDirs]

ShellTyped ==
  /\ maps \in MapRecords
  /\ maps.m04.state # "copied"
  /\ shell \in ShellRecords
  /\ run.pc # "idle" => shell.pc \in {"idle", "import"}

ScriptPCs == ShellPCs \ {"idle", "import"}

\* sfm gives the import all stages, and chooses the map by what it was called with.
ImportInFull ==
  shell.pc = "import" =>
    /\ run.pc # "idle" /\ run.to = 4 /\ run.force = shell.force
    /\ shell.stage \in {"auto", "initial"}

\* keyframes.csv of a recording without images names none once it is written.
Unlisted ==
  run.stage > 2 \/ (run.stage = 2 /\ run.pc \in {"calibration.csv", "recording.json", "record"})
    => ~files.listed

\* A forced run skips nothing, so that what it has made does not depend on records.
ForcedRun == (HasImages => MadeSoFar) /\ (~HasImages => Unlisted)
ForcedImport == shell.pc = "import" /\ shell.force => ForcedRun

\* The import has succeeded.
Imported ==
  /\ run.pc = "idle"
  /\ HasImages => \A s \in 1 .. 4 : Import!MadeFrom(s, recording)
  /\ ~HasImages => ~files.listed

\* A call of sfm of which something can be said.
Trusted == shell.sfm /\ (CallsAreFit \/ shell.force)

\* What it has made so far, once its import has succeeded.
SfmInv ==
  Trusted /\ shell.pc \notin {"idle", "import"} =>
    /\ Imported
    /\ shell.stage \in {"auto", "initial"}
    /\ shell.pc \notin {"frontend", "features"} => HasImages /\ maps.features.of = {recording}
    /\ shell.pc = "export_04" => maps.m04 = At("optimized", {recording})
    /\ shell.pc \notin {"frontend", "features", "initial_ba", "make_stage", "move_map",
                        "export_04"}
         => maps.m04 = At("exported", {recording})
    /\ shell.pc \in {"search", "relax", "copy_08"} => maps.m08 = Empty
    /\ shell.pc = "final_ba" => maps.m08 = At("copied", {recording})
    /\ shell.pc = "export_08" => maps.m08 = At("optimized", {recording})
    /\ shell.pc \in {"poses", "show_poses", "done"} /\ shell.stage = "auto"
         => maps.m08 \in {Empty, At("exported", {recording})}
    /\ shell.pc = "show_poses" => shell.poses = At(Chosen.state, {recording})
    /\ shell.pc = "done" => shell.poses = At("exported", {recording})

SessionInv ==
  ImportInv /\ ShellTyped /\ ImportInFull /\ ForcedImport /\ SfmInv

-----------------------------------------------------------------------------
(* Stages, their steps and their fingerprints.                             *)

LEMMA StageNames ==
  /\ Import!Stages = 1 .. 4 /\ Len(Import!STAGES) = 4
  /\ Import!STAGES[1] = "validate" /\ Import!STAGES[2] = "normalize"
  /\ Import!STAGES[3] = "create_vimap" /\ Import!STAGES[4] = "export_rerun"
BY DEF Import!Stages, Import!STAGES

LEMMA NormalizedNames ==
  Import!Normalized =
    {"frames.csv", "imu.csv", "keyframes.csv", "calibration.csv", "recording.json"}
BY DEF Import!Normalized, Import!NormalizedFiles

LEMMA WhatIsMade ==
  ASSUME NEW r
  PROVE  /\ Import!MadeFrom(1, r) <=> files.validation = Import!Whole({r})
         /\ Import!MadeFrom(2, r) <=>
              \A f \in Import!Normalized : files.normalized[f] = {r}
         /\ Import!MadeFrom(3, r) <=>
              /\ files.vimap = Import!Whole({r}) /\ files.map_report = {r}
              /\ r \in WithImages => files.images = Import!Whole({r})
         /\ Import!MadeFrom(4, r) <=> files.rrd = {r} /\ files.rrd_report = {r}
BY StageNames DEF Import!MadeFrom

\* What two sequences are in a row.
LEMMA Joined ==
  ASSUME NEW S, NEW s \in Seq(S), NEW t \in Seq(S), NEW r \in Seq(S), Len(r) = Len(s) + Len(t),
         \A i \in 1 .. Len(s) : r[i] = s[i], \A i \in 1 .. Len(t) : r[Len(s) + i] = t[i]
  PROVE s \o t = r
<1>1. Len(s) \in Nat /\ Len(t) \in Nat
  BY LenProperties
<1>2. /\ s \o t \in Seq(S) /\ Len(s \o t) = Len(r)
      /\ \A i \in 1 .. Len(r) : (s \o t)[i] = IF i <= Len(s) THEN s[i] ELSE t[i - Len(s)]
  BY ConcatProperties
<1>3. ASSUME NEW i \in 1 .. Len(r) PROVE (s \o t)[i] = r[i]
  <2>1. CASE i <= Len(s)
    BY <1>1, <1>2, <2>1
  <2>2. CASE ~(i <= Len(s))
    <3>1. i - Len(s) \in 1 .. Len(t) /\ Len(s) + (i - Len(s)) = i
      BY <1>1, <2>2
    <3>2. r[i] = t[i - Len(s)]
      BY <3>1
    <3> QED
      BY <1>2, <2>2, <3>2
  <2> QED
    BY <2>1, <2>2
<1> QED
  BY <1>2, <1>3, SeqEqual

\* The steps of normalization.
LEMMA NormalizeSteps ==
  Import!StepsOf(2) = <<"frames.csv", "imu.csv", "keyframes.csv", "calibration.csv",
                        "recording.json", "record">>
<1> DEFINE s == <<"frames.csv", "imu.csv", "keyframes.csv", "calibration.csv",
                  "recording.json">>
           t == <<"record">>
           r == <<"frames.csv", "imu.csv", "keyframes.csv", "calibration.csv",
                  "recording.json", "record">>
           S == {"frames.csv", "imu.csv", "keyframes.csv", "calibration.csv",
                 "recording.json", "record"}
<1>1. s \in Seq(S)
  OBVIOUS
<1>2. t \in Seq(S)
  OBVIOUS
<1>3. r \in Seq(S)
  OBVIOUS
<1>4. Len(s) = 5 /\ Len(t) = 1 /\ Len(r) = 6
  OBVIOUS
<1>5. \A i \in 1 .. Len(s) : r[i] = s[i]
  OBVIOUS
<1>6. \A i \in 1 .. Len(t) : r[Len(s) + i] = t[i]
  OBVIOUS
<1>7. s \o t = r
  <2> HIDE DEF s, t, r, S
  <2>1. Len(r) = Len(s) + Len(t)
    BY <1>4
  <2> QED
    BY <1>1, <1>2, <1>3, <1>5, <1>6, <2>1, Joined
<1>8. Import!StepsOf(2) = s \o t
  <2>1. Import!NormalizedFiles = s
    BY DEF Import!NormalizedFiles
  <2> HIDE DEF s, t
  <2>2. t = <<"record">>
    BY DEF t
  <2> QED
    BY <2>1, <2>2, StageNames DEF Import!StepsOf
<1> QED
  BY <1>7, <1>8

\* The steps of the creation of a map with images.
LEMMA CreateMapSteps ==
  ASSUME HasImages
  PROVE  Import!StepsOf(3) = <<"inputs", "clear_images", "extract", "list_images",
                               "clear_map", "import", "reload", "map_report", "record">>
<1> DEFINE s == <<"inputs", "clear_images", "extract", "list_images">>
           t == <<"clear_map", "import", "reload", "map_report", "record">>
           r == <<"inputs", "clear_images", "extract", "list_images", "clear_map",
                  "import", "reload", "map_report", "record">>
<1>1. s \in Seq(CreateSteps)
  BY DEF CreateSteps, ImageSteps
<1>2. t \in Seq(CreateSteps)
  BY DEF CreateSteps, ImageSteps
<1>3. r \in Seq(CreateSteps)
  BY DEF CreateSteps, ImageSteps
<1>4. Len(s) = 4 /\ Len(t) = 5 /\ Len(r) = 9
  OBVIOUS
<1>5. \A i \in 1 .. Len(s) : r[i] = s[i]
  OBVIOUS
<1>6. \A i \in 1 .. Len(t) : r[Len(s) + i] = t[i]
  OBVIOUS
<1>7. s \o t = r
  <2> HIDE DEF s, t, r
  <2>1. Len(r) = Len(s) + Len(t)
    BY <1>4
  <2> QED
    BY <1>1, <1>2, <1>3, <1>5, <1>6, <2>1, Joined
<1>8. Import!StepsOf(3) = s \o t
  <2> HIDE DEF s, t
  <2>1. Import!StepsOf(3) = <<"inputs", "clear_images", "extract", "list_images">>
            \o <<"clear_map", "import", "reload", "map_report", "record">>
    BY StageNames DEF Import!StepsOf, HasImages
  <2> QED
    BY <2>1 DEF s, t
<1> QED
  BY <1>7, <1>8

\* And without them.
LEMMA PlainMapSteps ==
  ASSUME ~HasImages
  PROVE  Import!StepsOf(3) = <<"inputs", "clear_map", "import", "reload", "map_report",
                               "record">>
<1> DEFINE s == <<"inputs">>
           t == <<"clear_map", "import", "reload", "map_report", "record">>
           r == <<"inputs", "clear_map", "import", "reload", "map_report", "record">>
<1>1. s \in Seq(CreateSteps)
  BY DEF CreateSteps
<1>2. t \in Seq(CreateSteps)
  BY DEF CreateSteps
<1>3. r \in Seq(CreateSteps)
  BY DEF CreateSteps
<1>4. Len(s) = 1 /\ Len(t) = 5 /\ Len(r) = 6
  OBVIOUS
<1>5. \A i \in 1 .. Len(s) : r[i] = s[i]
  OBVIOUS
<1>6. \A i \in 1 .. Len(t) : r[Len(s) + i] = t[i]
  OBVIOUS
<1>7. s \o t = r
  <2> HIDE DEF s, t, r
  <2>1. Len(r) = Len(s) + Len(t)
    BY <1>4
  <2> QED
    BY <1>1, <1>2, <1>3, <1>5, <1>6, <2>1, Joined
<1>8. Import!StepsOf(3) = s \o t
  <2> HIDE DEF s, t
  <2>1. Import!StepsOf(3) = <<"inputs">>
            \o <<"clear_map", "import", "reload", "map_report", "record">>
    BY StageNames DEF Import!StepsOf, HasImages
  <2> QED
    BY <2>1 DEF s, t
<1> QED
  BY <1>7, <1>8

LEMMA OtherSteps ==
  /\ Import!StepsOf(1) = <<"validate", "record">>
  /\ Import!StepsOf(4) = <<"export", "rrd_report", "record">>
BY StageNames DEF Import!StepsOf

\* Which step follows which.
LEMMA AfterFirst ==
  ASSUME run.stage = 1
  PROVE  Import!After("validate") = "record"
BY OtherSteps DEF Import!After

LEMMA AfterSecond ==
  ASSUME run.stage = 2
  PROVE  /\ Import!After("frames.csv") = "imu.csv"
         /\ Import!After("imu.csv") = "keyframes.csv"
         /\ Import!After("keyframes.csv") = "calibration.csv"
         /\ Import!After("calibration.csv") = "recording.json"
         /\ Import!After("recording.json") = "record"
<1> DEFINE steps == <<"frames.csv", "imu.csv", "keyframes.csv", "calibration.csv",
                      "recording.json", "record">>
<1>1. Import!StepsOf(run.stage) = steps /\ Len(steps) = 6
  BY NormalizeSteps
<1>2. \A i, j \in 1 .. 6 : steps[i] = steps[j] => i = j
  OBVIOUS
<1>3. \A k \in 1 .. 5 : Import!After(steps[k]) = steps[k + 1]
  <2> TAKE k \in 1 .. 5
  <2> HIDE DEF steps
  <2>1. k \in 1 .. 6
    OBVIOUS
  <2>2. k = CHOOSE i \in 1 .. Len(steps) : steps[i] = steps[k]
    BY <1>1, <1>2, <2>1
  <2> QED
    BY <1>1, <2>2 DEF Import!After
<1> QED
  BY <1>3

LEMMA AfterThird ==
  ASSUME run.stage = 3, HasImages
  PROVE  /\ Import!After("inputs") = "clear_images"
         /\ Import!After("clear_images") = "extract"
         /\ Import!After("extract") = "list_images"
         /\ Import!After("list_images") = "clear_map"
         /\ Import!After("clear_map") = "import"
         /\ Import!After("import") = "reload"
         /\ Import!After("reload") = "map_report"
         /\ Import!After("map_report") = "record"
<1> DEFINE steps == <<"inputs", "clear_images", "extract", "list_images", "clear_map",
                      "import", "reload", "map_report", "record">>
<1>1. Import!StepsOf(run.stage) = steps /\ Len(steps) = 9
  BY CreateMapSteps
<1>2. \A i, j \in 1 .. 9 : steps[i] = steps[j] => i = j
  OBVIOUS
<1>3. \A k \in 1 .. 8 : Import!After(steps[k]) = steps[k + 1]
  <2> TAKE k \in 1 .. 8
  <2> HIDE DEF steps
  <2>1. k \in 1 .. 9
    OBVIOUS
  <2>2. k = CHOOSE i \in 1 .. Len(steps) : steps[i] = steps[k]
    BY <1>1, <1>2, <2>1
  <2> QED
    BY <1>1, <2>2 DEF Import!After
<1> QED
  BY <1>3

LEMMA AfterThirdPlain ==
  ASSUME run.stage = 3, ~HasImages
  PROVE  /\ Import!After("inputs") = "clear_map"
         /\ Import!After("clear_map") = "import"
         /\ Import!After("import") = "reload"
         /\ Import!After("reload") = "map_report"
         /\ Import!After("map_report") = "record"
<1> DEFINE steps == <<"inputs", "clear_map", "import", "reload", "map_report", "record">>
<1>1. Import!StepsOf(run.stage) = steps /\ Len(steps) = 6
  BY PlainMapSteps
<1>2. \A i, j \in 1 .. 6 : steps[i] = steps[j] => i = j
  OBVIOUS
<1>3. \A k \in 1 .. 5 : Import!After(steps[k]) = steps[k + 1]
  <2> TAKE k \in 1 .. 5
  <2> HIDE DEF steps
  <2>1. k \in 1 .. 6
    OBVIOUS
  <2>2. k = CHOOSE i \in 1 .. Len(steps) : steps[i] = steps[k]
    BY <1>1, <1>2, <2>1
  <2> QED
    BY <1>1, <2>2 DEF Import!After
<1> QED
  BY <1>3

LEMMA AfterFourth ==
  ASSUME run.stage = 4
  PROVE  Import!After("export") = "rrd_report" /\ Import!After("rrd_report") = "record"
<1> DEFINE steps == <<"export", "rrd_report", "record">>
<1>1. Import!StepsOf(run.stage) = steps /\ Len(steps) = 3
  BY OtherSteps
<1>2. \A i, j \in 1 .. 3 : steps[i] = steps[j] => i = j
  OBVIOUS
<1>3. \A k \in 1 .. 2 : Import!After(steps[k]) = steps[k + 1]
  <2> TAKE k \in 1 .. 2
  <2> HIDE DEF steps
  <2>1. k \in 1 .. 3
    OBVIOUS
  <2>2. k = CHOOSE i \in 1 .. Len(steps) : steps[i] = steps[k]
    BY <1>1, <1>2, <2>1
  <2> QED
    BY <1>1, <2>2 DEF Import!After
<1> QED
  BY <1>3

\* A fingerprint begins with the recording and has one component for each stage.
LEMMA FingerprintIs ==
  ASSUME NEW s \in 1 .. 4
  PROVE  /\ Import!StageFingerprint(s)[1] = recording
         /\ Len(Import!StageFingerprint(s)) = s
<1> DEFINE first == <<recording>>
           rest == [t \in 1 .. s - 1 |-> manifest.stages[t].fingerprint]
           S == {recording} \cup {manifest.stages[t].fingerprint : t \in 1 .. s - 1}
<1>1. first \in Seq(S) /\ Len(first) = 1 /\ first[1] = recording
  OBVIOUS
<1>2. s - 1 \in Nat /\ rest \in [1 .. s - 1 -> S]
  OBVIOUS
<1>3. rest \in Seq(S) /\ Len(rest) = s - 1
  <2> HIDE DEF rest, S
  <2> QED
    BY <1>2, IsASeq, LenProperties
<1>4. /\ Len(first \o rest) = Len(first) + Len(rest)
      /\ \A i \in 1 .. Len(first) + Len(rest) : (first \o rest)[i] =
            IF i <= Len(first) THEN first[i] ELSE rest[i - Len(first)]
  <2> HIDE DEF first, rest, S
  <2> QED
    BY <1>1, <1>3, ConcatProperties
<1>5. (first \o rest)[1] = recording /\ Len(first \o rest) = s
  <2> HIDE DEF first, rest, S
  <2>1. 1 \in 1 .. Len(first) + Len(rest) /\ 1 <= Len(first)
    BY <1>1, <1>3
  <2> QED
    BY <1>1, <1>3, <1>4, <2>1
<1>6. Import!StageFingerprint(s) = first \o rest
  BY DEF Import!StageFingerprint
<1> QED
  BY <1>5, <1>6

-----------------------------------------------------------------------------
(* The import: its types and the order of its steps, whatever came before. *)

\* The stage that a step belongs to.
LEMMA StageOfStep ==
  ASSUME AtStep, Import!Working
  PROVE  /\ run.stage \in 1 .. 4
         /\ run.pc = "validate" => run.stage = 1
         /\ run.pc \in Import!Normalized => run.stage = 2
         /\ run.pc \in CreateSteps \ {"record"} => run.stage = 3
         /\ run.pc \in ImageSteps => HasImages
         /\ run.pc \in {"export", "rrd_report"} => run.stage = 4
BY NormalizedNames DEF AtStep, CreateSteps, ImageSteps

\* A stage goes on to another one of its steps.
LEMMA StepAfter ==
  ASSUME AtStep, Import!Working, run.pc # "record"
  PROVE  LET next == Import!After(run.pc)
         IN  /\ next \in Import!PCs \ {"idle", "next"}
             /\ run.stage = 1 => next = "record"
             /\ run.stage = 2 => next \in Import!Normalized \cup {"record"}
             /\ run.stage = 3 => next \in CreateSteps /\ (HasImages \/ next \notin ImageSteps)
             /\ run.stage = 4 => next \in {"rrd_report", "record"}
<1>1. CASE run.stage = 1
  BY <1>1, AfterFirst DEF AtStep, Import!PCs
<1>2. CASE run.stage = 2
  BY <1>2, AfterSecond, NormalizedNames DEF AtStep, Import!PCs
<1>3. CASE run.stage = 3 /\ HasImages
  BY <1>3, AfterThird DEF AtStep, Import!PCs, CreateSteps, ImageSteps
<1>4. CASE run.stage = 3 /\ ~HasImages
  BY <1>4, AfterThirdPlain DEF AtStep, Import!PCs, CreateSteps, ImageSteps
<1>5. CASE run.stage = 4
  BY <1>5, AfterFourth DEF AtStep, Import!PCs
<1> QED
  BY <1>1, <1>2, <1>3, <1>4, <1>5 DEF AtStep

\* What an effect is, but for the files.
LEMMA EffectIs ==
  ASSUME ImportTyped, AtStep, NEW pc \in Import!PCs \ {"idle", "next", "record"},
         NEW changed \in FileRecords, Import!Effect(pc, changed)
  PROVE  /\ run.pc = pc /\ Import!Working /\ run.stage \in 1 .. 4
         /\ files' = changed /\ UNCHANGED <<recording, manifest, faults>>
         /\ run'.pc = Import!After(pc) /\ run'.pc \notin {"idle", "next"}
         /\ run'.stage = run.stage /\ run'.to = run.to /\ run'.force = run.force
         /\ ImportTyped' /\ AtStep'
<1>1. /\ run.pc = pc /\ files' = changed /\ run' = [run EXCEPT !.pc = Import!After(pc)]
      /\ UNCHANGED <<recording, manifest, faults>>
  BY DEF Import!Effect
<1>2. Import!Working /\ run.stage \in 1 .. 4 /\ run \in RunRecords
  BY <1>1, StageOfStep DEF Import!Working, ImportTyped
<1> DEFINE next == Import!After(run.pc)
<1>3. /\ next \in Import!PCs \ {"idle", "next"} /\ next = Import!After(pc)
      /\ run.stage = 1 => next = "record"
      /\ run.stage = 2 => next \in Import!Normalized \cup {"record"}
      /\ run.stage = 3 => next \in CreateSteps /\ (HasImages \/ next \notin ImageSteps)
      /\ run.stage = 4 => next \in {"rrd_report", "record"}
  BY <1>1, <1>2, StepAfter
<1> HIDE DEF next
<1>4. /\ run'.pc = next /\ run'.stage = run.stage /\ run'.to = run.to
      /\ run'.force = run.force /\ run' \in RunRecords
  BY <1>1, <1>2, <1>3 DEF RunRecords
<1>5. ImportTyped'
  BY <1>1, <1>4 DEF ImportTyped, ManifestTyped, RecordTyped
<1>6. AtStep'
  BY <1>1, <1>2, <1>3, <1>4 DEF AtStep, Import!Working, HasImages
<1> QED
  BY <1>1, <1>2, <1>3, <1>4, <1>5, <1>6

LEMMA DirectoriesTyped ==
  ASSUME NEW sources \in SUBSET Recordings
  PROVE  /\ Import!Whole(sources) \in Import!Directories
         /\ Import!Partial(sources) \in Import!Directories
         /\ Import!Missing \in Import!Directories
BY DEF Import!Whole, Import!Partial, Import!Missing, Import!Directories

\* What files are made from.
LEMMA SourcesTyped ==
  ASSUME ImportTyped
  PROVE  /\ recording \in Recordings /\ files \in FileRecords
         /\ \A f \in Import!Normalized : files.normalized[f] \in SUBSET Recordings
         /\ files.images.of \in SUBSET Recordings
         /\ Import!ImageSources \in SUBSET Recordings
         /\ Import!MapSources \in SUBSET Recordings
<1>1. /\ recording \in Recordings /\ files \in FileRecords
      /\ \A f \in Import!Normalized : files.normalized[f] \in SUBSET Recordings
      /\ files.images.of \in SUBSET Recordings
  BY DEF ImportTyped, FileRecords, Import!Directories
<1>2. Import!ImageSources \in SUBSET Recordings
  BY <1>1, NormalizedNames DEF Import!ImageSources
<1>3. UNION {files.normalized[f] : f \in Import!Normalized \ {"frames.csv"}}
        \in SUBSET Recordings
  BY <1>1
<1>4. Import!MapSources \in SUBSET Recordings
  BY <1>1, <1>3 DEF Import!MapSources
<1> QED
  BY <1>1, <1>2, <1>4

\* Every effect leaves files, and only two bear on the image names of keyframes.csv.
LEMMA SomeEffect ==
  ASSUME ImportTyped, Import!StageEffect
  PROVE  \E pc \in Import!PCs \ {"idle", "next", "record"}, changed \in FileRecords :
           /\ Import!Effect(pc, changed)
           /\ pc \notin {"keyframes.csv", "list_images"} => changed.listed = files.listed
           /\ pc = "keyframes.csv" => ~changed.listed
<1> DEFINE Goal ==
      \E pc \in Import!PCs \ {"idle", "next", "record"}, changed \in FileRecords :
        /\ Import!Effect(pc, changed)
        /\ pc \notin {"keyframes.csv", "list_images"} => changed.listed = files.listed
        /\ pc = "keyframes.csv" => ~changed.listed
<1>1. /\ recording \in Recordings /\ files \in FileRecords
      /\ \A f \in Import!Normalized : files.normalized[f] \in SUBSET Recordings
      /\ files.images.of \in SUBSET Recordings
      /\ Import!ImageSources \in SUBSET Recordings
      /\ Import!MapSources \in SUBSET Recordings
  BY SourcesTyped
<1>2. SUFFICES Goal
  OBVIOUS
<1>3. ASSUME NEW pc \in Import!PCs \ {"idle", "next", "record"}, NEW changed \in FileRecords,
             Import!Effect(pc, changed),
             pc \notin {"keyframes.csv", "list_images"} => changed.listed = files.listed,
             pc = "keyframes.csv" => ~changed.listed
      PROVE  Goal
  BY <1>3
<1> HIDE DEF Goal
<1>4. CASE Import!ValidateRecording
  <2> DEFINE changed == [files EXCEPT !.validation = Import!Whole({recording})]
  <2>1. Import!Effect("validate", changed)
    BY <1>4 DEF Import!ValidateRecording
  <2>2. changed \in FileRecords /\ changed.listed = files.listed
    BY <1>1, DirectoriesTyped DEF FileRecords
  <2> HIDE DEF changed
  <2> QED
    BY <1>3, <2>1, <2>2 DEF Import!PCs
<1>5. CASE Import!NormalizeRecording
  <2>1. PICK file \in Import!Normalized :
          Import!Effect(file, [files EXCEPT !.normalized[file] = {recording},
                                            !.listed = @ /\ file # "keyframes.csv"])
    BY <1>5 DEF Import!NormalizeRecording
  <2> DEFINE listed == files.listed /\ file # "keyframes.csv"
             changed == [files EXCEPT !.normalized[file] = {recording}, !.listed = listed]
  <2>2. Import!Effect(file, changed)
    BY <2>1
  <2>3. listed \in BOOLEAN
    OBVIOUS
  <2>4. changed \in FileRecords /\ changed.listed = listed
    <3> HIDE DEF listed
    <3> QED
      BY <1>1, <2>3 DEF FileRecords
  <2>5. file \in Import!PCs \ {"idle", "next", "record"} /\ file # "list_images"
    BY NormalizedNames DEF Import!PCs
  <2>6. (file # "keyframes.csv" => listed = files.listed)
          /\ (file = "keyframes.csv" => ~listed)
    BY <1>1 DEF FileRecords
  <2> HIDE DEF changed, listed
  <2> QED
    BY <1>3, <2>2, <2>4, <2>5, <2>6
<1>6. CASE Import!CheckInputs
  BY <1>1, <1>3, <1>6 DEF Import!CheckInputs, Import!PCs
<1>7. CASE Import!ClearImages
  <2> DEFINE changed == [files EXCEPT !.images = Import!Partial({})]
  <2>1. Import!Effect("clear_images", changed)
    BY <1>7 DEF Import!ClearImages
  <2>2. changed \in FileRecords /\ changed.listed = files.listed
    BY <1>1, DirectoriesTyped DEF FileRecords
  <2> HIDE DEF changed
  <2> QED
    BY <1>3, <2>1, <2>2 DEF Import!PCs
<1>8. CASE Import!ExtractImages
  <2> DEFINE changed == [files EXCEPT !.images = Import!Whole(Import!ImageSources)]
  <2>1. Import!Effect("extract", changed)
    BY <1>8 DEF Import!ExtractImages
  <2>2. changed \in FileRecords /\ changed.listed = files.listed
    BY <1>1, DirectoriesTyped DEF FileRecords
  <2> HIDE DEF changed
  <2> QED
    BY <1>3, <2>1, <2>2 DEF Import!PCs
<1>9. CASE Import!ListImages
  <2> DEFINE changed == [files EXCEPT !.normalized["keyframes.csv"] = Import!ImageSources,
                                      !.listed = TRUE]
  <2>1. Import!Effect("list_images", changed)
    BY <1>9 DEF Import!ListImages
  <2>2. changed \in FileRecords
    BY <1>1, NormalizedNames DEF FileRecords
  <2> HIDE DEF changed
  <2> QED
    BY <1>3, <2>1, <2>2 DEF Import!PCs
<1>10. CASE Import!ClearMap
  <2> DEFINE changed == [files EXCEPT !.vimap = Import!Missing]
  <2>1. Import!Effect("clear_map", changed)
    BY <1>10 DEF Import!ClearMap
  <2>2. changed \in FileRecords /\ changed.listed = files.listed
    BY <1>1, DirectoriesTyped DEF FileRecords
  <2> HIDE DEF changed
  <2> QED
    BY <1>3, <2>1, <2>2 DEF Import!PCs
<1>11. CASE Import!ImportMap
  <2> DEFINE changed == [files EXCEPT !.vimap = Import!Partial(Import!MapSources)]
  <2>1. Import!Effect("import", changed)
    BY <1>11 DEF Import!ImportMap
  <2>2. changed \in FileRecords /\ changed.listed = files.listed
    BY <1>1, DirectoriesTyped DEF FileRecords
  <2> HIDE DEF changed
  <2> QED
    BY <1>3, <2>1, <2>2 DEF Import!PCs
<1>12. CASE Import!ReloadMap
  <2> DEFINE changed == [files EXCEPT !.vimap = Import!Whole(Import!MapSources)]
  <2>1. Import!Effect("reload", changed)
    BY <1>12 DEF Import!ReloadMap
  <2>2. changed \in FileRecords /\ changed.listed = files.listed
    BY <1>1, DirectoriesTyped DEF FileRecords
  <2> HIDE DEF changed
  <2> QED
    BY <1>3, <2>1, <2>2 DEF Import!PCs
<1>13. CASE Import!ReportMap
  <2> DEFINE changed == [files EXCEPT !.map_report = Import!MapSources]
  <2>1. Import!Effect("map_report", changed)
    BY <1>13 DEF Import!ReportMap
  <2>2. changed \in FileRecords /\ changed.listed = files.listed
    BY <1>1 DEF FileRecords
  <2> HIDE DEF changed
  <2> QED
    BY <1>3, <2>1, <2>2 DEF Import!PCs
<1>14. CASE Import!ExportRerun
  <2> DEFINE sources == files.map_report \cup files.images.of
                          \cup files.normalized["keyframes.csv"]
             changed == [files EXCEPT !.rrd = sources]
  <2>1. Import!Effect("export", changed)
    BY <1>14 DEF Import!ExportRerun
  <2>2. sources \in SUBSET Recordings
    BY <1>1, NormalizedNames DEF FileRecords
  <2> HIDE DEF sources
  <2>3. changed \in FileRecords /\ changed.listed = files.listed
    BY <1>1, <2>2 DEF FileRecords
  <2> HIDE DEF changed
  <2> QED
    BY <1>3, <2>1, <2>3 DEF Import!PCs
<1>15. CASE Import!ReportRerun
  <2> DEFINE changed == [files EXCEPT !.rrd_report = files.rrd]
  <2>1. Import!Effect("rrd_report", changed)
    BY <1>15 DEF Import!ReportRerun
  <2>2. changed \in FileRecords /\ changed.listed = files.listed
    BY <1>1 DEF FileRecords
  <2> HIDE DEF changed
  <2> QED
    BY <1>3, <2>1, <2>2 DEF Import!PCs
<1> QED
  BY <1>4, <1>5, <1>6, <1>7, <1>8, <1>9, <1>10, <1>11, <1>12, <1>13, <1>14, <1>15
     DEF Import!StageEffect

\* A stage that goes on keeps to its process, and a recording without images is listed
\* by none.
LEMMA EffectTyped ==
  ASSUME ImportTyped, AtStep, Import!StageEffect
  PROVE  /\ Import!Working /\ run.pc # "record" /\ run'.pc \notin {"idle", "next"}
         /\ run'.stage = run.stage /\ run'.to = run.to /\ run'.force = run.force
         /\ UNCHANGED <<recording, manifest, faults>>
         /\ ImportTyped' /\ AtStep'
         /\ run.stage = 4 => files'.listed = files.listed
         /\ ~HasImages /\ Unlisted => Unlisted'
<1>1. PICK pc \in Import!PCs \ {"idle", "next", "record"}, changed \in FileRecords :
        /\ Import!Effect(pc, changed)
        /\ pc \notin {"keyframes.csv", "list_images"} => changed.listed = files.listed
        /\ pc = "keyframes.csv" => ~changed.listed
  BY SomeEffect
<1>2. /\ run.pc = pc /\ Import!Working /\ run.stage \in 1 .. 4
      /\ files' = changed /\ UNCHANGED <<recording, manifest, faults>>
      /\ run'.pc = Import!After(pc) /\ run'.pc \notin {"idle", "next"}
      /\ run'.stage = run.stage /\ run'.to = run.to /\ run'.force = run.force
      /\ ImportTyped' /\ AtStep'
  BY <1>1, EffectIs
<1>3. run.stage = 4 => files'.listed = files.listed
  BY <1>1, <1>2 DEF AtStep
<1>4. ~HasImages /\ Unlisted => Unlisted'
  <2>1. SUFFICES ASSUME ~HasImages, Unlisted PROVE Unlisted'
    OBVIOUS
  <2>2. pc # "list_images"
    BY <1>2, <2>1, StageOfStep DEF ImageSteps
  <2>3. CASE run.stage = 2
    BY <1>1, <1>2, <2>1, <2>2, <2>3, AfterSecond, NormalizedNames DEF AtStep, Unlisted
  <2>4. CASE run.stage # 2
    <3>1. pc # "keyframes.csv"
      BY <1>2, <2>4, NormalizedNames, StageOfStep
    <3> QED
      BY <1>1, <1>2, <2>1, <2>2, <2>4, <3>1 DEF Unlisted
  <2> QED
    BY <2>3, <2>4
<1> QED
  BY <1>1, <1>2, <1>3, <1>4

-----------------------------------------------------------------------------
(* What a run has made, once the stages before were made from its recording. *)

RunInv == ImportTyped /\ AtStep /\ HasImages /\ MadeSoFar

\* The outputs of the other stages stay what they are.
Kept ==
  \A s \in 1 .. 4 : s # run.stage =>
    \A r : Import!MadeFrom(s, r) => Import!MadeFrom(s, r)'

\* One effect of a stage that leaves the outputs of the others alone.
LEMMA EffectKeeps ==
  ASSUME RunInv, NEW pc \in Import!PCs \ {"idle", "next", "record"},
         NEW changed \in FileRecords, Import!Effect(pc, changed), Kept, MadeHere'
  PROVE  RunInv' /\ Kept
<1>1. /\ Import!Working /\ run.stage \in 1 .. 4 /\ recording' = recording
      /\ run'.stage = run.stage /\ ImportTyped' /\ AtStep'
  BY EffectIs DEF RunInv
<1>2. HasImages'
  BY <1>1 DEF RunInv, HasImages
<1>3. ASSUME NEW s \in 1 .. run'.stage - 1
      PROVE  Import!MadeFrom(s, recording)'
  <2>1. s \in 1 .. 4 /\ s # run.stage /\ s \in 1 .. run.stage - 1
    BY <1>1
  <2>2. Import!MadeFrom(s, recording)
    BY <2>1 DEF RunInv, MadeSoFar
  <2>3. PICK x : x = recording
    OBVIOUS
  <2>4. Import!MadeFrom(s, x)'
    BY <2>1, <2>2, <2>3 DEF Kept
  <2> QED
    BY <1>1, <2>3, <2>4 DEF Import!MadeFrom
<1> QED
  BY <1>1, <1>2, <1>3 DEF RunInv, MadeSoFar

\* Outputs stay what they are when their files do.
LEMMA MadeKept ==
  ASSUME NEW s \in 1 .. 4, NEW r, Import!MadeFrom(s, r),
         s = 1 => files'.validation = files.validation,
         s = 2 => \A f \in Import!Normalized : files'.normalized[f] = files.normalized[f],
         s = 3 => /\ files'.vimap = files.vimap /\ files'.images = files.images
                  /\ files'.map_report = files.map_report,
         s = 4 => files'.rrd = files.rrd /\ files'.rrd_report = files.rrd_report
  PROVE  Import!MadeFrom(s, r)'
<1>1. s = 1 \/ s = 2 \/ s = 3 \/ s = 4
  OBVIOUS
<1>2. CASE s = 1
  BY <1>2, StageNames DEF Import!MadeFrom
<1>3. CASE s = 2
  BY <1>3, StageNames DEF Import!MadeFrom
<1>4. CASE s = 3
  BY <1>4, StageNames DEF Import!MadeFrom
<1>5. CASE s = 4
  BY <1>5, StageNames DEF Import!MadeFrom
<1> QED
  BY <1>1, <1>2, <1>3, <1>4, <1>5

LEMMA ValidateCorrect ==
  ASSUME RunInv, Import!ValidateRecording
  PROVE  RunInv' /\ Kept
<1> DEFINE changed == [files EXCEPT !.validation = Import!Whole({recording})]
<1>1. Import!Effect("validate", changed) /\ "validate" \in Import!PCs \ {"idle", "next", "record"}
  BY DEF Import!ValidateRecording, Import!PCs
<1>2. files \in FileRecords /\ recording \in Recordings /\ ImportTyped /\ AtStep
  BY DEF RunInv, ImportTyped
<1>3. changed \in FileRecords
  BY <1>2, DirectoriesTyped DEF FileRecords
<1>4. /\ changed.validation = Import!Whole({recording})
      /\ changed.normalized = files.normalized /\ changed.images = files.images
      /\ changed.vimap = files.vimap /\ changed.map_report = files.map_report
      /\ changed.rrd = files.rrd /\ changed.rrd_report = files.rrd_report
  BY <1>2 DEF FileRecords
<1> HIDE DEF changed
<1>5. /\ run.pc = "validate" /\ Import!Working /\ files' = changed /\ recording' = recording
      /\ run'.pc = Import!After("validate") /\ run'.stage = run.stage
  BY <1>1, <1>2, <1>3, EffectIs
<1>6. run.stage = 1
  BY <1>2, <1>5, StageOfStep
<1>7. Kept
  BY <1>4, <1>5, <1>6, MadeKept DEF Kept
<1>8. MadeHere'
  BY <1>4, <1>5, <1>6 DEF MadeHere, Validated, Placed, Created, Exported, Import!Whole
<1> QED
  BY <1>1, <1>3, <1>7, <1>8, EffectKeeps

LEMMA NormalizeCorrect ==
  ASSUME RunInv, Import!NormalizeRecording
  PROVE  RunInv' /\ Kept
<1>1. PICK file \in Import!Normalized :
        Import!Effect(file, [files EXCEPT !.normalized[file] = {recording},
                                          !.listed = @ /\ file # "keyframes.csv"])
  BY DEF Import!NormalizeRecording
<1> DEFINE listed == files.listed /\ file # "keyframes.csv"
           changed == [files EXCEPT !.normalized[file] = {recording}, !.listed = listed]
<1>2. Import!Effect(file, changed) /\ file \in Import!PCs \ {"idle", "next", "record"}
  BY <1>1, NormalizedNames DEF Import!PCs
<1>3. files \in FileRecords /\ recording \in Recordings /\ ImportTyped /\ AtStep
  BY DEF RunInv, ImportTyped
<1>4. listed \in BOOLEAN
  OBVIOUS
<1> HIDE DEF listed
<1>5. changed \in FileRecords
  BY <1>3, <1>4 DEF FileRecords
<1>6. /\ changed.validation = files.validation /\ changed.images = files.images
      /\ changed.vimap = files.vimap /\ changed.map_report = files.map_report
      /\ changed.rrd = files.rrd /\ changed.rrd_report = files.rrd_report
      /\ changed.normalized[file] = {recording}
      /\ \A f \in Import!Normalized : f # file => changed.normalized[f] = files.normalized[f]
  BY <1>3 DEF FileRecords
<1> HIDE DEF changed
<1>7. /\ run.pc = file /\ Import!Working /\ files' = changed /\ recording' = recording
      /\ run'.pc = Import!After(file) /\ run'.stage = run.stage
  BY <1>2, <1>3, <1>5, EffectIs
<1>8. run.stage = 2
  BY <1>3, <1>7, StageOfStep
<1>9. Kept
  BY <1>6, <1>7, <1>8, MadeKept DEF Kept
<1>10. Placed /\ file \in Import!Normalized
  BY <1>7 DEF RunInv, MadeSoFar, MadeHere
<1>11. Placed'
  BY <1>6, <1>7, <1>8, <1>10, NormalizedNames, AfterSecond DEF Placed, InPlace
<1>12. MadeHere'
  BY <1>7, <1>8, <1>11 DEF MadeHere, Validated, Created, Exported
<1> QED
  BY <1>2, <1>5, <1>9, <1>12, EffectKeeps

\* A step of create_vimap: what it has made so far is to be shown, the rest follows.
LEMMA CreateKeeps ==
  ASSUME RunInv, NEW pc \in CreateSteps \ {"record"}, NEW changed \in FileRecords,
         Import!Effect(pc, changed),
         /\ changed.validation = files.validation
         /\ \A f \in Import!Normalized : changed.normalized[f] = files.normalized[f]
         /\ changed.rrd = files.rrd /\ changed.rrd_report = files.rrd_report,
         Created'
  PROVE  RunInv' /\ Kept
<1>1. pc \in Import!PCs \ {"idle", "next", "record"}
  BY DEF CreateSteps, ImageSteps, Import!PCs
<1>2. /\ run.pc = pc /\ Import!Working /\ files' = changed /\ run'.stage = run.stage
  BY <1>1, EffectIs DEF RunInv
<1>3. run.stage = 3
  BY <1>2, StageOfStep DEF RunInv
<1>4. Kept
  BY <1>2, <1>3, MadeKept DEF Kept
<1>5. MadeHere'
  BY <1>2, <1>3 DEF MadeHere, Validated, Placed, Exported
<1> QED
  BY <1>1, <1>4, <1>5, EffectKeeps

\* What create_vimap finds is made from the recording.
LEMMA CreateFinds ==
  ASSUME RunInv, NEW pc \in CreateSteps \ {"record"}, run.pc = pc
  PROVE  /\ run.stage = 3 /\ Created /\ HasImages /\ run \in RunRecords
         /\ recording \in Recordings /\ files \in FileRecords
         /\ \A f \in Import!Normalized : files.normalized[f] = {recording}
<1>1. Import!Working
  BY DEF Import!Working, CreateSteps, ImageSteps
<1>2. run.stage = 3
  BY <1>1, StageOfStep DEF RunInv
<1>3. Created /\ recording \in Recordings /\ files \in FileRecords /\ HasImages
      /\ run \in RunRecords
  BY <1>1, <1>2 DEF RunInv, MadeSoFar, MadeHere, ImportTyped
<1>4. Import!MadeFrom(2, recording)
  BY <1>2 DEF RunInv, MadeSoFar
<1> QED
  BY <1>2, <1>3, <1>4, WhatIsMade

\* The steps before the map is made.
LEMMA ImagesCorrect ==
  ASSUME RunInv,
         \/ Import!CheckInputs \/ Import!ClearImages \/ Import!ExtractImages
         \/ Import!ListImages \/ Import!ClearMap
  PROVE  RunInv' /\ Kept
<1>1. CASE Import!CheckInputs
  <2>1. run.pc = "inputs" /\ Import!Effect("inputs", files) /\ "inputs" \in CreateSteps
    BY <1>1 DEF Import!CheckInputs, Import!Effect, CreateSteps, ImageSteps
  <2>2. Created' /\ files \in FileRecords
    BY <2>1, CreateFinds, AfterThird DEF Import!Effect, Created, CreateSteps, ImageSteps
  <2> QED
    BY <2>1, <2>2, CreateKeeps
<1>2. CASE Import!ClearImages
  <2> DEFINE changed == [files EXCEPT !.images = Import!Partial({})]
  <2>1. /\ run.pc = "clear_images" /\ Import!Effect("clear_images", changed)
        /\ "clear_images" \in CreateSteps
    BY <1>2 DEF Import!ClearImages, Import!Effect, CreateSteps, ImageSteps
  <2>2. files \in FileRecords /\ changed \in FileRecords
    BY <2>1, CreateFinds, DirectoriesTyped DEF FileRecords
  <2>3. Created'
    BY <2>1, CreateFinds, AfterThird DEF Import!Effect, Created, CreateSteps, ImageSteps
  <2>4. /\ changed.validation = files.validation /\ changed.normalized = files.normalized
        /\ changed.rrd = files.rrd /\ changed.rrd_report = files.rrd_report
    BY <2>2 DEF FileRecords
  <2> HIDE DEF changed
  <2> QED
    BY <2>1, <2>2, <2>3, <2>4, CreateKeeps
<1>3. CASE Import!ExtractImages
  <2> DEFINE changed == [files EXCEPT !.images = Import!Whole(Import!ImageSources)]
  <2>1. /\ run.pc = "extract" /\ Import!Effect("extract", changed)
        /\ "extract" \in CreateSteps
    BY <1>3 DEF Import!ExtractImages, Import!Effect, CreateSteps, ImageSteps
  <2>2. Import!ImageSources = {recording} /\ recording \in Recordings
    BY <2>1, CreateFinds, NormalizedNames DEF Import!ImageSources
  <2>3. files \in FileRecords /\ changed \in FileRecords
    BY <2>1, <2>2, CreateFinds, DirectoriesTyped DEF FileRecords
  <2>4. /\ changed.validation = files.validation /\ changed.normalized = files.normalized
        /\ changed.rrd = files.rrd /\ changed.rrd_report = files.rrd_report
        /\ changed.images = Import!Whole({recording})
    BY <2>2, <2>3 DEF FileRecords
  <2>5. files' = changed /\ recording' = recording /\ run'.pc = "list_images"
    BY <2>1, CreateFinds, AfterThird DEF Import!Effect, CreateSteps, ImageSteps
  <2> HIDE DEF changed
  <2>6. Created'
    BY <2>4, <2>5 DEF Created, CreateSteps, ImageSteps, Import!Whole
  <2> QED
    BY <2>1, <2>3, <2>4, <2>6, CreateKeeps
<1>4. CASE Import!ListImages
  <2> DEFINE changed == [files EXCEPT !.normalized["keyframes.csv"] = Import!ImageSources,
                                      !.listed = TRUE]
  <2>1. /\ run.pc = "list_images" /\ Import!Effect("list_images", changed)
        /\ "list_images" \in CreateSteps
    BY <1>4 DEF Import!ListImages, Import!Effect, CreateSteps, ImageSteps
  <2>2. Import!ImageSources = {recording} /\ recording \in Recordings
    BY <2>1, CreateFinds, NormalizedNames DEF Import!ImageSources
  <2>3. files \in FileRecords /\ changed \in FileRecords
    BY <2>1, <2>2, CreateFinds DEF FileRecords
  <2>4. /\ changed.validation = files.validation /\ changed.images = files.images
        /\ changed.rrd = files.rrd /\ changed.rrd_report = files.rrd_report
        /\ changed.listed
    BY <2>3 DEF FileRecords
  <2>5. \A f \in Import!Normalized : changed.normalized[f] = files.normalized[f]
    BY <2>1, <2>2, <2>3, CreateFinds DEF FileRecords
  <2>6. files' = changed /\ recording' = recording /\ run'.pc = "clear_map"
    BY <2>1, CreateFinds, AfterThird DEF Import!Effect, CreateSteps, ImageSteps
  <2> HIDE DEF changed
  <2>7. Created'
    BY <2>1, <2>4, <2>6, CreateFinds DEF Created, CreateSteps, ImageSteps, Import!Whole
  <2> QED
    BY <2>1, <2>3, <2>4, <2>5, <2>7, CreateKeeps
<1>5. CASE Import!ClearMap
  <2> DEFINE changed == [files EXCEPT !.vimap = Import!Missing]
  <2>1. /\ run.pc = "clear_map" /\ Import!Effect("clear_map", changed)
        /\ "clear_map" \in CreateSteps
    BY <1>5 DEF Import!ClearMap, Import!Effect, CreateSteps, ImageSteps
  <2>2. files \in FileRecords /\ changed \in FileRecords
    BY <2>1, CreateFinds, DirectoriesTyped DEF FileRecords
  <2>3. /\ changed.validation = files.validation /\ changed.normalized = files.normalized
        /\ changed.rrd = files.rrd /\ changed.rrd_report = files.rrd_report
        /\ changed.images = files.images /\ changed.listed = files.listed
    BY <2>2 DEF FileRecords
  <2>4. files' = changed /\ recording' = recording /\ run'.pc = "import"
    BY <2>1, CreateFinds, AfterThird DEF Import!Effect, CreateSteps, ImageSteps
  <2> HIDE DEF changed
  <2>5. Created'
    BY <2>1, <2>3, <2>4, CreateFinds DEF Created, CreateSteps, ImageSteps, Import!Whole
  <2> QED
    BY <2>1, <2>2, <2>3, <2>5, CreateKeeps
<1> QED
  BY <1>1, <1>2, <1>3, <1>4, <1>5

\* The map is made from the recording alone.
LEMMA SourcesOfMap ==
  ASSUME RunInv, run.pc \in {"import", "reload", "map_report"}
  PROVE  /\ Import!MapSources = {recording} /\ recording \in Recordings
         /\ files.images = Import!Whole({recording}) /\ files.listed
<1>1. run.pc \in CreateSteps \ {"record"}
  BY DEF CreateSteps, ImageSteps
<1>2. /\ \A f \in Import!Normalized : files.normalized[f] = {recording}
      /\ Created /\ run.stage = 3 /\ recording \in Recordings
  BY <1>1, CreateFinds
<1>3. files.images = Import!Whole({recording}) /\ files.listed
  BY <1>2 DEF Created, ImageSteps
<1>4. files.images.of = {recording}
  BY <1>3 DEF Import!Whole
<1>5. UNION {files.normalized[f] : f \in Import!Normalized \ {"frames.csv"}} = {recording}
  BY <1>2, NormalizedNames
<1> QED
  BY <1>2, <1>3, <1>4, <1>5 DEF Import!MapSources

LEMMA MapCorrect ==
  ASSUME RunInv, Import!ImportMap \/ Import!ReloadMap \/ Import!ReportMap
  PROVE  RunInv' /\ Kept
<1>1. CASE Import!ImportMap
  <2> DEFINE changed == [files EXCEPT !.vimap = Import!Partial(Import!MapSources)]
  <2>1. /\ run.pc = "import" /\ Import!Effect("import", changed)
        /\ "import" \in CreateSteps
    BY <1>1 DEF Import!ImportMap, Import!Effect, CreateSteps, ImageSteps
  <2>2. /\ Import!MapSources = {recording} /\ recording \in Recordings
        /\ files.images = Import!Whole({recording}) /\ files.listed
    BY <2>1, SourcesOfMap
  <2>3. files \in FileRecords /\ changed \in FileRecords
    BY <2>1, <2>2, CreateFinds, DirectoriesTyped DEF FileRecords
  <2>4. /\ changed.validation = files.validation /\ changed.normalized = files.normalized
        /\ changed.rrd = files.rrd /\ changed.rrd_report = files.rrd_report
        /\ changed.images = files.images /\ changed.listed = files.listed
    BY <2>3 DEF FileRecords
  <2>5. files' = changed /\ recording' = recording /\ run'.pc = "reload"
    BY <2>1, CreateFinds, AfterThird DEF Import!Effect, CreateSteps, ImageSteps
  <2> HIDE DEF changed
  <2>6. Created'
    BY <2>2, <2>4, <2>5 DEF Created, CreateSteps, ImageSteps, Import!Whole
  <2> QED
    BY <2>1, <2>3, <2>4, <2>6, CreateKeeps
<1>2. CASE Import!ReloadMap
  <2> DEFINE changed == [files EXCEPT !.vimap = Import!Whole(Import!MapSources)]
  <2>1. /\ run.pc = "reload" /\ Import!Effect("reload", changed)
        /\ "reload" \in CreateSteps
    BY <1>2 DEF Import!ReloadMap, Import!Effect, CreateSteps, ImageSteps
  <2>2. /\ Import!MapSources = {recording} /\ recording \in Recordings
        /\ files.images = Import!Whole({recording}) /\ files.listed
    BY <2>1, SourcesOfMap
  <2>3. files \in FileRecords /\ changed \in FileRecords
    BY <2>1, <2>2, CreateFinds, DirectoriesTyped DEF FileRecords
  <2>4. /\ changed.validation = files.validation /\ changed.normalized = files.normalized
        /\ changed.rrd = files.rrd /\ changed.rrd_report = files.rrd_report
        /\ changed.images = files.images /\ changed.listed = files.listed
        /\ changed.vimap = Import!Whole({recording})
    BY <2>2, <2>3 DEF FileRecords
  <2>5. files' = changed /\ recording' = recording /\ run'.pc = "map_report"
    BY <2>1, CreateFinds, AfterThird DEF Import!Effect, CreateSteps, ImageSteps
  <2> HIDE DEF changed
  <2>6. Created'
    BY <2>2, <2>4, <2>5 DEF Created, CreateSteps, ImageSteps, Import!Whole
  <2> QED
    BY <2>1, <2>3, <2>4, <2>6, CreateKeeps
<1>3. CASE Import!ReportMap
  <2> DEFINE changed == [files EXCEPT !.map_report = Import!MapSources]
  <2>1. /\ run.pc = "map_report" /\ Import!Effect("map_report", changed)
        /\ "map_report" \in CreateSteps
    BY <1>3 DEF Import!ReportMap, Import!Effect, CreateSteps, ImageSteps
  <2>2. /\ Import!MapSources = {recording} /\ recording \in Recordings
        /\ files.images = Import!Whole({recording}) /\ files.listed
    BY <2>1, SourcesOfMap
  <2>3. files \in FileRecords /\ changed \in FileRecords
    BY <2>1, <2>2, CreateFinds DEF FileRecords
  <2>4. /\ changed.validation = files.validation /\ changed.normalized = files.normalized
        /\ changed.rrd = files.rrd /\ changed.rrd_report = files.rrd_report
        /\ changed.images = files.images /\ changed.listed = files.listed
        /\ changed.vimap = files.vimap
        /\ changed.map_report = {recording}
    BY <2>2, <2>3 DEF FileRecords
  <2>5. files' = changed /\ recording' = recording /\ run'.pc = "record"
    BY <2>1, CreateFinds, AfterThird DEF Import!Effect, CreateSteps, ImageSteps
  <2>6. files.vimap = Import!Whole({recording})
    BY <2>1, CreateFinds DEF Created, CreateSteps, ImageSteps
  <2> HIDE DEF changed
  <2>7. Created'
    BY <2>2, <2>4, <2>5, <2>6 DEF Created, CreateSteps, ImageSteps, Import!Whole
  <2> QED
    BY <2>1, <2>3, <2>4, <2>7, CreateKeeps
<1> QED
  BY <1>1, <1>2, <1>3

LEMMA ExportCorrect ==
  ASSUME RunInv, Import!ExportRerun \/ Import!ReportRerun
  PROVE  RunInv' /\ Kept
<1>1. run.pc \in {"export", "rrd_report"}
  BY DEF Import!ExportRerun, Import!ReportRerun, Import!Effect
<1>2. Import!Working /\ run.stage = 4
  BY <1>1, StageOfStep DEF Import!Working, RunInv
<1>3. /\ files \in FileRecords /\ recording \in Recordings /\ HasImages
      /\ run \in RunRecords
      /\ Exported
  BY <1>2 DEF RunInv, MadeSoFar, MadeHere, ImportTyped
<1>4. Import!MadeFrom(2, recording) /\ Import!MadeFrom(3, recording)
  BY <1>2 DEF RunInv, MadeSoFar
<1>5. /\ files.normalized["keyframes.csv"] = {recording} /\ files.map_report = {recording}
      /\ files.images = Import!Whole({recording})
  BY <1>3, <1>4, WhatIsMade, NormalizedNames DEF HasImages
<1>6. ASSUME NEW pc \in {"export", "rrd_report"}, NEW changed \in FileRecords,
             Import!Effect(pc, changed), changed.validation = files.validation,
             changed.normalized = files.normalized, changed.vimap = files.vimap,
             changed.images = files.images, changed.map_report = files.map_report,
             Exported'
      PROVE  RunInv' /\ Kept
  <2>1. pc \in Import!PCs \ {"idle", "next", "record"}
    BY DEF Import!PCs
  <2>2. files' = changed /\ run'.stage = 4
    BY <1>2, <1>6, <2>1, EffectIs DEF RunInv
  <2>3. Kept
    BY <1>2, <1>6, <2>2, MadeKept DEF Kept
  <2>4. MadeHere'
    BY <1>6, <2>2 DEF MadeHere, Validated, Placed, Created
  <2> QED
    BY <1>6, <2>1, <2>3, <2>4, EffectKeeps
<1>7. CASE Import!ExportRerun
  <2> DEFINE changed == [files EXCEPT !.rrd = files.map_report \cup files.images.of
                                                \cup files.normalized["keyframes.csv"]]
  <2>1. Import!Effect("export", changed) /\ run.pc = "export"
    BY <1>7 DEF Import!ExportRerun, Import!Effect
  <2>2. files.map_report \cup files.images.of \cup files.normalized["keyframes.csv"]
          = {recording}
    <3>1. files.images.of = {recording}
      BY <1>5 DEF Import!Whole
    <3> QED
      BY <1>5, <3>1
  <2>3. changed = [files EXCEPT !.rrd = {recording}]
    BY <2>2
  <2>4. /\ changed \in FileRecords /\ changed.rrd = {recording}
        /\ changed.validation = files.validation /\ changed.normalized = files.normalized
        /\ changed.vimap = files.vimap /\ changed.images = files.images
        /\ changed.map_report = files.map_report
    <3> HIDE DEF changed
    <3> QED
      BY <1>3, <2>3 DEF FileRecords
  <2>5. files' = changed /\ recording' = recording /\ run'.pc = "rrd_report"
    BY <1>2, <1>3, <2>1, AfterFourth DEF Import!Effect
  <2> HIDE DEF changed
  <2>6. Exported'
    BY <2>4, <2>5 DEF Exported
  <2> QED
    BY <1>6, <2>1, <2>4, <2>6
<1>8. CASE Import!ReportRerun
  <2> DEFINE changed == [files EXCEPT !.rrd_report = files.rrd]
  <2>1. Import!Effect("rrd_report", changed) /\ run.pc = "rrd_report"
    BY <1>8 DEF Import!ReportRerun, Import!Effect
  <2>2. files.rrd = {recording}
    BY <1>2, <1>3, <2>1 DEF Exported
  <2>3. /\ changed \in FileRecords /\ changed.rrd = {recording}
        /\ changed.rrd_report = {recording}
        /\ changed.validation = files.validation /\ changed.normalized = files.normalized
        /\ changed.vimap = files.vimap /\ changed.images = files.images
        /\ changed.map_report = files.map_report
    BY <1>3, <2>2 DEF FileRecords
  <2>4. files' = changed /\ recording' = recording /\ run'.pc = "record"
    BY <1>2, <1>3, <2>1, AfterFourth DEF Import!Effect
  <2> HIDE DEF changed
  <2>5. Exported'
    BY <2>3, <2>4 DEF Exported
  <2> QED
    BY <1>6, <2>1, <2>3, <2>5
<1> QED
  BY <1>7, <1>8

LEMMA EffectMakes ==
  ASSUME RunInv, Import!StageEffect
  PROVE  RunInv' /\ Kept
BY ValidateCorrect, NormalizeCorrect, ImagesCorrect, MapCorrect, ExportCorrect
   DEF Import!StageEffect

\* The last step of a stage finds all its outputs.
LEMMA StageMade ==
  ASSUME run.pc = "record", run.stage \in 1 .. 4, MadeHere
  PROVE  Import!MadeFrom(run.stage, recording)
<1>1. CASE run.stage = 1
  BY <1>1, WhatIsMade DEF MadeHere, Validated
<1>2. CASE run.stage = 2
  BY <1>2, WhatIsMade, NormalizedNames DEF MadeHere, Placed, InPlace
<1>3. CASE run.stage = 3
  BY <1>3, WhatIsMade DEF MadeHere, Created, ImageSteps
<1>4. CASE run.stage = 4
  BY <1>4, WhatIsMade DEF MadeHere, Exported
<1> QED
  BY <1>1, <1>2, <1>3, <1>4

-----------------------------------------------------------------------------
(* A forced run: what it has made depends on no record.                    *)

LEMMA FirstStep ==
  ASSUME ImportTyped, run.stage \in 1 .. 4
  PROVE  LET first == Import!StepsOf(run.stage)[1]
         IN  /\ run.stage = 1 => first = "validate"
             /\ run.stage = 2 => first = "frames.csv"
             /\ run.stage = 3 => first = "inputs"
             /\ run.stage = 4 => first = "export"
             /\ first \in Import!PCs \ {"idle", "next"}
BY OtherSteps, NormalizeSteps, CreateMapSteps, PlainMapSteps, NormalizedNames
   DEF Import!PCs

\* What beginning a stage leaves.
LEMMA BeginIs ==
  ASSUME ImportTyped, Import!BeginStage
  PROVE  /\ run.pc = "next" /\ run.stage \in 1 .. 4
         /\ run'.stage = run.stage /\ run'.to = run.to /\ run'.force = run.force
         /\ run'.pc = Import!StepsOf(run.stage)[1] /\ run'.pc \notin {"idle", "next"}
         /\ manifest' = [status |-> "running", stages |-> manifest.stages]
         /\ UNCHANGED <<recording, files, faults>>
         /\ ImportTyped' /\ AtStep' /\ MadeHere'
<1>1. /\ run.pc = "next" /\ run.stage <= run.to
      /\ manifest' = [manifest EXCEPT !.status = "running"]
      /\ run' = [run EXCEPT !.pc = Import!StepsOf(run.stage)[1]]
      /\ UNCHANGED <<recording, files, faults>>
  BY DEF Import!BeginStage
<1>2. run \in RunRecords /\ ManifestTyped
  BY DEF ImportTyped
<1>3. run.stage \in 1 .. 4
  BY <1>1, <1>2 DEF RunRecords
<1> DEFINE first == Import!StepsOf(run.stage)[1]
<1>4. /\ run.stage = 1 => first = "validate"
      /\ run.stage = 2 => first = "frames.csv"
      /\ run.stage = 3 => first = "inputs"
      /\ run.stage = 4 => first = "export"
      /\ first \in Import!PCs \ {"idle", "next"}
  BY <1>3, FirstStep
<1> HIDE DEF first
<1>5. /\ run'.stage = run.stage /\ run'.pc = first /\ run'.to = run.to
      /\ run'.force = run.force /\ run' \in RunRecords
  BY <1>1, <1>2, <1>4 DEF RunRecords, first
<1>6. manifest' = [status |-> "running", stages |-> manifest.stages]
  BY <1>1, <1>2 DEF ManifestTyped
<1>7. ManifestTyped'
  BY <1>2, <1>6 DEF ManifestTyped, RecordTyped
<1>8. ImportTyped'
  BY <1>1, <1>5, <1>7 DEF ImportTyped
<1>9. AtStep'
  BY <1>3, <1>4, <1>5, NormalizedNames DEF AtStep, CreateSteps, ImageSteps
<1>10. MadeHere'
  BY <1>4, <1>5 DEF MadeHere, Validated, Placed, Created, Exported, ImageSteps
<1> QED
  BY <1>1, <1>3, <1>4, <1>5, <1>6, <1>8, <1>9, <1>10 DEF first

\* A new record.
LEMMA RecordIs ==
  ASSUME ManifestTyped, recording \in Recordings, NEW s \in 1 .. 4,
         NEW status \in {"failed", "completed"},
         manifest' = [status |-> manifest'.status, stages |-> Import!Recorded(s, status)],
         manifest'.status \in {"none", "running", "failed", "completed"}
  PROVE  /\ ManifestTyped'
         /\ manifest'.stages[s].status = status
         /\ manifest'.stages[s].fingerprint[1] = recording
         /\ \A t \in 1 .. 4 : t # s => manifest'.stages[t] = manifest.stages[t]
<1> DEFINE new == [status |-> status, fingerprint |-> Import!StageFingerprint(s)]
<1>1. manifest'.stages = [manifest.stages EXCEPT ![s] = new]
  BY DEF Import!Recorded
<1>2. manifest.stages = [t \in 1 .. 4 |-> manifest.stages[t]]
  BY DEF ManifestTyped
<1>3. /\ manifest'.stages = [t \in 1 .. 4 |-> manifest'.stages[t]]
      /\ manifest'.stages[s] = new
      /\ \A t \in 1 .. 4 : t # s => manifest'.stages[t] = manifest.stages[t]
  <2> HIDE DEF new
  <2> QED
    BY <1>1, <1>2
<1>4. /\ new.status = status /\ new.fingerprint[1] = recording /\ Len(new.fingerprint) = s
  BY FingerprintIs
<1>5. \A t \in 1 .. 4 : RecordTyped(t)'
  <2> HIDE DEF new
  <2> QED
    BY <1>3, <1>4 DEF ManifestTyped, RecordTyped
<1>6. manifest' = [status |-> manifest'.status, stages |-> manifest'.stages]
  <2>1. manifest'.stages = Import!Recorded(s, status)
    OBVIOUS
  <2> QED
    BY <2>1
<1> QED
  BY <1>3, <1>4, <1>5, <1>6 DEF ManifestTyped

\* What completing a stage leaves.
LEMMA CompleteIs ==
  ASSUME ImportTyped, AtStep, Import!CompleteStage
  PROVE  /\ run.pc = "record" /\ Import!Working /\ run.stage \in 1 .. 4
         /\ run'.pc = "next" /\ run'.stage = run.stage + 1
         /\ run'.to = run.to /\ run'.force = run.force
         /\ UNCHANGED <<recording, files, faults>>
         /\ manifest'.status = manifest.status
         /\ manifest'.stages[run.stage].status = "completed"
         /\ manifest'.stages[run.stage].fingerprint[1] = recording
         /\ \A t \in 1 .. 4 : t # run.stage => manifest'.stages[t] = manifest.stages[t]
         /\ ImportTyped' /\ AtStep'
<1>1. /\ run.pc = "record"
      /\ manifest' = [manifest EXCEPT !.stages = Import!Recorded(run.stage, "completed")]
      /\ run' = [run EXCEPT !.pc = "next", !.stage = @ + 1]
      /\ UNCHANGED <<recording, files, faults>>
  BY DEF Import!CompleteStage
<1>2. run \in RunRecords /\ ManifestTyped /\ recording \in Recordings
  BY DEF ImportTyped
<1>3. Import!Working /\ run.stage \in 1 .. 4
  BY <1>1, StageOfStep DEF Import!Working
<1>4. /\ run'.pc = "next" /\ run'.stage = run.stage + 1 /\ run' \in RunRecords
      /\ run'.to = run.to /\ run'.force = run.force
  <2>1. run.stage + 1 \in 1 .. 5 /\ "next" \in Import!PCs
    BY <1>3 DEF Import!PCs
  <2> QED
    BY <1>1, <1>2, <2>1 DEF RunRecords
<1>5. manifest' = [status |-> manifest'.status,
                   stages |-> Import!Recorded(run.stage, "completed")]
      /\ manifest'.status = manifest.status
  BY <1>1, <1>2 DEF ManifestTyped
<1>6. /\ ManifestTyped'
      /\ manifest'.stages[run.stage].status = "completed"
      /\ manifest'.stages[run.stage].fingerprint[1] = recording
      /\ \A t \in 1 .. 4 : t # run.stage => manifest'.stages[t] = manifest.stages[t]
  <2>1. manifest.status \in {"none", "running", "failed", "completed"}
    BY <1>2 DEF ManifestTyped
  <2>2. PICK s \in 1 .. 4 : s = run.stage
    BY <1>3
  <2> QED
    BY <1>2, <1>5, <2>1, <2>2, RecordIs
<1>7. ImportTyped'
  BY <1>1, <1>4, <1>6 DEF ImportTyped
<1>8. AtStep'
  BY <1>4 DEF AtStep, Import!Working
<1> QED
  BY <1>1, <1>3, <1>4, <1>5, <1>6, <1>7, <1>8

\* What is made stays made while no file changes.
LEMMA SameFiles ==
  ASSUME UNCHANGED <<recording, files>>, NEW s \in 1 .. 4, Import!MadeFrom(s, recording)
  PROVE  Import!MadeFrom(s, recording)'
BY StageNames DEF Import!MadeFrom

\* A forced run goes on as it should.
LEMMA ForcedGoesOn ==
  ASSUME ImportTyped, AtStep, ForcedRun, run.force, Import!Progress, run'.pc # "idle"
  PROVE  ForcedRun'
<1>1. CASE Import!BeginStage
  <2>1. /\ run.stage \in 1 .. 4 /\ run'.stage = run.stage /\ UNCHANGED <<recording, files>>
        /\ run'.pc = Import!StepsOf(run.stage)[1] /\ MadeHere'
    BY <1>1, BeginIs
  <2>2. HasImages => MadeSoFar'
    <3>1. SUFFICES ASSUME HasImages, NEW s \in 1 .. run'.stage - 1
                   PROVE  Import!MadeFrom(s, recording)'
      BY <2>1 DEF MadeSoFar
    <3>2. s \in 1 .. 4 /\ Import!MadeFrom(s, recording)
      BY <2>1, <3>1 DEF ForcedRun, MadeSoFar
    <3> QED
      BY <2>1, <3>2, SameFiles
  <2>3. ~HasImages => Unlisted'
    BY <2>1, FirstStep DEF ForcedRun, Unlisted
  <2> QED
    BY <2>1, <2>2, <2>3 DEF ForcedRun, HasImages
<1>2. CASE Import!CompleteStage
  <2>1. /\ run.pc = "record" /\ Import!Working /\ run.stage \in 1 .. 4
        /\ run'.pc = "next" /\ run'.stage = run.stage + 1 /\ UNCHANGED <<recording, files>>
    BY <1>2, CompleteIs
  <2>2. HasImages => MadeSoFar'
    <3>1. SUFFICES ASSUME HasImages, NEW s \in 1 .. run'.stage - 1
                   PROVE  Import!MadeFrom(s, recording)'
      BY <2>1 DEF MadeSoFar, Import!Working
    <3>2. s \in 1 .. 4 /\ (s = run.stage \/ s \in 1 .. run.stage - 1)
      BY <2>1
    <3>3. MadeSoFar /\ MadeHere
      BY <2>1, <3>1 DEF ForcedRun, MadeSoFar
    <3>4. Import!MadeFrom(s, recording)
      BY <2>1, <3>2, <3>3, StageMade DEF MadeSoFar
    <3> QED
      BY <2>1, <3>2, <3>4, SameFiles
  <2>3. ~HasImages => Unlisted'
    BY <2>1 DEF ForcedRun, Unlisted
  <2> QED
    BY <2>1, <2>2, <2>3 DEF ForcedRun, HasImages
<1>3. CASE Import!StageEffect
  <2>1. recording' = recording /\ (~HasImages /\ Unlisted => Unlisted')
    BY <1>3, EffectTyped
  <2>2. HasImages => MadeSoFar'
    BY <1>3, EffectMakes DEF ForcedRun, RunInv
  <2> QED
    BY <2>1, <2>2 DEF ForcedRun, HasImages
<1>4. CASE Import!SkipStage
  BY <1>4 DEF Import!SkipStage
<1>5. CASE Import!Finish \/ Import!Refuse
  BY <1>5 DEF Import!Finish, Import!Refuse, Import!RecordFailure, Import!NoRun
<1> QED
  BY <1>1, <1>2, <1>3, <1>4, <1>5 DEF Import!Progress

-----------------------------------------------------------------------------
(* The records, where the calls are fit.                                   *)

\* The outputs of the stages that a run has passed are those of the recording.
LEMMA PassedIsMade ==
  ASSUME CallsAreFit, ImportInv, run.pc # "idle"
  PROVE  HasImages /\ MadeSoFar
<1>1. HasImages /\ run.stage \in 1 .. 5 /\ RecordsInv
  BY DEF ImportInv, ImportTyped, RunRecords, HasImages, CallsAreFit, ImagesEnabled
<1>2. ASSUME NEW s \in 1 .. run.stage - 1
      PROVE  Import!MadeFrom(s, recording)
  <2>1. s \in 1 .. 4 /\ s # run.stage /\ CompletedFor(s, recording)
    BY <1>1 DEF RecordsInv, Passed
  <2> QED
    BY <1>1, <2>1, StageNames DEF RecordsInv, Import!RecordsHonest, CompletedFor
<1> QED
  BY <1>1, <1>2 DEF MadeSoFar, RecordsInv

LEMMA EffectCorrect ==
  ASSUME ImportInv, Import!StageEffect
  PROVE  ImportInv'
<1>1. /\ Import!Working /\ run'.pc \notin {"idle", "next"}
      /\ run'.stage = run.stage /\ run'.force = run.force
      /\ UNCHANGED <<recording, manifest>>
      /\ ImportTyped' /\ AtStep'
      /\ run.stage = 4 => files'.listed = files.listed
  BY EffectTyped DEF ImportInv
<1>2. SUFFICES ASSUME CallsAreFit PROVE RecordsInv'
  BY <1>1 DEF ImportInv
<1>3. run.stage \in 1 .. 4 /\ RecordsInv
  BY <1>1, <1>2, StageOfStep DEF ImportInv
<1>4. RunInv' /\ Kept
  <2>1. HasImages /\ MadeSoFar
    BY <1>1, <1>2, PassedIsMade DEF Import!Working
  <2> QED
    BY <2>1, EffectMakes DEF RunInv, ImportInv
<1>5. Passed'
  BY <1>1, <1>3 DEF RecordsInv, Passed, CompletedFor, Import!Working
<1>6. Listed'
  BY <1>1, <1>3 DEF RecordsInv, Listed, HasImages, Import!Working
<1>7. Import!RecordsHonest'
  <2>1. ASSUME NEW s \in 1 .. 4, s # run.stage, manifest.stages[s].status = "completed"
        PROVE  Import!MadeFrom(s, manifest.stages[s].fingerprint[1])'
    <3> DEFINE r == manifest.stages[s].fingerprint[1]
    <3>1. r' = r
      BY <1>1
    <3>2. PICK x : x = r
      OBVIOUS
    <3>3. Import!MadeFrom(s, r)
      BY <1>3, <2>1, StageNames DEF RecordsInv, Import!RecordsHonest
    <3>4. Import!MadeFrom(s, x)'
      BY <1>4, <2>1, <3>2, <3>3 DEF Kept
    <3> QED
      BY <3>1, <3>2, <3>4 DEF Import!MadeFrom
  <2> QED
    BY <1>1, <2>1, StageNames DEF Import!RecordsHonest, Import!Working
<1> QED
  BY <1>4, <1>5, <1>6, <1>7 DEF RecordsInv, RunInv, MadeSoFar

\* The records are honest after a step that changes no file.
LEMMA HonestIf ==
  ASSUME files' = files,
         \A s \in 1 .. 4 : manifest'.stages[s].status = "completed"
                             /\ ~(run'.pc \notin {"idle", "next"} /\ run'.stage = s)
           => Import!MadeFrom(s, manifest'.stages[s].fingerprint[1])
  PROVE  Import!RecordsHonest'
BY StageNames DEF Import!RecordsHonest, Import!Working, Import!MadeFrom

\* While no stage works, a step that keeps files and records keeps them honest.
LEMMA RestKeepsHonest ==
  ASSUME Import!RecordsHonest, ~Import!Working, UNCHANGED <<manifest, files>>
  PROVE  Import!RecordsHonest'
BY HonestIf, StageNames DEF Import!RecordsHonest

LEMMA ChangeInputCorrect ==
  ASSUME ImportInv, Import!ChangeInput
  PROVE  ImportInv'
<1>1. /\ run.pc = "idle" /\ recording' \in Recordings
      /\ UNCHANGED <<manifest, files, run, faults>>
  BY DEF Import!ChangeInput
<1>2. /\ ImportTyped' /\ AtStep' /\ Passed' /\ Listed' /\ ~Import!Working
      /\ ~(Import!Working')
  BY <1>1 DEF ImportInv, ImportTyped, ManifestTyped, RecordTyped, AtStep, Passed, Listed,
              Import!Working
<1>3. CallsAreFit => Import!RecordsHonest'
  BY <1>1, <1>2, RestKeepsHonest DEF ImportInv, RecordsInv
<1> QED
  BY <1>2, <1>3 DEF ImportInv, RecordsInv

\* A call of the import.
LEMMA CallCorrect ==
  ASSUME ImportInv, run.pc = "idle",
         NEW from \in 1 .. 4, NEW to \in 1 .. 4, NEW force \in BOOLEAN,
         CallsAreFit => from = 1,
         run' = [pc |-> "next", stage |-> from, to |-> to, force |-> force],
         UNCHANGED <<recording, manifest, files, faults>>
  PROVE  ImportInv'
<1>1. run' \in RunRecords
  BY DEF RunRecords, Import!PCs
<1>2. /\ ImportTyped' /\ AtStep' /\ ~Import!Working /\ ~(Import!Working')
      /\ CallsAreFit => Passed' /\ Listed'
  BY <1>1 DEF ImportInv, ImportTyped, ManifestTyped, RecordTyped, AtStep, Passed, Listed,
              Import!Working
<1>3. CallsAreFit => Import!RecordsHonest'
  BY <1>2, RestKeepsHonest DEF ImportInv, RecordsInv
<1> QED
  BY <1>2, <1>3 DEF ImportInv, RecordsInv

LEMMA StartCorrect ==
  ASSUME ImportInv, Import!Start
  PROVE  ImportInv'
<1>1. PICK selection \in Selections, force \in BOOLEAN :
        run' = [pc |-> "next", stage |-> selection[1], to |-> selection[2],
                force |-> force]
  BY DEF Import!Start
<1>2. /\ selection[1] \in 1 .. 4 /\ selection[2] \in 1 .. 4
      /\ CallsAreFit => selection[1] = 1
  BY ImportAssumption DEF CallsAreFit, WholeCalls
<1> QED
  BY <1>1, <1>2, CallCorrect DEF Import!Start

LEMMA SkipStageCorrect ==
  ASSUME ImportInv, Import!SkipStage
  PROVE  ImportInv' /\ run'.to = run.to /\ run'.force = run.force
<1>1. /\ run.pc = "next" /\ run.stage <= run.to /\ Import!Unchanged(run.stage)
      /\ ~run.force /\ run' = [run EXCEPT !.stage = @ + 1]
      /\ UNCHANGED <<recording, manifest, files, faults>>
  BY DEF Import!SkipStage
<1>2. run \in RunRecords
  BY DEF ImportInv, ImportTyped
<1>3. /\ run.stage \in 1 .. 4 /\ run'.stage = run.stage + 1 /\ run'.pc = "next"
      /\ run' \in RunRecords /\ run'.to = run.to /\ run'.force = run.force
  BY <1>1, <1>2 DEF RunRecords
<1>4. /\ ImportTyped' /\ AtStep' /\ Listed' /\ ~Import!Working /\ ~(Import!Working')
  BY <1>1, <1>3 DEF ImportInv, ImportTyped, ManifestTyped, RecordTyped, AtStep, Listed,
                    Import!Working
<1>5. CallsAreFit => Import!RecordsHonest'
  BY <1>1, <1>4, RestKeepsHonest DEF ImportInv, RecordsInv
<1>6. CompletedFor(run.stage, recording)
  BY <1>1, <1>3, FingerprintIs DEF Import!Unchanged, CompletedFor
<1>7. ASSUME CallsAreFit PROVE Passed'
  <2>1. \A s \in 1 .. run.stage - 1 : CompletedFor(s, recording)
    BY <1>1, <1>7 DEF ImportInv, RecordsInv, Passed
  <2>2. \A s \in 1 .. run'.stage - 1 : CompletedFor(s, recording)
    <3> TAKE s \in 1 .. run'.stage - 1
    <3>1. s = run.stage \/ s \in 1 .. run.stage - 1
      BY <1>3
    <3> QED
      BY <1>6, <2>1, <3>1
  <2> QED
    BY <1>1, <2>2 DEF Passed, CompletedFor
<1> QED
  BY <1>3, <1>4, <1>5, <1>7 DEF ImportInv, RecordsInv

LEMMA BeginStageCorrect ==
  ASSUME ImportInv, Import!BeginStage
  PROVE  ImportInv'
<1>1. /\ run.pc = "next" /\ run.stage \in 1 .. 4
      /\ run'.stage = run.stage /\ run'.force = run.force
      /\ manifest' = [status |-> "running", stages |-> manifest.stages]
      /\ UNCHANGED <<recording, files, faults>>
      /\ ImportTyped' /\ AtStep' /\ MadeHere'
  BY BeginIs DEF ImportInv
<1>2. SUFFICES ASSUME CallsAreFit PROVE RecordsInv'
  BY <1>1 DEF ImportInv
<1>3. RecordsInv
  BY <1>2 DEF ImportInv
<1>4. Passed' /\ Listed'
  BY <1>1, <1>3 DEF RecordsInv, Passed, CompletedFor, Listed, HasImages
<1>5. Import!RecordsHonest'
  BY <1>1, <1>3, HonestIf, StageNames DEF RecordsInv, Import!RecordsHonest, Import!Working
<1> QED
  BY <1>1, <1>4, <1>5 DEF RecordsInv

LEMMA CompleteStageCorrect ==
  ASSUME ImportInv, Import!CompleteStage
  PROVE  ImportInv'
<1>1. /\ run.pc = "record" /\ Import!Working /\ run.stage \in 1 .. 4
      /\ run'.pc = "next" /\ run'.stage = run.stage + 1 /\ run'.force = run.force
      /\ UNCHANGED <<recording, files, faults>>
      /\ manifest'.stages[run.stage].status = "completed"
      /\ manifest'.stages[run.stage].fingerprint[1] = recording
      /\ \A t \in 1 .. 4 : t # run.stage => manifest'.stages[t] = manifest.stages[t]
      /\ ImportTyped' /\ AtStep'
  BY CompleteIs DEF ImportInv
<1>2. SUFFICES ASSUME CallsAreFit PROVE RecordsInv'
  BY <1>1 DEF ImportInv
<1>3. RecordsInv
  BY <1>2 DEF ImportInv
<1>4. \A s \in 1 .. run.stage - 1 : CompletedFor(s, recording)
  BY <1>1, <1>3 DEF RecordsInv, Passed
<1>5. ASSUME NEW s \in 1 .. run'.stage - 1
      PROVE  /\ manifest'.stages[s].status = "completed"
             /\ manifest'.stages[s].fingerprint[1] = recording
  <2>1. s = run.stage \/ (s \in 1 .. run.stage - 1 /\ s \in 1 .. 4 /\ s # run.stage)
    BY <1>1
  <2> QED
    BY <1>1, <1>4, <2>1 DEF CompletedFor
<1>6. Passed'
  BY <1>1, <1>5 DEF Passed, CompletedFor
<1>7. MadeHere
  BY <1>1, <1>3 DEF RecordsInv
<1>8. Listed'
  BY <1>1, <1>3, <1>7 DEF RecordsInv, Listed, HasImages, MadeHere, Created, ImageSteps
<1>9. Import!RecordsHonest'
  <2>1. ASSUME NEW s \in 1 .. 4, manifest'.stages[s].status = "completed"
        PROVE  Import!MadeFrom(s, manifest'.stages[s].fingerprint[1])
    <3>1. CASE s = run.stage
      BY <1>1, <1>7, <3>1, StageMade
    <3>2. CASE s # run.stage
      BY <1>1, <1>3, <2>1, <3>2, StageNames DEF RecordsInv, Import!RecordsHonest
    <3> QED
      BY <3>1, <3>2
  <2> QED
    BY <1>1, <2>1, HonestIf
<1> QED
  BY <1>1, <1>6, <1>8, <1>9 DEF RecordsInv, Import!Working

\* The end of a process, whatever it has recorded.
LEMMA NoRunLeft ==
  ASSUME ImportInv, run' = Import!NoRun, UNCHANGED <<recording, files>>,
         faults' \in 0 .. MaxFaults, ManifestTyped',
         CallsAreFit =>
           \A s \in 1 .. 4 : manifest'.stages[s].status = "completed"
             => manifest'.stages[s] = manifest.stages[s] /\ ~(Import!Working /\ run.stage = s)
  PROVE  ImportInv'
<1>1. run'.pc = "idle" /\ run' \in RunRecords
  BY DEF Import!NoRun, Import!PCs, RunRecords
<1>2. /\ ImportTyped' /\ AtStep' /\ Passed' /\ Listed' /\ ~(Import!Working')
  BY <1>1 DEF ImportInv, ImportTyped, AtStep, Passed, Listed, Import!Working
<1>3. CallsAreFit => Import!RecordsHonest'
  BY HonestIf, StageNames DEF ImportInv, RecordsInv, Import!RecordsHonest
<1> QED
  BY <1>2, <1>3 DEF ImportInv, RecordsInv

LEMMA FinishCorrect ==
  ASSUME ImportInv, Import!Finish
  PROVE  ImportInv'
<1>1. /\ run.pc = "next" /\ manifest' = [manifest EXCEPT !.status = "completed"]
      /\ run' = Import!NoRun /\ UNCHANGED <<recording, files, faults>>
  BY DEF Import!Finish
<1>2. ManifestTyped /\ faults \in 0 .. MaxFaults
  BY DEF ImportInv, ImportTyped
<1>3. manifest' = [status |-> "completed", stages |-> manifest.stages]
  BY <1>1, <1>2 DEF ManifestTyped
<1>4. ManifestTyped'
  BY <1>2, <1>3 DEF ManifestTyped, RecordTyped
<1> QED
  BY <1>1, <1>2, <1>3, <1>4, NoRunLeft DEF Import!Working

\* A stage that fails, of itself or by an exception.
LEMMA FailureCorrect ==
  ASSUME ImportInv, Import!Working, Import!RecordFailure, faults' \in 0 .. MaxFaults
  PROVE  ImportInv'
<1>1. /\ manifest' = [status |-> "failed", stages |-> Import!Recorded(run.stage, "failed")]
      /\ run' = Import!NoRun /\ UNCHANGED <<recording, files>>
  BY DEF Import!RecordFailure
<1>2. /\ ManifestTyped /\ recording \in Recordings /\ run.stage \in 1 .. 4
  BY StageOfStep DEF ImportInv, ImportTyped
<1>3. /\ ManifestTyped'
      /\ manifest'.stages[run.stage].status = "failed"
      /\ \A t \in 1 .. 4 : t # run.stage => manifest'.stages[t] = manifest.stages[t]
  <2>1. PICK s \in 1 .. 4 : s = run.stage
    BY <1>2
  <2>2. manifest'.status = "failed"
    BY <1>1
  <2>3. manifest' = [status |-> manifest'.status, stages |-> Import!Recorded(s, "failed")]
    BY <1>1, <2>1
  <2> QED
    BY <1>2, <2>1, <2>2, <2>3, RecordIs
<1>4. \A s \in 1 .. 4 : manifest'.stages[s].status = "completed"
        => manifest'.stages[s] = manifest.stages[s] /\ ~(Import!Working /\ run.stage = s)
  BY <1>3
<1> QED
  BY <1>1, <1>3, <1>4, NoRunLeft

LEMMA RefuseCorrect ==
  ASSUME ImportInv, Import!Refuse
  PROVE  ImportInv'
<1>1. Import!Working /\ Import!RecordFailure /\ faults' = faults
  BY DEF Import!Refuse, Import!Working
<1> QED
  BY <1>1, FailureCorrect DEF ImportInv, ImportTyped

LEMMA OneMoreFault ==
  ASSUME ImportInv, faults < MaxFaults, faults' = faults + 1
  PROVE  faults' \in 0 .. MaxFaults
BY ImportAssumption DEF ImportInv, ImportTyped

LEMMA RaiseCorrect ==
  ASSUME ImportInv, Import!Raise
  PROVE  ImportInv'
BY FailureCorrect, OneMoreFault DEF Import!Raise

LEMMA KillCorrect ==
  ASSUME ImportInv, Import!Kill
  PROVE  ImportInv'
<1>1. /\ run' = Import!NoRun /\ UNCHANGED <<recording, manifest, files>>
      /\ CallsAreFit /\ Import!Working => manifest.stages[run.stage].status # "completed"
  BY DEF Import!Kill, CallsAreFit
<1>2. faults' \in 0 .. MaxFaults
  BY OneMoreFault DEF Import!Kill
<1>3. ManifestTyped'
  BY <1>1 DEF ImportInv, ImportTyped, ManifestTyped, RecordTyped
<1> QED
  BY <1>1, <1>2, <1>3, NoRunLeft

LEMMA ImportStepCorrect ==
  ASSUME ImportInv, Import!Next
  PROVE  ImportInv'
BY ChangeInputCorrect, StartCorrect, SkipStageCorrect, BeginStageCorrect,
   CompleteStageCorrect, FinishCorrect, EffectCorrect, RefuseCorrect, RaiseCorrect,
   KillCorrect
   DEF Import!Next, Import!Progress

\* A step that is no step of the import.
LEMMA ImportKept ==
  ASSUME ImportInv, UNCHANGED importVars, faults' \in 0 .. MaxFaults
  PROVE  ImportInv'
<1>1. UNCHANGED <<recording, manifest, files, run>>
  BY DEF importVars
<1>2. ImportTyped' /\ AtStep'
  BY <1>1 DEF ImportInv, ImportTyped, ManifestTyped, RecordTyped, AtStep, Import!Working,
              HasImages
<1>3. SUFFICES ASSUME CallsAreFit PROVE RecordsInv'
  BY <1>2 DEF ImportInv
<1>4. RecordsInv
  BY <1>3 DEF ImportInv
<1>5. Passed' /\ Listed'
  BY <1>1, <1>4 DEF RecordsInv, Passed, CompletedFor, Listed, HasImages
<1>6. MadeHere' = MadeHere
  BY <1>1 DEF MadeHere, Validated, Placed, InPlace, Created, Exported
<1>7. Import!RecordsHonest'
  BY <1>1, <1>4, HonestIf, StageNames DEF RecordsInv, Import!RecordsHonest, Import!Working
<1> QED
  BY <1>1, <1>4, <1>5, <1>6, <1>7 DEF RecordsInv, Import!Working

LEMMA ImportBegins ==
  ASSUME Import!Init
  PROVE  ImportInv
<1>1. files \in FileRecords
  BY DirectoriesTyped, NormalizedNames DEF Import!Init, FileRecords
<1>2. run \in RunRecords /\ run.pc = "idle"
  BY DEF Import!Init, Import!NoRun, Import!PCs, RunRecords
<1>3. /\ manifest = [status |-> "none", stages |-> [s \in 1 .. 4 |-> Import!NoRecord]]
      /\ Import!NoRecord.status = "none" /\ Len(Import!NoRecord.fingerprint) = 0
  BY StageNames DEF Import!Init, Import!NoRecord
<1>4. ManifestTyped /\ \A s \in 1 .. 4 : manifest.stages[s].status = "none"
  <2> USE <1>3
  <2> QED
    BY DEF ManifestTyped, RecordTyped
<1>5. ImportTyped
  BY <1>1, <1>2, <1>4, ImportAssumption DEF Import!Init, ImportTyped
<1> QED
  BY <1>2, <1>4, <1>5, StageNames
     DEF ImportInv, AtStep, RecordsInv, Passed, Listed, Import!Working,
         Import!RecordsHonest

-----------------------------------------------------------------------------
(* The steps of the scripts.                                               *)

LEMMA MapDirectories ==
  ASSUME NEW sources \in SUBSET Recordings
  PROVE  /\ Missing \in MapDirs /\ Empty \in MapDirs
         /\ \A state \in {"missing", "empty", "copied", "optimized", "exported"} :
              At(state, sources) \in MapDirs
BY DEF Missing, Empty, At, MapDirs

\* What the scripts of sfm find: the import is complete.
LEMMA FilesOfSfm ==
  ASSUME SessionInv, Trusted, shell.pc \notin {"idle", "import"}
  PROVE  /\ Imported /\ recording \in Recordings
         /\ HasImages =>
              /\ files.images = Import!Whole({recording})
              /\ files.vimap = Import!Whole({recording})
              /\ \A f \in Import!Normalized : files.normalized[f] = {recording}
         /\ ~HasImages => ~files.listed
<1>1. Imported /\ recording \in Recordings
  BY DEF SessionInv, SfmInv, ImportInv, ImportTyped
<1>2. ASSUME HasImages PROVE \A s \in 1 .. 4 : Import!MadeFrom(s, recording)
  BY <1>1, <1>2 DEF Imported
<1>3. ASSUME HasImages
      PROVE  /\ files.images = Import!Whole({recording})
             /\ files.vimap = Import!Whole({recording})
             /\ \A f \in Import!Normalized : files.normalized[f] = {recording}
  <2>1. Import!MadeFrom(2, recording) /\ Import!MadeFrom(3, recording)
    BY <1>2, <1>3
  <2> QED
    BY <1>3, <2>1, WhatIsMade DEF HasImages
<1> QED
  BY <1>1, <1>3 DEF Imported

\* No script runs, or an import alone does.
LEMMA WithoutSfm ==
  ASSUME ImportInv', maps' = maps, SessionInv, shell'.pc \in {"idle", "import"},
         shell' \in ShellRecords, ImportInFull', ForcedImport'
  PROVE  SessionInv'
BY DEF SessionInv, ShellTyped, SfmInv

LEMMA NoShellTyped ==
  /\ NoShell.pc = "idle" /\ ~NoShell.sfm
  /\ NoShell \in ShellRecords
BY MapDirectories DEF NoShell, ShellPCs, ShellRecords, MapDirs, Missing

LEMMA ImportAloneCorrect ==
  ASSUME SessionInv, ImportAlone
  PROVE  SessionInv'
<1>1. ImportInv'
  BY ImportStepCorrect DEF ImportAlone, SessionInv
<1> QED
  BY <1>1, WithoutSfm DEF ImportAlone, SessionInv, ShellTyped, ImportInFull, ForcedImport

LEMMA StartSfmCorrect ==
  ASSUME SessionInv, StartSfm
  PROVE  SessionInv'
<1>1. PICK force \in BOOLEAN, skip_loops \in BOOLEAN :
        /\ run' = [pc |-> "next", stage |-> 1, to |-> 4, force |-> force]
        /\ shell' = [NoShell EXCEPT !.pc = "import", !.sfm = TRUE, !.force = force,
                       !.stage = IF skip_loops THEN "initial" ELSE "auto"]
  BY DEF StartSfm
<1>2. run.pc = "idle" /\ UNCHANGED <<recording, manifest, files, faults, maps>>
  BY DEF StartSfm
<1>3. ImportInv'
  BY <1>1, <1>2, CallCorrect DEF SessionInv
<1>4. /\ shell'.pc = "import" /\ shell'.stage \in {"auto", "initial"}
      /\ shell'.force = force /\ shell' \in ShellRecords
  <2>1. "import" \in ShellPCs
    BY DEF ScriptPCs, ShellPCs
  <2> QED
    BY <1>1, <2>1, NoShellTyped DEF ShellRecords
<1>5. ImportInFull'
  BY <1>1, <1>4 DEF ImportInFull
<1>6. ForcedImport'
  BY <1>1 DEF ForcedImport, ForcedRun, MadeSoFar, Unlisted, Import!Working
<1> QED
  BY <1>2, <1>3, <1>4, <1>5, <1>6, WithoutSfm

\* A process goes on with the stages that it was given; one that reports success has
\* passed all of them.
LEMMA ProcessKept ==
  ASSUME ImportInv, Import!Progress \/ Import!Raise \/ Import!Kill
  PROVE  /\ run'.pc = "idle" \/ (run'.to = run.to /\ run'.force = run.force /\ Import!Progress)
         /\ run'.pc = "idle" /\ manifest'.status = "completed" /\ faults' = faults
              => Import!Finish
<1>1. ImportTyped /\ AtStep /\ faults \in 0 .. MaxFaults /\ MaxFaults \in Nat
  BY ImportAssumption DEF ImportInv, ImportTyped
<1>2. CASE Import!SkipStage
  <2>1. run'.to = run.to /\ run'.force = run.force /\ run'.pc = run.pc /\ run.pc = "next"
    BY <1>1, <1>2 DEF Import!SkipStage, ImportTyped, RunRecords
  <2> QED
    BY <1>2, <2>1 DEF Import!Progress
<1>3. CASE Import!BeginStage
  BY <1>1, <1>3, BeginIs DEF Import!Progress
<1>4. CASE Import!CompleteStage
  BY <1>1, <1>4, CompleteIs DEF Import!Progress
<1>5. CASE Import!Finish
  BY <1>5 DEF Import!Finish, Import!NoRun
<1>6. CASE Import!StageEffect
  BY <1>1, <1>6, EffectTyped DEF Import!Progress
<1>7. CASE Import!Refuse \/ Import!Raise
  BY <1>1, <1>7 DEF Import!Refuse, Import!Raise, Import!RecordFailure, Import!NoRun
<1>8. CASE Import!Kill
  BY <1>1, <1>8 DEF Import!Kill, Import!NoRun
<1> QED
  BY <1>2, <1>3, <1>4, <1>5, <1>6, <1>7, <1>8 DEF Import!Progress

LEMMA ImportInSfmCorrect ==
  ASSUME SessionInv, ImportInSfm
  PROVE  SessionInv'
<1>1. /\ shell.pc = "import" /\ maps' = maps
      /\ Import!Progress \/ Import!Raise \/ Import!Kill
      /\ shell' = IF run'.pc # "idle" THEN shell
                  ELSE IF manifest'.status = "completed" /\ faults' = faults
                       THEN [shell EXCEPT !.pc = "frontend"]
                       ELSE NoShell
  BY DEF ImportInSfm
<1>2. ImportInv'
  BY <1>1, ImportStepCorrect DEF SessionInv, Import!Next
<1>3. /\ shell \in ShellRecords /\ run.pc # "idle" /\ run.to = 4 /\ run.force = shell.force
      /\ shell.stage \in {"auto", "initial"} /\ ImportInv /\ ImportTyped /\ AtStep
      /\ shell.force => ForcedRun
  BY <1>1 DEF SessionInv, ImportInv, ShellTyped, ImportInFull, ForcedImport
<1>4. CASE run'.pc # "idle"
  <2>1. shell' = shell /\ run'.to = run.to /\ run'.force = run.force /\ Import!Progress
    BY <1>1, <1>3, <1>4, ProcessKept
  <2>2. shell.force => ForcedRun'
    BY <1>3, <1>4, <2>1, ForcedGoesOn
  <2>3. ImportInFull' /\ ForcedImport'
    BY <1>3, <1>4, <2>1, <2>2 DEF ImportInFull, ForcedImport
  <2> QED
    BY <1>1, <1>2, <1>3, <2>1, <2>3, WithoutSfm
<1>5. CASE run'.pc = "idle" /\ manifest'.status = "completed" /\ faults' = faults
  <2>1. Import!Finish
    BY <1>1, <1>3, <1>5, ProcessKept
  <2>2. /\ run.pc = "next" /\ run.stage > run.to /\ UNCHANGED <<recording, files>>
    BY <2>1 DEF Import!Finish
  <2>3. run.stage = 5
    BY <1>3, <2>2 DEF ImportTyped, RunRecords
  <2>4. Trusted => (HasImages => MadeSoFar) /\ (~HasImages => ~files.listed)
    <3>1. CASE shell.force
      BY <1>3, <2>3, <3>1 DEF ForcedRun, Unlisted
    <3>2. CASE CallsAreFit
      BY <1>3, <3>2, PassedIsMade
    <3> QED
      BY <3>1, <3>2 DEF Trusted
  <2>5. Trusted => Imported'
    <3>1. SUFFICES ASSUME Trusted PROVE Imported'
      OBVIOUS
    <3>2. ASSUME HasImages, NEW s \in 1 .. 4 PROVE Import!MadeFrom(s, recording)'
      <4>1. s \in 1 .. run.stage - 1
        BY <2>3
      <4>2. Import!MadeFrom(s, recording)
        BY <2>4, <3>1, <3>2, <4>1 DEF MadeSoFar
      <4> QED
        BY <2>2, <4>2, SameFiles
    <3> QED
      BY <1>5, <2>2, <2>4, <3>1, <3>2 DEF Imported, HasImages
  <2>6. /\ shell' = [shell EXCEPT !.pc = "frontend"] /\ "frontend" \in ShellPCs
    BY <1>1, <1>5 DEF ScriptPCs, ShellPCs
  <2>7. /\ shell'.pc = "frontend" /\ shell'.stage = shell.stage /\ shell' \in ShellRecords
        /\ shell'.sfm = shell.sfm /\ shell'.force = shell.force
    BY <1>3, <2>6 DEF ShellRecords
  <2>8. ShellTyped' /\ ImportInFull' /\ ForcedImport'
    BY <1>1, <1>5, <2>7 DEF ShellTyped, ImportInFull, ForcedImport, SessionInv
  <2>9. SfmInv'
    BY <1>3, <2>5, <2>7 DEF SfmInv, Trusted
  <2> QED
    BY <1>2, <2>8, <2>9 DEF SessionInv
<1>6. CASE run'.pc = "idle" /\ ~(manifest'.status = "completed" /\ faults' = faults)
  BY <1>1, <1>2, <1>6, NoShellTyped, WithoutSfm DEF ImportInFull, ForcedImport
<1> QED
  BY <1>4, <1>5, <1>6

\* A script that ends, one way or the other.
LEMMA ScriptEnds ==
  ASSUME SessionInv, shell' = NoShell, UNCHANGED <<importVars, maps>>,
         faults' \in 0 .. MaxFaults
  PROVE  SessionInv'
BY ImportKept, NoShellTyped, WithoutSfm DEF SessionInv, ImportInFull, ForcedImport

LEMMA RefusesCorrect ==
  ASSUME SessionInv, NEW from, Refuses(from)
  PROVE  SessionInv'
BY ScriptEnds DEF Refuses, SessionInv, ImportInv, ImportTyped

LEMMA ToolFailsCorrect ==
  ASSUME SessionInv, ToolFails
  PROVE  SessionInv'
BY ScriptEnds, OneMoreFault DEF ToolFails, SessionInv

\* A step of a script, but for what it means to sfm.
LEMMA ScriptKeeps ==
  ASSUME SessionInv, shell.pc \notin {"idle", "import"}, UNCHANGED <<importVars, faults>>,
         maps' \in MapRecords, maps'.m04.state # "copied",
         shell' \in ShellRecords,
         shell'.pc # "import", SfmInv'
  PROVE  SessionInv'
<1>1. ImportInv'
  BY ImportKept DEF SessionInv, ImportInv, ImportTyped
<1>2. run.pc = "idle" /\ run' = run
  BY DEF SessionInv, ShellTyped, importVars
<1> QED
  BY <1>1, <1>2 DEF SessionInv, ShellTyped, ImportInFull, ForcedImport

LEMMA StartScriptCorrect ==
  ASSUME SessionInv, StartScript
  PROVE  SessionInv'
<1>1. /\ ~shell'.sfm /\ shell'.pc # "import"
      /\ shell' \in ShellRecords
  <2>1. CASE \E pc \in {"frontend", "loops"}, force \in BOOLEAN :
               shell' = [NoShell EXCEPT !.pc = pc, !.force = force]
    BY <2>1, NoShellTyped DEF ScriptPCs, ShellPCs, ShellRecords
  <2>2. CASE \E stage \in {"auto", "initial", "final"} :
               shell' = [NoShell EXCEPT !.pc = "poses", !.stage = stage]
    BY <2>2, NoShellTyped DEF ScriptPCs, ShellPCs, ShellRecords
  <2> QED
    BY <2>1, <2>2 DEF StartScript
<1>2. run.pc = "idle" /\ UNCHANGED <<importVars, faults, maps>>
  BY DEF StartScript
<1>3. ImportInv'
  BY <1>2, ImportKept DEF SessionInv, ImportInv, ImportTyped
<1>4. run' = run
  BY <1>2 DEF importVars
<1> QED
  BY <1>1, <1>2, <1>3, <1>4
     DEF SessionInv, ShellTyped, ImportInFull, ForcedImport, SfmInv, Trusted

LEMMA ImportedKept ==
  ASSUME UNCHANGED importVars, Imported
  PROVE  Imported'
<1>1. UNCHANGED <<recording, files, run>>
  BY DEF importVars
<1>2. ASSUME HasImages, NEW s \in 1 .. 4 PROVE Import!MadeFrom(s, recording)'
  <2>1. Import!MadeFrom(s, recording)
    BY <1>2 DEF Imported
  <2> QED
    BY <1>1, <2>1, SameFiles
<1> QED
  BY <1>1, <1>2 DEF Imported, HasImages

\* What a step of a script finds, and what it leaves but for the maps.
LEMMA DoesIs ==
  ASSUME SessionInv, NEW from \in ScriptPCs,
         NEW to \in ScriptPCs, NEW changed, Does(from, to, changed)
  PROVE  /\ maps \in MapRecords /\ maps' = changed
         /\ maps.m04.state # "copied"
         /\ shell.pc = from /\ shell'.pc = to /\ shell'.stage = shell.stage
         /\ shell'.poses = shell.poses /\ (Trusted' <=> Trusted)
         /\ recording' = recording /\ (HasImages' <=> HasImages)
         /\ Trusted => Imported'
         /\ changed \in MapRecords /\ changed.m04.state # "copied" /\ SfmInv' => SessionInv'
<1> USE DEF ScriptPCs
<1>1. /\ shell.pc = from /\ maps' = changed /\ shell' = [shell EXCEPT !.pc = to]
      /\ UNCHANGED <<importVars, faults>>
  BY DEF Does, Goto
<1>2. maps \in MapRecords /\ maps.m04.state # "copied" /\ shell \in ShellRecords
  BY DEF SessionInv, ShellTyped
<1>3. /\ shell'.pc = to /\ shell'.sfm = shell.sfm /\ shell'.force = shell.force
      /\ shell'.stage = shell.stage /\ shell'.poses = shell.poses
      /\ shell' \in ShellRecords
  BY <1>1, <1>2 DEF ShellRecords
<1>4. Trusted' <=> Trusted
  BY <1>3 DEF Trusted
<1>5. HasImages' <=> HasImages
  BY <1>1 DEF HasImages, importVars
<1>6. Trusted => Imported'
  <2>1. Trusted => Imported
    BY <1>1 DEF SessionInv, SfmInv
  <2>2. Imported => Imported'
    BY <1>1, ImportedKept
  <2> QED
    BY <2>1, <2>2
<1> QED
  BY <1>1, <1>2, <1>3, <1>4, <1>5, <1>6, ScriptKeeps DEF importVars

LEMMA FrontendCorrect ==
  ASSUME SessionInv, Frontend
  PROVE  SessionInv'
<1> DEFINE changed == IF shell.force
                      THEN [maps EXCEPT !.features = Empty, !.m04 = Missing]
                      ELSE [maps EXCEPT !.features = IF Exists(@) THEN @ ELSE Empty]
<1>1. CASE FrontendRefused /\ Refuses("frontend")
  BY <1>1, RefusesCorrect
<1>2. CASE Does("frontend", "features", changed)
  <2>1. "frontend" \in ScriptPCs /\ "features" \in ScriptPCs
    BY DEF ScriptPCs, ShellPCs
  <2>2. maps \in MapRecords /\ maps.m04.state # "copied"
    BY DEF SessionInv, ShellTyped
  <2>3. changed \in MapRecords /\ changed.m04.state # "copied"
    BY <2>2, MapDirectories DEF MapRecords, Missing
  <2> HIDE DEF changed
  <2>4. SfmInv'
    BY <1>2, <2>1, DoesIs DEF SfmInv, SessionInv
  <2> QED
    BY <1>2, <2>1, <2>3, <2>4, DoesIs
<1> QED
  BY <1>1, <1>2 DEF Frontend

LEMMA ExtractFeaturesCorrect ==
  ASSUME SessionInv, ExtractFeatures
  PROVE  SessionInv'
<1> DEFINE sources == files.images.of \cup files.normalized["keyframes.csv"]
           changed == [maps EXCEPT !.features = At("exported", sources)]
<1>1. CASE Refuses("features")
  BY <1>1, RefusesCorrect
<1>2. CASE ImagesReadable /\ Does("features", "initial_ba", changed)
  <2>1. "features" \in ScriptPCs /\ "initial_ba" \in ScriptPCs
    BY DEF ScriptPCs, ShellPCs
  <2>2. maps \in MapRecords /\ maps.m04.state # "copied" /\ shell.pc = "features"
    BY <1>2, <2>1, DoesIs
  <2>3. sources \in SUBSET Recordings
    BY NormalizedNames
       DEF SessionInv, ImportInv, ImportTyped, FileRecords, Import!Directories
  <2>4. Trusted => HasImages /\ sources = {recording}
    <3>1. files.listed
      BY <1>2 DEF ImagesReadable
    <3> QED
      BY <2>2, <3>1, FilesOfSfm, NormalizedNames DEF Import!Whole
  <2> HIDE DEF sources
  <2>5. /\ changed \in MapRecords /\ changed.m04.state # "copied"
        /\ changed.features = At("exported", sources)
    BY <2>2, <2>3, MapDirectories DEF MapRecords
  <2>6. Trusted => HasImages /\ changed.features.of = {recording}
    BY <2>4, <2>5 DEF At
  <2> HIDE DEF changed
  <2>7. SfmInv'
    <3>1. /\ maps' = changed /\ shell'.pc = "initial_ba" /\ (Trusted' <=> Trusted)
          /\ shell'.stage = shell.stage /\ recording' = recording
          /\ (HasImages' <=> HasImages) /\ (Trusted => Imported')
      BY <1>2, <2>1, DoesIs
    <3>2. Trusted => shell.stage \in {"auto", "initial"}
      BY <2>2 DEF SessionInv, SfmInv
    <3> QED
      BY <2>6, <3>1, <3>2 DEF SfmInv
  <2> QED
    BY <1>2, <2>1, <2>5, <2>7, DoesIs
<1> QED
  BY <1>1, <1>2 DEF ExtractFeatures

LEMMA InitialBACorrect ==
  ASSUME SessionInv, InitialBA
  PROVE  SessionInv'
<1>1. CASE Refuses("initial_ba")
  BY <1>1, RefusesCorrect
<1>2. CASE Does("initial_ba", "make_stage", maps)
  <2>1. "initial_ba" \in ScriptPCs /\ "make_stage" \in ScriptPCs
    BY DEF ScriptPCs, ShellPCs
  <2>2. SfmInv'
    BY <1>2, <2>1, DoesIs DEF SfmInv, SessionInv
  <2> QED
    BY <1>2, <2>1, <2>2, DoesIs
<1> QED
  BY <1>1, <1>2 DEF InitialBA

LEMMA MakeStageCorrect ==
  ASSUME SessionInv, MakeStage
  PROVE  SessionInv'
<1> DEFINE changed == [maps EXCEPT !.m04 = Empty]
<1>1. Does("make_stage", "move_map", changed)
  BY DEF MakeStage
<1>2. "make_stage" \in ScriptPCs /\ "move_map" \in ScriptPCs
  BY DEF ScriptPCs, ShellPCs
<1>3. /\ changed \in MapRecords /\ changed.m04.state # "copied"
      /\ changed.features = maps.features
  BY <1>1, <1>2, DoesIs, MapDirectories DEF MapRecords, Empty
<1> HIDE DEF changed
<1>4. SfmInv'
  BY <1>1, <1>2, <1>3, DoesIs DEF SfmInv, SessionInv
<1> QED
  BY <1>1, <1>2, <1>3, <1>4, DoesIs

LEMMA MoveMapCorrect ==
  ASSUME SessionInv, MoveMap
  PROVE  SessionInv'
<1> DEFINE sources == files.vimap.of \cup maps.features.of
           changed == [maps EXCEPT !.m04 = At("optimized", sources)]
<1>1. Does("move_map", "export_04", changed)
  BY DEF MoveMap
<1>2. "move_map" \in ScriptPCs /\ "export_04" \in ScriptPCs
  BY DEF ScriptPCs, ShellPCs
<1>3. maps \in MapRecords /\ maps.m04.state # "copied" /\ shell.pc = "move_map"
  BY <1>1, <1>2, DoesIs
<1>4. sources \in SUBSET Recordings
  BY <1>3 DEF SessionInv, ImportInv, ImportTyped, FileRecords, Import!Directories,
              MapRecords, MapDirs
<1>5. Trusted => sources = {recording} /\ maps.features.of = {recording}
  BY <1>3, FilesOfSfm DEF Import!Whole, SessionInv, SfmInv
<1> HIDE DEF sources
<1>6. /\ changed \in MapRecords /\ changed.m04 = At("optimized", sources)
      /\ changed.features = maps.features
  BY <1>3, <1>4, MapDirectories DEF MapRecords
<1>7. changed.m04.state # "copied"
  BY <1>6 DEF At
<1> HIDE DEF changed
<1>8. SfmInv'
  BY <1>1, <1>2, <1>5, <1>6, DoesIs DEF SfmInv, SessionInv
<1> QED
  BY <1>1, <1>2, <1>6, <1>7, <1>8, DoesIs

LEMMA ExportInitialCorrect ==
  ASSUME SessionInv, ExportInitial
  PROVE  SessionInv'
<1> DEFINE changed == [maps EXCEPT !.m04.state = "exported"]
<1>1. Does("export_04", AfterFrontend, changed)
  BY DEF ExportInitial
<1>2. "export_04" \in ScriptPCs /\ AfterFrontend \in ScriptPCs
  BY DEF ScriptPCs, ShellPCs, AfterFrontend
<1>3. maps \in MapRecords /\ maps.m04.state # "copied" /\ shell.pc = "export_04"
  BY <1>1, <1>2, DoesIs
<1>4. /\ changed \in MapRecords /\ changed.m04.state # "copied"
      /\ changed.features = maps.features
      /\ changed.m04 = [maps.m04 EXCEPT !.state = "exported"]
  BY <1>3 DEF MapRecords, MapDirs
<1>5. Trusted => /\ maps.m04 = At("optimized", {recording})
                 /\ maps.features.of = {recording} /\ HasImages
                 /\ shell.stage \in {"auto", "initial"}
  BY <1>3 DEF SessionInv, SfmInv
<1>6. Trusted => changed.m04 = At("exported", {recording})
  BY <1>4, <1>5 DEF At
<1>7. Trusted => AfterFrontend = IF shell.stage = "initial" THEN "poses" ELSE "loops"
  BY DEF AfterFrontend, Trusted
<1> HIDE DEF changed
<1>8. SfmInv'
  <2>1. /\ maps' = changed /\ shell'.pc = AfterFrontend /\ (Trusted' <=> Trusted)
        /\ shell'.stage = shell.stage /\ recording' = recording
        /\ (HasImages' <=> HasImages) /\ (Trusted => Imported')
    BY <1>1, <1>2, DoesIs
  <2>2. Trusted => /\ shell'.pc \in {"poses", "loops"}
                   /\ shell'.pc = "poses" => shell.stage = "initial"
    BY <1>5, <1>7, <2>1
  <2>3. CASE ~Trusted
    BY <2>1, <2>3 DEF SfmInv
  <2>4. CASE Trusted
    <3>1. Imported'
      BY <2>1, <2>4
    <3>2. HasImages'
      BY <1>5, <2>1, <2>4
    <3>3. /\ shell'.stage \in {"auto", "initial"}
          /\ shell'.pc \in {"poses", "loops"}
          /\ shell'.pc = "poses" => shell'.stage = "initial"
          /\ maps'.features.of = {recording'}
          /\ maps'.m04 = At("exported", {recording'})
      BY <1>4, <1>5, <1>6, <2>1, <2>2, <2>4
    <3> QED
      BY <3>1, <3>2, <3>3 DEF SfmInv
  <2> QED
    BY <2>3, <2>4
<1> QED
  BY <1>1, <1>2, <1>4, <1>8, DoesIs

LEMMA LoopClosureCorrect ==
  ASSUME SessionInv, LoopClosure
  PROVE  SessionInv'
<1> DEFINE changed == [maps EXCEPT !.loops = Empty, !.m08 = Empty]
<1>1. CASE Refuses("loops")
  BY <1>1, RefusesCorrect
<1>2. CASE Does("loops", "search", changed)
  <2>1. "loops" \in ScriptPCs /\ "search" \in ScriptPCs
    BY DEF ScriptPCs, ShellPCs
  <2>2. /\ changed \in MapRecords /\ changed.m04 = maps.m04 /\ changed.m08 = Empty
        /\ changed.features = maps.features
    BY <1>2, <2>1, DoesIs, MapDirectories DEF MapRecords
  <2> HIDE DEF changed
  <2>3. SfmInv'
    BY <1>2, <2>1, <2>2, DoesIs DEF SfmInv, SessionInv
  <2> QED
    BY <1>2, <2>1, <2>2, <2>3, DoesIs
<1> QED
  BY <1>1, <1>2 DEF LoopClosure

LEMMA SearchLoopsCorrect ==
  ASSUME SessionInv, SearchLoops
  PROVE  SessionInv'
<1> DEFINE changed == [maps EXCEPT !.loops.state = "exported"]
<1>1. CASE Refuses("search")
  BY <1>1, RefusesCorrect
<1>2. CASE \E next \in {AfterLoops, "relax"} : Does("search", next, changed)
  <2>1. PICK next \in {AfterLoops, "relax"} : Does("search", next, changed)
    BY <1>2
  <2>2. /\ "search" \in ScriptPCs /\ next \in ScriptPCs
        /\ Trusted => next \in {"poses", "relax"}
    BY DEF ScriptPCs, ShellPCs, AfterLoops, Trusted
  <2>3. /\ changed \in MapRecords /\ changed.m04 = maps.m04 /\ changed.m08 = maps.m08
        /\ changed.features = maps.features
    BY <2>1, <2>2, DoesIs DEF MapRecords, MapDirs
  <2> HIDE DEF changed
  <2>4. SfmInv'
    BY <2>1, <2>2, <2>3, DoesIs DEF SfmInv, SessionInv
  <2> QED
    BY <2>1, <2>2, <2>3, <2>4, DoesIs
<1> QED
  BY <1>1, <1>2 DEF SearchLoops

LEMMA RelaxAndFuseCorrect ==
  ASSUME SessionInv, RelaxAndFuse
  PROVE  SessionInv'
<1>1. Does("relax", "copy_08", maps)
  BY DEF RelaxAndFuse
<1>2. "relax" \in ScriptPCs /\ "copy_08" \in ScriptPCs
  BY DEF ScriptPCs, ShellPCs
<1>3. SfmInv'
  BY <1>1, <1>2, DoesIs DEF SfmInv, SessionInv
<1> QED
  BY <1>1, <1>2, <1>3, DoesIs

LEMMA CopyRelaxedMapCorrect ==
  ASSUME SessionInv, CopyRelaxedMap
  PROVE  SessionInv'
<1> DEFINE sources == maps.m04.of \cup maps.features.of
           changed == [maps EXCEPT !.m08 = At("copied", sources)]
<1>1. Does("copy_08", "final_ba", changed)
  BY DEF CopyRelaxedMap
<1>2. "copy_08" \in ScriptPCs /\ "final_ba" \in ScriptPCs
  BY DEF ScriptPCs, ShellPCs
<1>3. maps \in MapRecords /\ maps.m04.state # "copied" /\ shell.pc = "copy_08"
  BY <1>1, <1>2, DoesIs
<1>4. sources \in SUBSET Recordings
  BY <1>3 DEF MapRecords, MapDirs
<1>5. Trusted => /\ maps.m04 = At("exported", {recording})
                 /\ maps.features.of = {recording} /\ HasImages
  BY <1>3 DEF SessionInv, SfmInv
<1>6. Trusted => sources = {recording}
  BY <1>5 DEF At
<1> HIDE DEF sources
<1>7. /\ changed \in MapRecords /\ changed.m04 = maps.m04
      /\ changed.m08 = At("copied", sources) /\ changed.features = maps.features
  BY <1>3, <1>4, MapDirectories DEF MapRecords
<1> HIDE DEF changed
<1>8. SfmInv'
  <2>1. /\ maps' = changed /\ shell'.pc = "final_ba" /\ (Trusted' <=> Trusted)
        /\ shell'.stage = shell.stage /\ recording' = recording
        /\ (HasImages' <=> HasImages) /\ (Trusted => Imported')
    BY <1>1, <1>2, DoesIs
  <2>2. Trusted => shell.stage \in {"auto", "initial"}
    BY <1>3 DEF SessionInv, SfmInv
  <2> QED
    BY <1>5, <1>6, <1>7, <2>1, <2>2 DEF SfmInv
<1> QED
  BY <1>1, <1>2, <1>3, <1>7, <1>8, DoesIs

LEMMA FinalBACorrect ==
  ASSUME SessionInv, FinalBA
  PROVE  SessionInv'
<1> DEFINE changed == [maps EXCEPT !.m08.state = "optimized"]
<1>1. Does("final_ba", "export_08", changed)
  BY DEF FinalBA
<1>2. "final_ba" \in ScriptPCs /\ "export_08" \in ScriptPCs
  BY DEF ScriptPCs, ShellPCs
<1>3. maps \in MapRecords /\ maps.m04.state # "copied" /\ shell.pc = "final_ba"
  BY <1>1, <1>2, DoesIs
<1>4. /\ changed \in MapRecords /\ changed.m04 = maps.m04
      /\ changed.m08 = [maps.m08 EXCEPT !.state = "optimized"]
      /\ changed.features = maps.features
  BY <1>3 DEF MapRecords, MapDirs
<1>5. Trusted => maps.m08 = At("copied", {recording})
  BY <1>3 DEF SessionInv, SfmInv
<1>6. Trusted => changed.m08 = At("optimized", {recording})
  BY <1>4, <1>5 DEF At
<1> HIDE DEF changed
<1>7. SfmInv'
  <2>1. /\ maps' = changed /\ shell'.pc = "export_08" /\ (Trusted' <=> Trusted)
        /\ shell'.stage = shell.stage /\ recording' = recording
        /\ (HasImages' <=> HasImages) /\ (Trusted => Imported')
    BY <1>1, <1>2, DoesIs
  <2>2. Trusted => /\ shell.stage \in {"auto", "initial"}
                   /\ maps.features.of = {recording} /\ HasImages
                   /\ maps.m04 = At("exported", {recording})
    BY <1>3 DEF SessionInv, SfmInv
  <2> QED
    BY <1>2, <1>4, <1>6, <2>1, <2>2 DEF SfmInv
<1> QED
  BY <1>1, <1>2, <1>3, <1>4, <1>7, DoesIs

LEMMA ExportFinalCorrect ==
  ASSUME SessionInv, ExportFinal
  PROVE  SessionInv'
<1> DEFINE changed == [maps EXCEPT !.m08.state = "exported"]
<1>1. Does("export_08", AfterLoops, changed)
  BY DEF ExportFinal
<1>2. /\ "export_08" \in ScriptPCs /\ AfterLoops \in ScriptPCs
      /\ Trusted => AfterLoops = "poses"
  BY DEF ScriptPCs, ShellPCs, AfterLoops, Trusted
<1>3. maps \in MapRecords /\ maps.m04.state # "copied" /\ shell.pc = "export_08"
  BY <1>1, <1>2, DoesIs
<1>4. /\ changed \in MapRecords /\ changed.m04 = maps.m04
      /\ changed.m08 = [maps.m08 EXCEPT !.state = "exported"]
      /\ changed.features = maps.features
  BY <1>3 DEF MapRecords, MapDirs
<1>5. Trusted => maps.m08 = At("optimized", {recording})
  BY <1>3 DEF SessionInv, SfmInv
<1>6. Trusted => changed.m08 = At("exported", {recording})
  BY <1>4, <1>5 DEF At
<1> HIDE DEF changed
<1>7. SfmInv'
  <2>1. /\ maps' = changed /\ shell'.pc = AfterLoops /\ (Trusted' <=> Trusted)
        /\ shell'.stage = shell.stage /\ recording' = recording
        /\ (HasImages' <=> HasImages) /\ (Trusted => Imported')
    BY <1>1, <1>2, DoesIs
  <2>2. Trusted => /\ shell.stage \in {"auto", "initial"}
                   /\ maps.features.of = {recording} /\ HasImages
                   /\ maps.m04 = At("exported", {recording})
    BY <1>3 DEF SessionInv, SfmInv
  <2> QED
    BY <1>2, <1>4, <1>6, <2>1, <2>2 DEF SfmInv
<1> QED
  BY <1>1, <1>2, <1>3, <1>4, <1>7, DoesIs

LEMMA ChosenIs ==
  ASSUME shell.stage \in {"auto", "initial", "final"}
  PROVE  /\ shell.stage = "final" => Chosen = maps.m08
         /\ shell.stage = "initial" => Chosen = maps.m04
         /\ shell.stage = "auto" => Chosen = IF HasMap(maps.m08) THEN maps.m08 ELSE maps.m04
BY DEF Chosen

\* sfm chooses a map that is optimized and exported, of its recording.
LEMMA ChosenOfSfm ==
  ASSUME SessionInv, Trusted, shell.pc \in {"poses", "show_poses"}
  PROVE  Chosen = At("exported", {recording})
<1>1. /\ shell.stage \in {"auto", "initial"} /\ maps.m04 = At("exported", {recording})
      /\ shell.stage = "auto" => maps.m08 \in {Empty, At("exported", {recording})}
  BY DEF SessionInv, SfmInv
<1>2. ~HasMap(Empty)
  BY DEF HasMap, Empty
<1> QED
  BY <1>1, <1>2, ChosenIs

LEMMA WritePosesCorrect ==
  ASSUME SessionInv, WritePoses
  PROVE  SessionInv'
<1>1. CASE Refuses("poses")
  BY <1>1, RefusesCorrect
<1>2. CASE ~Refuses("poses")
  <2> DEFINE sources == Chosen.of \cup files.normalized["frames.csv"]
             poses == At(Chosen.state, sources)
  <2>1. /\ shell.pc = "poses" /\ shell' = [shell EXCEPT !.pc = "show_poses", !.poses = poses]
        /\ UNCHANGED <<importVars, faults, maps>>
    BY <1>2 DEF WritePoses
  <2>2. /\ maps \in MapRecords /\ maps.m04.state # "copied"
        /\ shell \in ShellRecords
    BY DEF SessionInv, ShellTyped
  <2>3. Chosen \in MapDirs
    BY <2>2, ChosenIs DEF MapRecords, ShellRecords
  <2>4. sources \in SUBSET Recordings
    BY <2>3, NormalizedNames DEF MapDirs, SessionInv, ImportInv, ImportTyped, FileRecords
  <2>5. poses \in MapDirs
    <3>1. Chosen.state \in {"missing", "empty", "copied", "optimized", "exported"}
      BY <2>3 DEF MapDirs
    <3> HIDE DEF sources
    <3> QED
      BY <2>4, <3>1, MapDirectories
  <2>6. Trusted => poses = At("exported", {recording}) /\ Chosen = At("exported", {recording})
    <3>1. SUFFICES ASSUME Trusted
                   PROVE  poses = At("exported", {recording})
                            /\ Chosen = At("exported", {recording})
      OBVIOUS
    <3>2. Chosen = At("exported", {recording})
      BY <2>1, <3>1, ChosenOfSfm
    <3>3. HasImages
      BY <2>1, <3>1 DEF SessionInv, SfmInv
    <3>4. files.normalized["frames.csv"] = {recording}
      BY <2>1, <3>1, <3>3, FilesOfSfm, NormalizedNames
    <3> QED
      BY <3>2, <3>4 DEF At
  <2> HIDE DEF poses
  <2>7. /\ shell'.pc = "show_poses" /\ (Trusted' <=> Trusted) /\ shell'.stage = shell.stage
        /\ shell'.sfm = shell.sfm /\ shell'.force = shell.force
        /\ shell'.poses = poses
        /\ shell' \in ShellRecords
    <3>1. "show_poses" \in ShellPCs
      BY DEF ScriptPCs, ShellPCs
    <3> QED
      BY <2>1, <2>2, <2>5, <3>1 DEF ShellRecords, Trusted
  <2>8. Trusted => Imported'
    <3>1. Trusted => Imported
      BY <2>1 DEF SessionInv, SfmInv
    <3> QED
      BY <2>1, <3>1, ImportedKept
  <2>9. Trusted => /\ shell.stage \in {"auto", "initial"}
                   /\ HasImages /\ maps.features.of = {recording}
                   /\ maps.m04 = At("exported", {recording})
                   /\ shell.stage = "auto" => maps.m08 \in {Empty, At("exported", {recording})}
    BY <2>1 DEF SessionInv, SfmInv
  <2>10. maps' = maps /\ recording' = recording /\ (HasImages' <=> HasImages)
    BY <2>1 DEF importVars, HasImages
  <2>11. Chosen' = Chosen
    BY <2>7, <2>10 DEF Chosen
  <2>12. Trusted => shell'.poses = At(Chosen'.state, {recording})
    BY <2>6, <2>7, <2>11 DEF At
  <2>13. SfmInv'
    <3>1. CASE ~Trusted
      BY <2>7, <3>1 DEF SfmInv
    <3>2. CASE Trusted
      <4>1. Imported'
        BY <2>8, <3>2
      <4>2. HasImages'
        BY <2>9, <2>10, <3>2
      <4>3. /\ shell'.stage \in {"auto", "initial"} /\ shell'.pc = "show_poses"
            /\ maps'.features.of = {recording'}
            /\ maps'.m04 = At("exported", {recording'})
            /\ shell'.stage = "auto" => maps'.m08 \in {Empty, At("exported", {recording'})}
            /\ shell'.poses = At(Chosen'.state, {recording'})
        BY <2>7, <2>9, <2>10, <2>12, <3>2
      <4> QED
        BY <4>1, <4>2, <4>3 DEF SfmInv
    <3> QED
      BY <3>1, <3>2
  <2> QED
    BY <2>1, <2>2, <2>7, <2>10, <2>13, ScriptKeeps
<1> QED
  BY <1>1, <1>2

LEMMA ShowPosesCorrect ==
  ASSUME SessionInv, ShowPoses
  PROVE  SessionInv'
<1>1. CASE Refuses("show_poses")
  BY <1>1, RefusesCorrect
<1>2. CASE Chosen.state = "exported" /\ Does("show_poses", "done", maps)
  <2>1. "show_poses" \in ScriptPCs /\ "done" \in ScriptPCs
    BY DEF ScriptPCs, ShellPCs
  <2>2. SfmInv'
    BY <1>2, <2>1, DoesIs DEF SfmInv, SessionInv
  <2> QED
    BY <1>2, <2>1, <2>2, DoesIs
<1> QED
  BY <1>1, <1>2 DEF ShowPoses

LEMMA ExitZeroCorrect ==
  ASSUME SessionInv, ExitZero
  PROVE  SessionInv'
BY ScriptEnds DEF ExitZero, SessionInv, ImportInv, ImportTyped

-----------------------------------------------------------------------------
(* The whole system.                                                       *)

LEMMA SessionBegins ==
  ASSUME Init
  PROVE  SessionInv
<1>1. ImportInv /\ run.pc = "idle"
  BY ImportBegins DEF Init, Import!Init, Import!NoRun
<1>2. maps \in MapRecords /\ maps.m04.state # "copied"
  BY MapDirectories DEF Init, MapRecords, Missing
<1> QED
  BY <1>1, <1>2, NoShellTyped
     DEF Init, SessionInv, ShellTyped, ImportInFull, ForcedImport, SfmInv

LEMMA SessionStepCorrect ==
  ASSUME SessionInv, [Next]_vars
  PROVE  SessionInv'
<1>1. CASE ImportAlone \/ StartSfm \/ ImportInSfm \/ StartScript \/ ToolFails
  BY <1>1, ImportAloneCorrect, StartSfmCorrect, ImportInSfmCorrect, StartScriptCorrect,
     ToolFailsCorrect
<1>2. CASE ScriptStep
  BY <1>2, FrontendCorrect, ExtractFeaturesCorrect, InitialBACorrect, MakeStageCorrect,
     MoveMapCorrect, ExportInitialCorrect, LoopClosureCorrect, SearchLoopsCorrect,
     RelaxAndFuseCorrect, CopyRelaxedMapCorrect, FinalBACorrect, ExportFinalCorrect,
     WritePosesCorrect, ShowPosesCorrect, ExitZeroCorrect
     DEF ScriptStep
<1>3. CASE UNCHANGED vars
  <2>1. ImportInv'
    BY <1>3, ImportKept DEF vars, importVars, SessionInv, ImportInv, ImportTyped
  <2>2. ShellTyped' /\ ImportInFull'
    BY <1>3 DEF vars, SessionInv, ShellTyped, ImportInFull
  <2>3. ForcedImport'
    <3>1. SUFFICES ASSUME shell.pc = "import", shell.force PROVE ForcedRun'
      BY <1>3 DEF vars, ForcedImport
    <3>2. ForcedRun
      BY <3>1 DEF SessionInv, ForcedImport
    <3>3. UNCHANGED <<recording, files, run>>
      BY <1>3 DEF vars
    <3>4. MadeHere' = MadeHere
      BY <3>3 DEF MadeHere, Validated, Placed, InPlace, Created, Exported
    <3>5. ASSUME HasImages, NEW s \in 1 .. run.stage - 1
          PROVE  Import!MadeFrom(s, recording)'
      <4>1. s \in 1 .. 4 /\ Import!MadeFrom(s, recording)
        BY <3>2, <3>5 DEF ForcedRun, MadeSoFar, SessionInv, ImportInv, ImportTyped, RunRecords
      <4> QED
        BY <3>3, <4>1, SameFiles
    <3>6. HasImages => MadeSoFar'
      BY <3>2, <3>3, <3>4, <3>5 DEF ForcedRun, MadeSoFar, Import!Working
    <3>7. ~HasImages => Unlisted'
      BY <3>2, <3>3 DEF ForcedRun, Unlisted
    <3> QED
      BY <3>3, <3>6, <3>7 DEF ForcedRun, HasImages
  <2>4. SfmInv'
    <3>1. Imported => Imported'
      BY <1>3, ImportedKept DEF vars, importVars
    <3>2. Chosen' = Chosen
      BY <1>3 DEF vars, Chosen
    <3>3. (Trusted' <=> Trusted) /\ (HasImages' <=> HasImages)
      BY <1>3 DEF vars, Trusted, HasImages
    <3> QED
      BY <1>3, <3>1, <3>2, <3>3 DEF vars, SessionInv, SfmInv
  <2> QED
    BY <2>1, <2>2, <2>3, <2>4 DEF SessionInv
<1> QED
  BY <1>1, <1>2, <1>3 DEF Next

\* The inductive invariant holds, whatever the calls: the types, the order of the steps
\* of a stage, and what a forced import and an sfm that follows it have made so far
\* (pipeline.py:862, run_stage; process.sh:15).  Where the calls are fit, it says also
\* that the records are honest, and what any stage or sfm has made so far.
THEOREM SessionStaysInOrder == Spec => []SessionInv
<1>1. Init => SessionInv
  BY SessionBegins
<1>2. SessionInv /\ [Next]_vars => SessionInv'
  BY SessionStepCorrect
<1> QED
  BY <1>1, <1>2, PTL DEF Spec

LEMMA SessionTyped ==
  ASSUME SessionInv
  PROVE  TypeOK
<1>1. Import!TypeOK
  BY StageNames
     DEF SessionInv, ImportInv, ImportTyped, ManifestTyped, RecordTyped, FileRecords,
         RunRecords, Import!TypeOK
<1> QED
  BY <1>1 DEF SessionInv, ShellTyped, ShellRecords, MapRecords, TypeOK

\* If the calls have been fit, a stage whose record says "completed" has the directories
\* and reports that the record describes, after exceptions, interrupted first runs,
\* changes of the input and calls that end after any stage (pipeline.py:862, run_stage).
\* Whether keyframes.csv still lists the images, the record does not say.
THEOREM RecordsAreHonest ==
  ASSUME CallsAreFit
  PROVE  Spec => []RecordsHonest
<1>1. SessionInv => RecordsHonest
  BY SessionTyped DEF SessionInv, ImportInv, RecordsInv, RecordsHonest
<1> QED
  BY <1>1, SessionStaysInOrder, PTL

\* If the calls have been fit, a run over all stages that reports success has made every
\* output from the recording it was called with, whichever stages it skipped, and has
\* listed the images if it was forced (pipeline.py:929, main); and sfm, when it succeeds,
\* has exported the poses of its recording from a map that was optimized to the end
\* (process.sh:15).  Calls of sfm without --force need this assumption, since they skip
\* what earlier calls have recorded; ForcedSfmSucceeds does without it.
THEOREM SuccessesAreCurrent ==
  ASSUME CallsAreFit
  PROVE  Spec => SuccessIsCurrent
<1>1. SessionInv /\ run.pc = "next" /\ run.stage > Len(Import!STAGES)
        => /\ \A s \in Import!Stages : Import!MadeFrom(s, recording)
           /\ run.force => Import!ImagesListed(recording)
  <2>1. SUFFICES ASSUME SessionInv, run.pc = "next", run.stage > Len(Import!STAGES)
                 PROVE  /\ \A s \in 1 .. 4 : Import!MadeFrom(s, recording)
                        /\ run.force => Import!ImagesListed(recording)
    BY StageNames
  <2>2. run.stage = 5
    BY <2>1, StageNames DEF SessionInv, ImportInv, ImportTyped, RunRecords
  <2>3. MadeSoFar /\ Listed
    BY <2>1, PassedIsMade DEF SessionInv, ImportInv, RecordsInv
  <2>4. \A s \in 1 .. 4 : Import!MadeFrom(s, recording)
    BY <2>2, <2>3 DEF MadeSoFar
  <2>5. run.force => Import!ImagesListed(recording)
    BY <2>1, <2>2, <2>3 DEF Listed, HasImages, Import!ImagesListed
  <2> QED
    BY <2>4, <2>5
<1>2. SessionInv /\ shell.pc = "done" /\ shell.sfm
        => shell.poses = At("exported", {recording})
  BY DEF SessionInv, SfmInv, Trusted
<1>3. Spec => CompletedIsCurrent
  BY <1>1, SessionStaysInOrder, PTL
     DEF CompletedIsCurrent, Import!CompletedIsCurrent, Import!ImportSucceeds
<1>4. Spec => SfmIsCurrent
  BY <1>2, SessionStaysInOrder, PTL DEF SfmIsCurrent
<1> QED
  BY <1>3, <1>4 DEF SuccessIsCurrent

\* sfm --force, when it succeeds, has exported the poses of its recording from a map that
\* was optimized to the end (process.sh:15), whatever calls came before and wherever they
\* were killed, and whether or not the recordings have images: nothing is assumed.
THEOREM ForcedSfmSucceeds == Spec => ForcedSfmIsCurrent
<1>1. SessionInv /\ shell.pc = "done" /\ shell.sfm /\ shell.force
        => shell.poses = At("exported", {recording})
  BY DEF SessionInv, SfmInv, Trusted
<1> QED
  BY <1>1, SessionStaysInOrder, PTL DEF ForcedSfmIsCurrent

=============================================================================
