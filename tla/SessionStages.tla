---------------------------- MODULE SessionStages ----------------------------
(***************************************************************************)
(* What one recording goes through after its import: learned features and  *)
(* the initial VI-BA (map 04), loop closure (maps 06 and 08) and the       *)
(* export of poses, as the shell scripts of the repository do it, one      *)
(* command at a time on one output directory.  "process.sh sfm" runs the   *)
(* import and the three scripts in a row and stops at the first that       *)
(* fails; each may also be called alone.                                   *)
(*                                                                         *)
(* Sources: process.sh, tools/sensor-recorder-features/                    *)
(* run_superpoint_lightglue.sh, tools/sensor-recorder-loop-closure/        *)
(* run_loop_closure.sh, tools/sensor-recorder-pipeline/run_pose_export.sh. *)
(*                                                                         *)
(* The scripts keep no manifest: what was done is read off the directories *)
(* that exist.  A native tool may fail, and a script may be killed, at any *)
(* step: both leave the files as they are (only the work directory in /tmp *)
(* is removed, which nobody else reads).                                   *)
(***************************************************************************)
EXTENDS Integers, Sequences

CONSTANTS Recordings, WithImages, Selections, MaxFaults, KillOverCompleted

ASSUME ImportAssumption ==
  /\ WithImages \subseteq Recordings
  /\ Selections \subseteq {s \in (1 .. 4) \X (1 .. 4) : s[1] <= s[2]}
  /\ MaxFaults \in Nat
  /\ KillOverCompleted \in BOOLEAN

VARIABLES recording, manifest, files, run, faults,
          maps,     \* the features, the loops and the maps 04 and 08
          shell     \* the script that runs, and the poses that it has written

importVars == <<recording, manifest, files, run>>
vars == <<recording, manifest, files, run, faults, maps, shell>>

Import == INSTANCE ImportPipeline

\* A stage directory may exist without a vi_map in it.  A vi_map is a copy of another
\* one until an optimization has saved it; the report and the export come last.
Missing == [state |-> "missing", of |-> {}]
Empty   == [state |-> "empty", of |-> {}]
At(state, sources) == [state |-> state, of |-> sources]
HasMap(dir) == dir.state \in {"copied", "optimized", "exported"}
Exists(dir) == dir.state # "missing"

NoShell == [pc |-> "idle", sfm |-> FALSE, force |-> FALSE, stage |-> "auto",
            poses |-> Missing]
Goto(pc) == shell' = [shell EXCEPT !.pc = pc]

Init ==
  /\ Import!Init
  /\ maps = [features |-> Missing, loops |-> Missing, m04 |-> Missing, m08 |-> Missing]
  /\ shell = NoShell

\* One effect of a script.
Does(from, to, changed) ==
  /\ shell.pc = from
  /\ maps' = changed
  /\ Goto(to)
  /\ UNCHANGED <<importVars, faults>>

\* exit 2, or set -e after a tool that failed.
Refuses(from) ==
  /\ shell.pc = from
  /\ shell' = NoShell
  /\ UNCHANGED <<importVars, faults, maps>>
-----------------------------------------------------------------------------
ImportAlone ==
  /\ shell.pc = "idle"
  /\ Import!Next
  /\ UNCHANGED <<maps, shell>>

StartSfm ==
  /\ shell.pc = "idle" /\ run.pc = "idle"
  /\ \E force \in BOOLEAN, skip_loops \in BOOLEAN :
       /\ run' = [pc |-> "next", stage |-> 1, to |-> 4, force |-> force]
       /\ shell' = [NoShell EXCEPT !.pc = "import", !.sfm = TRUE, !.force = force,
                                   !.stage = IF skip_loops THEN "initial" ELSE "auto"]
  /\ UNCHANGED <<recording, manifest, files, faults, maps>>

ImportInSfm ==
  /\ shell.pc = "import"
  /\ Import!Progress \/ Import!Raise \/ Import!Kill
  /\ shell' = IF run'.pc # "idle" THEN shell
              ELSE IF manifest'.status = "completed" /\ faults' = faults
                   THEN [shell EXCEPT !.pc = "frontend"]
                   ELSE NoShell
  /\ UNCHANGED maps

StartScript ==
  /\ shell.pc = "idle" /\ run.pc = "idle"
  /\ \/ \E pc \in {"frontend", "loops"}, force \in BOOLEAN :
          shell' = [NoShell EXCEPT !.pc = pc, !.force = force]
     \/ \E stage \in {"auto", "initial", "final"} :
          shell' = [NoShell EXCEPT !.pc = "poses", !.stage = stage]
  /\ UNCHANGED <<importVars, faults, maps>>
-----------------------------------------------------------------------------
\* run_superpoint_lightglue.sh --initial-vi-ba
FrontendRefusedAgain == files.vimap.state = "missing" \/ Exists(maps.m04)
FrontendRefused == files.vimap.state = "missing" \/ (Exists(maps.m04) /\ ~shell.force)

Frontend ==
  \/ FrontendRefused /\ Refuses("frontend")
  \/ /\ ~FrontendRefused
     /\ Does("frontend", "features",
             IF shell.force
             THEN [maps EXCEPT !.features = Empty, !.m04 = Missing]
             ELSE [maps EXCEPT !.features = IF Exists(@) THEN @ ELSE Empty])

\* The tools that look at images read their names from keyframes.csv (image_path).
ImagesReadable == files.listed /\ files.images.state = "whole"

\* The tool writes its files anew from the normalized recording.
ExtractFeatures ==
  \/ ~ImagesReadable /\ Refuses("features")
  \/ /\ ImagesReadable
     /\ Does("features", "initial_ba",
             [maps EXCEPT !.features =
                At("exported", files.images.of \cup files.normalized["keyframes.csv"])])

\* The map is copied to a work directory and optimized there.
InitialBA ==
  \/ files.vimap.state # "whole" /\ Refuses("initial_ba")
  \/ /\ files.vimap.state = "whole"
     /\ Does("initial_ba", "make_stage", maps)

MakeStage == Does("make_stage", "move_map", [maps EXCEPT !.m04 = Empty])
MoveMap ==
  Does("move_map", "export_04",
       [maps EXCEPT !.m04 = At("optimized", files.vimap.of \cup maps.features.of)])

AfterFrontend ==
  IF ~shell.sfm THEN "done" ELSE IF shell.stage = "initial" THEN "poses" ELSE "loops"
ExportInitial ==
  Does("export_04", AfterFrontend, [maps EXCEPT !.m04.state = "exported"])
-----------------------------------------------------------------------------
\* run_loop_closure.sh (without --run-visual-ba)
LoopsRefused ==
  ~HasMap(maps.m04) \/ (~shell.force /\ (Exists(maps.m08) \/ Exists(maps.loops)))

\* With --force both are removed, and without it neither exists.
LoopClosureOver ==
  \/ LoopsRefused /\ Refuses("loops")
  \/ /\ ~LoopsRefused
     /\ Does("loops", "search",
             [maps EXCEPT !.loops = Empty, !.m08 = IF Exists(@) THEN @ ELSE Empty])
LoopClosure ==
  \/ LoopsRefused /\ Refuses("loops")
  \/ /\ ~LoopsRefused
     /\ Does("loops", "search", [maps EXCEPT !.loops = Empty, !.m08 = Empty])

AfterLoops == IF shell.sfm THEN "poses" ELSE "done"

\* The search may find no loop, which is no error.
SearchLoops ==
  \/ ~ImagesReadable /\ Refuses("search")
  \/ /\ ImagesReadable
     /\ \E next \in {AfterLoops, "relax"} :
          Does("search", next, [maps EXCEPT !.loops.state = "exported"])

\* Map 06 is a copy of 04, relaxed and fused in place; only this script reads it.
RelaxAndFuse == Does("relax", "copy_08", maps)
CopyRelaxedMap ==
  Does("copy_08", "final_ba", [maps EXCEPT !.m08 = At("copied", maps.m04.of \cup maps.features.of)])
FinalBA ==
  Does("final_ba", "export_08", [maps EXCEPT !.m08.state = "optimized"])
ExportFinal ==
  Does("export_08", AfterLoops, [maps EXCEPT !.m08.state = "exported"])
-----------------------------------------------------------------------------
\* run_pose_export.sh
Chosen ==
  CASE shell.stage = "final"   -> maps.m08
    [] shell.stage = "initial" -> maps.m04
    [] shell.stage = "auto"    -> IF HasMap(maps.m08) THEN maps.m08 ELSE maps.m04

\* poses/ is made anew by every call, and no other script reads it.
PosesRefused == ~HasMap(Chosen) \/ files.normalized["frames.csv"] = {}
WritePoses ==
  \/ PosesRefused /\ Refuses("poses")
  \/ /\ ~PosesRefused
     /\ shell.pc = "poses"
     /\ shell' = [shell EXCEPT
                    !.pc = "show_poses",
                    !.poses = At(Chosen.state,
                                 Chosen.of \cup files.normalized["frames.csv"])]
     /\ UNCHANGED <<importVars, faults, maps>>

\* The recording of Rerun needs the report and the export of the chosen map.
ShowPoses ==
  \/ Chosen.state # "exported" /\ Refuses("show_poses")
  \/ Chosen.state = "exported" /\ Does("show_poses", "done", maps)

ExitZero ==
  /\ shell.pc = "done"
  /\ shell' = NoShell
  /\ UNCHANGED <<importVars, faults, maps>>

ToolFails ==
  /\ shell.pc \notin {"idle", "import", "done"}
  /\ faults < MaxFaults
  /\ faults' = faults + 1
  /\ shell' = NoShell
  /\ UNCHANGED <<importVars, maps>>

ScriptStep ==
  \/ Frontend \/ ExtractFeatures \/ InitialBA \/ MakeStage
  \/ MoveMap \/ ExportInitial
  \/ LoopClosure \/ SearchLoops \/ RelaxAndFuse
  \/ CopyRelaxedMap \/ FinalBA \/ ExportFinal
  \/ WritePoses \/ ShowPoses \/ ExitZero

Next == ImportAlone \/ StartSfm \/ ImportInSfm \/ StartScript \/ ScriptStep \/ ToolFails

Spec == Init /\ [][Next]_vars

\* A script that runs goes on running.
FairSpec == Spec /\ WF_vars(ScriptStep \/ (ImportInSfm /\ faults' = faults))
-----------------------------------------------------------------------------
MapDirs == [state : {"missing", "empty", "copied", "optimized", "exported"},
            of : SUBSET Recordings]

\* A stage of 04 has a map only after an optimization has saved it: it is built in a
\* directory of its own and moved.
TypeOK ==
  /\ Import!TypeOK
  /\ \A d \in DOMAIN maps : maps[d] \in MapDirs
  /\ maps.m04.state # "copied"
  /\ shell.poses \in MapDirs /\ shell.sfm \in BOOLEAN /\ shell.force \in BOOLEAN
  /\ shell.stage \in {"auto", "initial", "final"}
  /\ run.pc # "idle" => shell.pc \in {"idle", "import"}

RecordsHonest      == TypeOK /\ Import!RecordsHonest
CompletedIsCurrent == Import!CompletedIsCurrent
CompletedIsListed  == Import!CompletedIsListed

\* sfm, when it succeeds, has exported the poses of the recording and configuration
\* it was called with, from a map that was optimized to the end, although earlier
\* calls may have left an interrupted loop closure or the maps of another recording,
\* and a loop closure may this time find nothing.  Without --force it trusts the
\* records of the import, and so holds only where these are honest; with it, always.
SfmIsCurrent ==
  [][shell.pc = "done" /\ shell.sfm
       => shell.poses = At("exported", {recording})]_vars
ForcedSfmIsCurrent ==
  [][shell.pc = "done" /\ shell.sfm /\ shell.force
       => shell.poses = At("exported", {recording})]_vars

\* What a run reports as completed, and what sfm exports, belongs to what it was
\* called with.
SuccessIsCurrent == CompletedIsCurrent /\ SfmIsCurrent

\* sfm --force succeeds after any history, once nothing fails any more.
SfmForceCompletes ==
  (shell.pc = "import" /\ shell.force /\ faults = MaxFaults
     /\ run.stage = 1 /\ run.pc = "next" /\ recording \in WithImages)
    ~> (shell.pc = "done")

=============================================================================
