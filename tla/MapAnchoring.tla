---------------------------- MODULE MapAnchoring ----------------------------
(***************************************************************************)
(* How the missions of a map get a known baseframe: the flags that the     *)
(* console sets and the work list of anchorAllMissions, which tries to     *)
(* localize each mission in a database of missions with a known baseframe. *)
(*                                                                         *)
(* Source: algorithms/map-anchoring/src/map-anchoring.cc, and the          *)
(* selection of missions in map-structure/vi-map.                          *)
(*                                                                         *)
(* The loop detector is abstracted to a relation: <<m, n>> \in matches     *)
(* when landmarks of n suffice to localize m.  The code runs in one thread *)
(* that has write access to the map; one iteration of the work list is one *)
(* step.                                                                   *)
(***************************************************************************)
EXTENDS Integers, Sequences, FiniteSets, SequencesExt

CONSTANTS Missions,
          Constrained,      \* the missions with absolute 6DoF constraints
          Relations,        \* the values of matches to consider
          Operations        \* the console commands that are used

ASSUME MissionsAssumption == IsFiniteSet(Missions) /\ Missions # {}
ASSUME ConstrainedAssumption == Constrained \subseteq Missions
ASSUME RelationsAssumption == Relations \subseteq SUBSET (Missions \X Missions)

VARIABLES matches,
          reliable,            \* the loop detector finds every match
          add_anchored,        \* FLAGS_add_anchored_missions_to_database
          known,               \* the missions with is_T_G_M_known
          selected,            \* the map's selected_missions_; {} selects all
          in_loop,             \* anchorAllMissions is in its loop
          all_missions, missions_to_anchor, remaining_trials, abandoned_missions,
          database,            \* the missions in the loop detector
          initial_mission_added,
          result               \* of the last call of anchorAllMissions

locals == <<all_missions, missions_to_anchor, remaining_trials, abandoned_missions,
            database, initial_mission_added>>
given  == <<matches, reliable, add_anchored>>
vars   == <<given, known, selected, in_loop, locals, result>>

kTrialsPerMission == 3

\* What getAllMissionIds returns: all other missions seem not to exist.
InView == IF selected = {} THEN Missions ELSE selected

Init == /\ matches \in Relations /\ reliable \in BOOLEAN /\ add_anchored \in BOOLEAN
        /\ known \in SUBSET Missions
        /\ selected = {}
        /\ in_loop = FALSE
        /\ all_missions = {} /\ missions_to_anchor = <<>>
        /\ remaining_trials = <<>> /\ abandoned_missions = {}
        /\ database = {} /\ initial_mission_added = FALSE
        /\ result = "none"
-----------------------------------------------------------------------------
\* addAllMissionsWithKnownBaseFrameToProvidedLoopDetector
WithKnown(base) == base \cup (known \cap InView)

\* detectLoopClosuresMissionToDatabase: may it succeed, may it fail?
MayMatch(m, base) == \E n \in base : <<m, n>> \in matches
MayFail(m, base)  == ~reliable \/ ~MayMatch(m, base)
-----------------------------------------------------------------------------
(***************************************************************************)
(* The other operations of the console on an idle map.                     *)
(***************************************************************************)
\* The local variables of the last call of anchorAllMissions are gone.
Command(name) == /\ name \in Operations
                 /\ ~in_loop
                 /\ all_missions' = {} /\ missions_to_anchor' = <<>>
                 /\ remaining_trials' = <<>> /\ abandoned_missions' = {}
                 /\ database' = {} /\ initial_mission_added' = FALSE
                 /\ result' = "none"
                 /\ UNCHANGED <<given, in_loop>>

SelectMissions(missions) == /\ Command("select")
                            /\ selected' = missions
                            /\ UNCHANGED known

SetMissionBaseframeKnownState(m, is_known) ==
  /\ Command("set_known")
  /\ known' = IF is_known THEN known \cup {m} ELSE known \ {m}
  /\ UNCHANGED selected

SetMissionBaseframeToKnownIfHasAbs6DoFConstraints ==
  /\ Command("constraints")
  /\ known' = known \cup (Constrained \cap InView)
  /\ UNCHANGED selected

\* A mission that is not in view fails the CHECK, one that is known is refused.
AnchorMission(m) ==
  /\ Command("anchor")
  /\ m \in InView \ known
  /\ MayMatch(m, WithKnown({}))
  /\ known' = known \cup {m}
  /\ UNCHANGED selected
-----------------------------------------------------------------------------
(***************************************************************************)
(* anchorAllMissions                                                       *)
(***************************************************************************)
\* The order of the work list is that of a hash table.
CallAnchorAll(list) ==
  /\ ~in_loop
  /\ list \in SetToSeqs(InView \ known)
  /\ all_missions' = InView
  /\ missions_to_anchor' = list
  /\ remaining_trials' = [m \in InView \ known |-> kTrialsPerMission]
  /\ abandoned_missions' = {} /\ database' = {} /\ initial_mission_added' = FALSE
  /\ \/ /\ Len(list) = Cardinality(InView)
        /\ result' = "failure" /\ UNCHANGED in_loop
     \/ /\ Len(list) < Cardinality(InView) /\ list = <<>>
        /\ result' = "success" /\ UNCHANGED in_loop
     \/ /\ Len(list) < Cardinality(InView) /\ list # <<>>
        /\ result' = "none" /\ in_loop' = TRUE
  /\ UNCHANGED <<given, known, selected>>

SelectProbed(m)   == {m}
SelectForProbe(m) == {m} \cup (known \cap InView)

DatabaseForProbe == IF add_anchored \/ ~initial_mission_added
                    THEN WithKnown(database) ELSE database

Probe(m) == /\ in_loop /\ missions_to_anchor # <<>>
            /\ m = Head(missions_to_anchor)
            /\ database' = DatabaseForProbe
            /\ initial_mission_added' = TRUE
            /\ selected' = SelectForProbe(m)

ProbeSucceeds(m) ==
  /\ Probe(m)
  /\ MayMatch(m, database')
  /\ known' = known \cup {m}
  /\ missions_to_anchor' = Tail(missions_to_anchor)
  /\ UNCHANGED <<remaining_trials, abandoned_missions>>

TrialsKept(m)    == remaining_trials
TrialsReduced(m) == [remaining_trials EXCEPT ![m] = @ - 1]

RetryLess(m, rest)  == rest # <<>> /\ remaining_trials[m] - 1 > 1
Retry(m, rest) == rest # <<>> /\ remaining_trials[m] - 1 > 0

\* The last mission of the list is given up at once.
ProbeFails(m) ==
  LET rest == Tail(missions_to_anchor)
  IN  /\ Probe(m)
      /\ MayFail(m, database')
      /\ remaining_trials' = TrialsReduced(m)
      /\ IF Retry(m, rest)
         THEN /\ missions_to_anchor' = Append(rest, m)
              /\ UNCHANGED abandoned_missions
         ELSE /\ missions_to_anchor' = rest
              /\ abandoned_missions' = abandoned_missions \cup {m}
      /\ UNCHANGED known

TryMission == /\ \E m \in all_missions : ProbeSucceeds(m) \/ ProbeFails(m)
              /\ UNCHANGED <<given, in_loop, all_missions, result>>

Outcome == IF abandoned_missions = {} THEN "success" ELSE "failure"

ReturnFromLoop == /\ in_loop /\ missions_to_anchor = <<>>
                  /\ in_loop' = FALSE
                  /\ selected' = {}
                  /\ result' = Outcome
                  /\ UNCHANGED <<given, known, locals>>
-----------------------------------------------------------------------------
Next == \/ \E missions \in SUBSET Missions : SelectMissions(missions)
        \/ \E m \in Missions, b \in BOOLEAN : SetMissionBaseframeKnownState(m, b)
        \/ SetMissionBaseframeToKnownIfHasAbs6DoFConstraints
        \/ \E m \in Missions : AnchorMission(m)
        \/ \E list \in SetToSeqs(InView \ known) : CallAnchorAll(list)
        \/ TryMission
        \/ ReturnFromLoop

Spec == Init /\ [][Next]_vars
-----------------------------------------------------------------------------
TypeOK ==
  /\ matches \in Relations
  /\ known \subseteq Missions /\ selected \subseteq Missions
  /\ in_loop \in BOOLEAN /\ initial_mission_added \in BOOLEAN
  /\ all_missions \subseteq Missions
  /\ missions_to_anchor \in Seq(Missions)
  /\ DOMAIN remaining_trials \subseteq Missions
  /\ \A m \in DOMAIN remaining_trials : remaining_trials[m] \in 0 .. kTrialsPerMission
  /\ abandoned_missions \subseteq Missions /\ database \subseteq Missions
  /\ result \in {"none", "success", "failure"}

\* "All missions anchored": a call that returns true leaves no mission that it saw
\* without a known baseframe, whatever was retried and given up on the way.
ResultHonest == result = "success" => all_missions \subseteq known

\* The loop narrows the selection of the map, through which it then reads the map: the
\* missions of the database and the one that is probed must stay in view, or their
\* landmarks cannot be found.
DatabaseInView ==
  in_loop => database \cup (all_missions \cap known) \subseteq InView

\* A mission is given up although it could be localized only if all its trials are used
\* up: giving up the last mission of the list early costs nothing.
GivenUpForGood ==
  result = "failure" /\ reliable /\ add_anchored =>
    \A m \in all_missions \ known :
      MayMatch(m, all_missions \cap known) => remaining_trials[m] = 0

\* With no more missions to anchor than trials, no order of the work list leaves a
\* mission behind that a chain of matches connects to a known one.
NobodyLeftBehind ==
  result = "failure" /\ reliable /\ add_anchored
  /\ Cardinality(DOMAIN remaining_trials) <= kTrialsPerMission =>
    \A m \in all_missions \ known : ~MayMatch(m, all_missions \cap known)

\* A mission that matches one that was known at the call is anchored, with or without
\* the missions that are anchored on the way in the database.
DirectMatchAnchored ==
  result # "none" /\ reliable =>
    \A m \in DOMAIN remaining_trials :
      MayMatch(m, all_missions \ DOMAIN remaining_trials) => m \in known

\* What the call answers is what it has done, and it has done what matches allow.
ResultRight ==
  TypeOK /\ ResultHonest /\ GivenUpForGood /\ NobodyLeftBehind /\ DirectMatchAnchored

\* "Prevent locking forever": every round of the loop uses up a trial or a mission, so
\* the call returns however many probes fail.
TrialsLeft == {t \in Missions \X (1 .. kTrialsPerMission) :
                 t[1] \in ToSet(missions_to_anchor) /\ t[2] <= remaining_trials[t[1]]}
WorkShrinks ==
  [][in_loop /\ in_loop' => Cardinality(TrialsLeft') < Cardinality(TrialsLeft)]_vars
=============================================================================
