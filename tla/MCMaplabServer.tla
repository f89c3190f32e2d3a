--------------------------- MODULE MCMaplabServer ---------------------------
(***************************************************************************)
(* Small instances of MaplabServer.  A folder is named after its mission   *)
(* and its position in it.                                                 *)
(***************************************************************************)
EXTENDS MaplabServer, TLC

MCMissionOf == [s \in Paths |-> IF s \in {"a1", "a2", "a3"} THEN "A" ELSE "B"]
MCIndexOf   == [s \in Paths |-> CASE s \in {"a1", "b1"} -> 1
                                  [] s \in {"a2", "b2"} -> 2
                                  [] OTHER -> 3]

\* Two submaps of one mission and one of another.
TwoMissions == "p1" :> "a1" @@ "p2" :> "a2" @@ "p3" :> "b1"

\* One robot, which starts a second mission.
OneRobot == [p \in Procs |-> "r1"]

\* A folder announced twice, and a submap whose predecessor was lost.
Duplicate == "p1" :> "a1" @@ "p2" :> "a1" @@ "p3" :> "a3"

\* Fewer submaps for the temporal properties.
OneSubmap == "p1" :> "a1"
OneMission == "p1" :> "a1" @@ "p2" :> "a2"

\* Partial ids that fit one mission, and one that fits both.
MCPrefixes == {{"A"}, {"B"}, {"A", "B"}}
=============================================================================
