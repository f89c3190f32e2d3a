------------------------- MODULE MaplabServerProofs -------------------------
(***************************************************************************)
(* Theorems about MaplabServer for every set of submaps, robots and        *)
(* missions.                                                               *)
(***************************************************************************)
EXTENDS MaplabServer, FiniteSetTheorems, FunctionTheorems,
        SequenceTheorems, TLAPS

-----------------------------------------------------------------------------
(***************************************************************************)
(* Erasing the entries of some missions from the list of a robot.          *)
(***************************************************************************)
Rank(S, i) == Cardinality({k \in S : k <= i})

\* The ranks of the n elements of a finite set of integers are 1 .. n.
LEMMA RankSurjective ==
  ASSUME NEW S, S \subseteq Int, IsFiniteSet(S)
  PROVE  /\ Cardinality(S) \in Nat
         /\ \A i \in S : Rank(S, i) \in 1 .. Cardinality(S)
         /\ \A j \in 1 .. Cardinality(S) : \E i \in S : Rank(S, i) = j
<1> DEFINE n == Cardinality(S)
           Below(i) == {k \in S : k <= i}
           f == [i \in S |-> Rank(S, i)]
<1>1. n \in Nat
  BY FS_CardinalityType
<1>2. ASSUME NEW i \in S
      PROVE  /\ IsFiniteSet(Below(i))
             /\ Cardinality(Below(i)) \in 1 .. n
  <2>1. IsFiniteSet(Below(i)) /\ Cardinality(Below(i)) <= n
    BY FS_Subset
  <2>2. Cardinality(Below(i)) \in Nat
    BY <2>1, FS_CardinalityType
  <2>3. Cardinality(Below(i)) # 0
    <3>1. i \in Below(i)
      BY S \subseteq Int
    <3> QED BY <3>1, <2>1, FS_EmptySet
  <2> QED BY <1>1, <2>1, <2>2, <2>3
<1>3. ASSUME NEW i \in S, NEW j \in S, Rank(S, i) = Rank(S, j), i < j
      PROVE  FALSE
  <2>1. Below(i) \in SUBSET Below(j)
    <3>1. \A k \in S : k <= i => k <= j
      BY <1>3, S \subseteq Int
    <3> QED BY <3>1
  <2>2. Below(i) = Below(j)
    BY <1>2, <1>3, <2>1, FS_Subset DEF Rank
  <2>3. j \in Below(j) /\ j \notin Below(i)
    BY <1>3
  <2> QED BY <2>2, <2>3
<1>4. f \in Injection(S, 1 .. n)
  <2>1. f \in [S -> 1 .. n]
    BY <1>2 DEF Rank
  <2>2. ASSUME NEW i \in S, NEW j \in S, f[i] = f[j]
        PROVE  i = j
    <3>1. i < j \/ j < i \/ i = j
      BY S \subseteq Int
    <3> QED BY <1>3, <2>2, <3>1
  <2> QED BY <2>1, <2>2, Fun_IsInj
<1>5. IsFiniteSet(1 .. n) /\ Cardinality(1 .. n) = n
  BY <1>1, FS_Interval
<1>6. f \in Surjection(S, 1 .. n)
  BY <1>4, <1>5, FS_Injection
<1>7. \A j \in 1 .. n : \E i \in S : f[i] = j
  BY <1>6 DEF Surjection
<1> QED BY <1>1, <1>2, <1>7 DEF Rank

\* What is left of a list is a list of entries, and every entry of a mission that
\* was not erased is still there.
LEMMA WithoutList ==
  ASSUME NEW list \in Seq(Entries), NEW ms
  PROVE  /\ Without(list, ms) \in Seq(Entries)
         /\ \A i \in DOMAIN list : list[i].id \notin ms =>
              \E j \in DOMAIN Without(list, ms) : Without(list, ms)[j] = list[i]
<1> DEFINE S == Kept(list, ms)
           n == Cardinality(S)
           at(j) == CHOOSE i \in S : Rank(S, i) = j
           out == [j \in 1 .. n |-> list[at(j)]]
<1>1. S \subseteq 1 .. Len(list) /\ S \subseteq Int /\ DOMAIN list = 1 .. Len(list)
  BY DEF Kept
<1>2. IsFiniteSet(S)
  <2>1. IsFiniteSet(1 .. Len(list))
    BY FS_Interval
  <2> QED BY <1>1, <2>1, FS_Subset
<1>3. /\ n \in Nat
      /\ \A i \in S : Rank(S, i) \in 1 .. n
      /\ \A j \in 1 .. n : \E i \in S : Rank(S, i) = j
  BY <1>1, <1>2, RankSurjective
<1>4. Without(list, ms) = out
  BY DEF Without, Rank
<1>5. \A j \in 1 .. n : at(j) \in S /\ Rank(S, at(j)) = j
  BY <1>3
<1>6. \A j \in 1 .. n : list[at(j)] \in Entries
  BY <1>1, <1>5
<1>7. out \in Seq(Entries)
  <2>1. out \in [1 .. n -> Entries]
    BY <1>6
  <2> HIDE DEF out, n
  <2> QED BY <1>3, <2>1
<1>8. ASSUME NEW i \in DOMAIN list, list[i].id \notin ms
      PROVE  \E j \in DOMAIN out : out[j] = list[i]
  <2> DEFINE j == Rank(S, i)
  <2>1. i \in S
    BY <1>8 DEF Kept
  <2>2. j \in 1 .. n
    BY <1>3, <2>1
  <2>3. at(j) \in S /\ Rank(S, at(j)) = Rank(S, i)
    BY <1>5, <2>2
  <2>4. at(j) = i
    <3>1. ASSUME NEW k \in S, NEW l \in S, k < l
          PROVE  Rank(S, k) # Rank(S, l)
      <4> DEFINE Below(x) == {y \in S : y <= x}
      <4>1. Below(k) \in SUBSET Below(l)
        BY <1>1, <3>1
      <4>2. l \in Below(l) /\ l \notin Below(k)
        BY <1>1, <3>1
      <4>3. IsFiniteSet(Below(l))
        BY <1>2, FS_Subset
      <4> QED BY <4>1, <4>2, <4>3, FS_Subset DEF Rank
    <3>2. at(j) < i \/ i < at(j) \/ at(j) = i
      BY <1>1, <2>1, <2>3
    <3> QED BY <2>1, <2>3, <3>1, <3>2
  <2> QED BY <2>2, <2>4
<1> HIDE DEF out
<1> QED BY <1>4, <1>7, <1>8
-----------------------------------------------------------------------------
(***************************************************************************)
(* The inductive invariant.  MergedMissionsIndexed alone is not inductive: *)
(* when the merging thread accepts a submap, only the history of its task  *)
(* and of the deletions tells that its mission is in the two indices.      *)
(***************************************************************************)
Indexed(m) == robot_of[m] \in Robots

\* The two indices agree.
IndicesAgree == \A m \in Missions : Indexed(m) => Listed(m, robot_of[m])

\* A processed submap has been recorded, unless its mission was deleted since.
ProcessedIndexed ==
  \A p \in Procs : task[p] \in {"processing", "ready"} =>
    Indexed(Mission(p)) \/ blacklist[Mission(p)] # NoEntry

\* A submap is skipped only because its mission had been deleted.
SkippedDeleted ==
  \A p \in Procs : task[p] = "skipped" => blacklist[Mission(p)] # NoEntry

\* The submap that was accepted is still at the front, and recorded.
AcceptedIndexed ==
  merger = "merge" => queue # <<>> /\ Indexed(Mission(Head(queue)))

MergedIndexed == \A m \in MissionsIn(merged) : Indexed(m)

\* What bookkeeping is about to forget was deleted, and is out of the merged map.
CopyDeleted ==
  /\ \A m \in Missions : blacklist_copy[m] # NoEntry => blacklist[m] # NoEntry
  /\ merger = "bookkeeping" =>
       \A m \in MissionsIn(merged) : blacklist_copy[m] = NoEntry

IndexInv == /\ IndicesAgree /\ ListsNonEmpty /\ ProcessedIndexed /\ SkippedDeleted
            /\ AcceptedIndexed /\ MergedIndexed /\ CopyDeleted

\* Between two steps of the merging thread its flag and the map manager agree, and
\* a merged map is empty only on the way to its deletion.
MapInv ==
  /\ received_first = has_merged
  /\ merger \in {"bookkeeping", "drop"} => has_merged
  /\ has_merged /\ merger \notin {"bookkeeping", "drop"} => merged # {}
  /\ merger \in {"anchor", "annotate", "optimize", "solving", "publish", "backup"}
       => has_merged
-----------------------------------------------------------------------------
(***************************************************************************)
(* The four places where the indices change: their types, and which        *)
(* missions stay listed.                                                   *)
(***************************************************************************)
LEMMA RecordedInfo ==
  ASSUME TypeOK, NEW p \in Procs, TaskUpdateRobotInfo(p)
  PROVE  /\ IndexType'
         /\ Listed(Mission(p), RobotOf[p])'
         /\ \A m \in Missions, r \in Robots : Listed(m, r) => Listed(m, r)'
         /\ ListsNonEmpty => ListsNonEmpty'
<1> DEFINE r == RobotOf[p]
           m == Mission(p)
           info == IF robot_info[r] = NoEntry THEN NoInfo ELSE robot_info[r]
           new_robot == info.missions = <<>> \/ info.missions[1].id # m
           list == IF new_robot THEN WithMission(info.missions, m)
                                ELSE info.missions
           new == [missions |-> list, inputs |-> WithInput(info.inputs, PathOf[p])]
<1>1. r \in Robots /\ m \in Missions /\ PathOf[p] \in Paths
  BY ConstantsAssumption DEF Mission
<1>2. /\ robot_info \in [Robots -> RobotInfo \cup {NoEntry}]
      /\ robot_of \in [Missions -> Names \cup {NoEntry}]
  BY DEF TypeOK, IndexType
<1>3. info \in RobotInfo
  <2>1. NoInfo \in RobotInfo
    BY DEF NoInfo, RobotInfo
  <2> QED BY <1>1, <1>2, <2>1
<1>4. info.missions \in Seq(Entries) /\ info.inputs \subseteq Paths
  BY <1>3 DEF RobotInfo
<1>5. [id |-> m, known |-> FALSE] \in Entries
  BY <1>1 DEF Entries
<1>6. /\ list \in Seq(Entries)
      /\ \E i \in DOMAIN list : list[i].id = m
      /\ \A i \in DOMAIN info.missions :
           \E j \in DOMAIN list : list[j] = info.missions[i]
  <2> HIDE DEF info, m
  <2>1. CASE new_robot
    <3>1. list = <<[id |-> m, known |-> FALSE]>> \o info.missions
      BY <2>1 DEF WithMission
    <3> DEFINE rest == info.missions
               entry == [id |-> m, known |-> FALSE]
    <3>2. rest \in Seq(Entries) /\ entry \in Entries /\ entry.id = m
      BY <1>4, <1>5
    <3>3. list = <<entry>> \o rest
      BY <3>1
    <3> HIDE DEF rest, entry, list
    <3>4. list \in Seq(Entries) /\ Len(list) = 1 + Len(rest)
      BY <3>2, <3>3
    <3>5. 1 \in DOMAIN list /\ list[1].id = m
      BY <3>2, <3>3, <3>4
    <3>6. ASSUME NEW i \in DOMAIN rest
          PROVE  i + 1 \in DOMAIN list /\ list[i + 1] = rest[i]
      BY <3>2, <3>3, <3>4
    <3> QED BY <3>4, <3>5, <3>6 DEF rest
  <2>2. CASE ~new_robot
    <3>1. 1 \in DOMAIN info.missions
      BY <1>4, <2>2
    <3> QED BY <1>4, <2>2, <3>1
  <2> QED BY <2>1, <2>2
<1>7. new \in RobotInfo
  <2>1. WithInput(info.inputs, PathOf[p]) \subseteq Paths
    BY <1>1, <1>4 DEF WithInput
  <2> HIDE DEF list, info
  <2> QED BY <1>6, <2>1 DEF RobotInfo
<1>8. /\ robot_info' = [robot_info EXCEPT ![r] = new]
      /\ robot_of' = [robot_of EXCEPT ![m] = r]
  BY Zenon DEF TaskUpdateRobotInfo
<1> HIDE DEF new
<1>9. IndexType'
  BY <1>1, <1>2, <1>7, <1>8 DEF IndexType, Names
<1>10. robot_info'[r] = new /\ new.missions = list /\ new # NoEntry
  <2>1. new.missions = list
    BY DEF new
  <2>2. new # NoEntry
    BY <1>7, NoEntryAssumption
  <2> QED BY <1>1, <1>2, <1>8, <2>1, <2>2
<1>11. Listed(m, r)'
  <2> HIDE DEF list, r, m
  <2> QED BY <1>6, <1>10 DEF Listed
<1>12. ASSUME NEW mm, NEW rr \in Robots, Listed(mm, rr)
       PROVE  Listed(mm, rr)'
  <2>1. CASE rr = r
    <3>1. info = robot_info[r]
      BY <1>12, <2>1 DEF Listed
    <3>2. PICK i \in DOMAIN info.missions : info.missions[i].id = mm
      BY <1>12, <2>1, <3>1 DEF Listed
    <3>3. PICK j \in DOMAIN list : list[j] = info.missions[i]
      BY <1>6
    <3> HIDE DEF list, r, info
    <3> QED BY <1>10, <2>1, <3>2, <3>3 DEF Listed
  <2>2. CASE rr # r
    <3>1. robot_info'[rr] = robot_info[rr]
      BY <1>2, <1>8, <2>2
    <3> QED BY <1>12, <3>1 DEF Listed
  <2> QED BY <2>1, <2>2
<1>13. ASSUME ListsNonEmpty
       PROVE  ListsNonEmpty'
  <2>1. robot_info'[r].missions # <<>>
    <3> HIDE DEF r, m
    <3> QED BY <1>11 DEF Listed
  <2>2. \A rr \in Robots : rr # r => robot_info'[rr] = robot_info[rr]
    BY <1>2, <1>8
  <2> QED BY <1>13, <2>1, <2>2 DEF ListsNonEmpty
<1> QED BY <1>9, <1>11, <1>12, <1>13

LEMMA ForgottenInfo ==
  ASSUME TypeOK, DeleteBookkeeping
  PROVE  /\ IndexType'
         /\ \A m \in Missions, r \in Robots :
              Listed(m, r) /\ m \notin CopiedOf(r) => Listed(m, r)'
         /\ ListsNonEmpty => ListsNonEmpty'
<1> DEFINE left(r) == Without(robot_info[r].missions, CopiedOf(r))
           new(r) == WithoutMissions(r, CopiedOf(r))
<1>1. /\ robot_info \in [Robots -> RobotInfo \cup {NoEntry}]
      /\ robot_of \in [Missions -> Names \cup {NoEntry}]
  BY DEF TypeOK, IndexType
<1>2. /\ robot_info' = [r \in Robots |-> new(r)]
      /\ robot_of' = [m \in Missions |->
                        IF blacklist_copy[m] # NoEntry THEN NoEntry ELSE robot_of[m]]
  BY Zenon DEF DeleteBookkeeping
<1>3. ASSUME NEW r \in Robots
      PROVE  /\ new(r) \in RobotInfo \cup {NoEntry}
             /\ ListsNonEmpty /\ new(r) # NoEntry => new(r).missions # <<>>
             /\ \A m : Listed(m, r) /\ m \notin CopiedOf(r) =>
                  /\ new(r) # NoEntry
                  /\ \E i \in DOMAIN new(r).missions : new(r).missions[i].id = m
  <2>1. CASE CopiedOf(r) = {} \/ robot_info[r] = NoEntry
    <3>1. new(r) = robot_info[r]
      BY <2>1 DEF WithoutMissions
    <3> HIDE DEF new
    <3> QED BY <1>1, <3>1 DEF Listed, ListsNonEmpty
  <2>2. CASE ~(CopiedOf(r) = {} \/ robot_info[r] = NoEntry)
    <3> DEFINE list == robot_info[r].missions
    <3>1. robot_info[r] \in RobotInfo
      BY <1>1, <2>2
    <3>2. list \in Seq(Entries)
      BY <3>1 DEF RobotInfo
    <3>3. /\ left(r) \in Seq(Entries)
          /\ \A i \in DOMAIN list : list[i].id \notin CopiedOf(r) =>
               \E j \in DOMAIN left(r) : left(r)[j] = list[i]
      <4> HIDE DEF list
      <4>1. left(r) = Without(list, CopiedOf(r))
        BY DEF list
      <4> HIDE DEF left
      <4> QED BY <3>2, <4>1, WithoutList
    <3>4. new(r) = IF left(r) = <<>> THEN NoEntry
                   ELSE [robot_info[r] EXCEPT !.missions = left(r)]
      BY <2>2 DEF WithoutMissions
    <3> HIDE DEF left, new
    <3>5. left(r) # <<>> =>
            /\ new(r) \in RobotInfo
            /\ new(r).missions = left(r)
      BY <3>1, <3>3, <3>4 DEF RobotInfo
    <3>6. ASSUME NEW m, Listed(m, r), m \notin CopiedOf(r)
          PROVE  /\ left(r) # <<>>
                 /\ \E j \in DOMAIN left(r) : left(r)[j].id = m
      <4>1. PICK i \in DOMAIN list : list[i].id = m
        BY <3>6 DEF Listed
      <4>2. PICK j \in DOMAIN left(r) : left(r)[j] = list[i]
        BY <3>3, <3>6, <4>1
      <4> QED BY <4>1, <4>2
    <3> QED BY <3>4, <3>5, <3>6, NoEntryAssumption
  <2> QED BY <2>1, <2>2
<1> HIDE DEF new
<1>4. \A r \in Robots : robot_info'[r] = new(r)
  BY <1>2
<1>5. IndexType'
  BY <1>1, <1>2, <1>3 DEF IndexType
<1>6. ListsNonEmpty => ListsNonEmpty'
  BY <1>3, <1>4 DEF ListsNonEmpty
<1> QED BY <1>3, <1>4, <1>5, <1>6 DEF Listed

LEMMA LookUpType ==
  ASSUME IndexType
  PROVE  LookUpRobots \in [Missions -> Names \cup {NoEntry}]
BY DEF IndexType, LookUpRobots, Names

LEMMA AnnotatedInfo ==
  ASSUME TypeOK, UpdateAnchoringInfo
  PROVE  /\ IndexType'
         /\ \A m \in Missions, r \in Robots : Listed(m, r) => Listed(m, r)'
         /\ IndicesAgree /\ ListsNonEmpty => ListsNonEmpty'
<1> DEFINE list(r) == robot_info[r].missions
           new(r) == IF robot_info[r] # NoEntry
                     THEN [robot_info[r] EXCEPT !.missions = Annotated(r, list(r))]
                     ELSE IF \E m \in MissionsIn(merged) : robot_of[m] = r
                          THEN NoInfo ELSE NoEntry
<1>1. robot_info \in [Robots -> RobotInfo \cup {NoEntry}]
  BY DEF TypeOK, IndexType
<1>2. robot_info' = [r \in Robots |-> new(r)] /\ robot_of' = LookUpRobots
  BY Zenon DEF UpdateAnchoringInfo
<1>3. ASSUME NEW r \in Robots, robot_info[r] # NoEntry
      PROVE  /\ new(r) \in RobotInfo /\ new(r).missions = Annotated(r, list(r))
             /\ DOMAIN new(r).missions = DOMAIN list(r)
             /\ \A i \in DOMAIN list(r) : new(r).missions[i].id = list(r)[i].id
  <2>1. robot_info[r] \in RobotInfo /\ list(r) \in Seq(Entries)
    BY <1>1, <1>3 DEF RobotInfo
  <2>2. ASSUME NEW i \in DOMAIN list(r)
        PROVE  Annotated(r, list(r))[i] \in Entries
               /\ Annotated(r, list(r))[i].id = list(r)[i].id
    <3> DEFINE e == list(r)[i]
           status == e.id \in known
    <3>1. e \in Entries
      BY <2>1
    <3>2. \/ Annotated(r, list(r))[i] = [e EXCEPT !.known = status]
          \/ Annotated(r, list(r))[i] = e
      BY DEF Annotated
    <3>3. status \in BOOLEAN
      OBVIOUS
    <3> HIDE DEF e, status
    <3>4. [e EXCEPT !.known = status] \in Entries /\ [e EXCEPT !.known = status].id = e.id
      BY <3>1, <3>3 DEF Entries
    <3> QED BY <3>1, <3>2, <3>4 DEF e
  <2>3. Annotated(r, list(r)) \in Seq(Entries)
        /\ DOMAIN Annotated(r, list(r)) = DOMAIN list(r)
    <3>1. DOMAIN Annotated(r, list(r)) = DOMAIN list(r)
      BY DEF Annotated
    <3>2. DOMAIN list(r) = 1 .. Len(list(r)) /\ Len(list(r)) \in Nat
      BY <2>1
    <3>3. Annotated(r, list(r)) = [i \in 1 .. Len(list(r)) |-> Annotated(r, list(r))[i]]
      BY <3>2 DEF Annotated
    <3>4. Annotated(r, list(r)) \in [1 .. Len(list(r)) -> Entries]
      BY <2>2, <3>2, <3>3
    <3> QED BY <3>1, <3>2, <3>4, SeqDef
  <2>4. new(r) = [robot_info[r] EXCEPT !.missions = Annotated(r, list(r))]
    BY <1>3
  <2> HIDE DEF new
  <2>5. new(r) \in RobotInfo /\ new(r).missions = Annotated(r, list(r))
    BY <2>1, <2>3, <2>4 DEF RobotInfo
  <2> QED BY <2>2, <2>3, <2>5
<1>4. ASSUME NEW r \in Robots, robot_info[r] = NoEntry
      PROVE  new(r) \in RobotInfo \cup {NoEntry}
  BY <1>4 DEF NoInfo, RobotInfo
<1> HIDE DEF new
<1>5. \A r \in Robots : robot_info'[r] = new(r)
  BY <1>2
<1>6. IndexType'
  <2>1. robot_info' \in [Robots -> RobotInfo \cup {NoEntry}]
    BY <1>2, <1>3, <1>4
  <2> QED BY <1>2, <2>1, LookUpType DEF IndexType, TypeOK
<1>7. ASSUME NEW m, NEW r \in Robots, Listed(m, r)
      PROVE  Listed(m, r)'
  <2>1. robot_info[r] # NoEntry /\ \E i \in DOMAIN list(r) : list(r)[i].id = m
    BY <1>7 DEF Listed
  <2>2. robot_info'[r] # NoEntry
    BY <1>3, <1>5, <2>1, NoEntryAssumption
  <2> QED BY <1>3, <1>5, <2>1, <2>2 DEF Listed
<1>8. ASSUME IndicesAgree, ListsNonEmpty, NEW r \in Robots, robot_info'[r] # NoEntry
      PROVE  robot_info'[r].missions # <<>>
  <2>1. CASE robot_info[r] # NoEntry
    <3>1. list(r) # <<>> /\ list(r) \in Seq(Entries)
      BY <1>1, <1>8, <2>1 DEF ListsNonEmpty, RobotInfo
    <3>2. 1 \in DOMAIN list(r)
      <4> HIDE DEF list
      <4> QED BY <3>1
    <3> QED BY <1>3, <1>5, <2>1, <3>2
  <2>2. CASE robot_info[r] = NoEntry
    <3>1. PICK m \in MissionsIn(merged) : robot_of[m] = r
      BY <1>5, <1>8, <2>2 DEF new
    <3>2. m \in Missions
      BY <3>1, ConstantsAssumption DEF MissionsIn, TypeOK, MapType
    <3> QED BY <1>8, <2>2, <3>1, <3>2 DEF IndicesAgree, Indexed, Listed
  <2> QED BY <2>1, <2>2
<1> QED BY <1>6, <1>7, <1>8 DEF ListsNonEmpty
-----------------------------------------------------------------------------
(***************************************************************************)
(* Type correctness.  A step keeps the type of every group of variables it *)
(* leaves alone; the others are shown to keep theirs one by one.           *)
(***************************************************************************)
LEMMA Frame ==
  /\ ServerType    /\ UNCHANGED serverVars => ServerType'
  /\ TaskType      /\ UNCHANGED taskVars   => TaskType'
  /\ QueueType     /\ UNCHANGED queueVars  => QueueType'
  /\ MapType       /\ UNCHANGED mapVars    => MapType'
  /\ IndexType     /\ UNCHANGED indexVars  => IndexType'
  /\ BlacklistType /\ UNCHANGED blacklist  => BlacklistType'
  /\ MergerType    /\ UNCHANGED mergerVars => MergerType'
  /\ SolverType    /\ UNCHANGED solverVars => SolverType'
  /\ CrashType     /\ UNCHANGED crash      => CrashType'
<1>1. ServerType /\ UNCHANGED serverVars => ServerType'
  BY DEF ServerType, serverVars
<1>2. TaskType /\ UNCHANGED taskVars => TaskType'
  BY DEF TaskType, taskVars
<1>3. QueueType /\ UNCHANGED queueVars => QueueType'
  BY DEF QueueType, queueVars
<1>4. MapType /\ UNCHANGED mapVars => MapType'
  BY DEF MapType, mapVars
<1>5. IndexType /\ UNCHANGED indexVars => IndexType'
  BY DEF IndexType, indexVars
<1>6. BlacklistType /\ UNCHANGED blacklist => BlacklistType'
  BY DEF BlacklistType
<1>7. MergerType /\ UNCHANGED mergerVars => MergerType'
  BY DEF MergerType, mergerVars, localVars
<1>8. SolverType /\ UNCHANGED solverVars => SolverType'
  BY DEF SolverType, solverVars
<1>9. CrashType /\ UNCHANGED crash => CrashType'
  BY DEF CrashType
<1> QED BY <1>1, <1>2, <1>3, <1>4, <1>5, <1>6, <1>7, <1>8, <1>9

LEMMA TypeInit == Init => TypeOK
<1> SUFFICES ASSUME Init PROVE TypeOK
  OBVIOUS
<1>1. ServerType /\ request \in Request
  BY DEF Init, ServerType, Request
<1>2. TaskType /\ QueueType
  BY DEF Init, TaskType, QueueType, TaskPc
<1>3. MapType /\ IndexType /\ BlacklistType
  BY DEF Init, MapType, IndexType, BlacklistType
<1>4. MergerType /\ SolverType /\ CrashType
  BY DEF Init, MergerType, SolverType, CrashType, MergerPc
<1> QED BY <1>1, <1>2, <1>3, <1>4 DEF TypeOK

LEMMA TypeLoad ==
  ASSUME TypeOK, NEW p \in Procs, LoadBegin(p) \/ LoadEnqueue(p)
  PROVE  TypeOK'
<1> USE DEF TypeOK
<1>1. CASE LoadBegin(p)
  <2>1. TaskType' /\ request' \in Request
    BY <1>1 DEF LoadBegin, TaskType, TaskPc, Request
  <2> QED BY <1>1, <2>1, Frame DEF LoadBegin
<1>2. CASE LoadEnqueue(p)
  <2>1. TaskType' /\ QueueType' /\ request' \in Request
    BY <1>2 DEF LoadEnqueue, TaskType, QueueType, TaskPc, Request
  <2> QED BY <1>2, <2>1, Frame DEF LoadEnqueue
<1> QED BY <1>1, <1>2

LEMMA TypeTask ==
  ASSUME TypeOK, NEW p \in Procs, TaskNext(p)
  PROVE  TypeOK'
<1> USE DEF TypeOK
<1>1. CASE TaskStart(p)
  <2>1. TaskType'
    BY <1>1 DEF TaskStart, TaskType, TaskPc, Locked
  <2> QED BY <1>1, <2>1, Frame DEF TaskStart
<1>2. CASE TaskLoad(p)
  <2>1. TaskType'
    BY <1>2 DEF TaskLoad, TaskType, TaskPc, Locked
  <2>2. MapType'
    <3>1. MapKey(p) \in MapKeys
      <4> DEFINE renamed == p \in fishy
      <4>1. renamed \in BOOLEAN
        OBVIOUS
      <4>2. MapKey(p) = <<RobotOf[p], PathOf[p], renamed>>
        BY DEF MapKey
      <4> HIDE DEF renamed
      <4> QED BY <4>1, <4>2, ConstantsAssumption DEF MapKeys
    <3> QED BY <1>2, <3>1 DEF TaskLoad, MapType
  <2>3. CrashType'
    BY <1>2 DEF TaskLoad, CrashType
  <2> QED BY <1>2, <2>1, <2>2, <2>3, Frame DEF TaskLoad
<1>3. CASE TaskCheckBlacklist(p)
  <2>1. TaskType'
    BY <1>3 DEF TaskCheckBlacklist, TaskType, TaskPc, Locked
  <2> QED BY <1>3, <2>1, Frame DEF TaskCheckBlacklist
<1>4. CASE TaskUpdateRobotInfo(p)
  <2>1. TaskType'
    BY <1>4 DEF TaskUpdateRobotInfo, TaskType, TaskPc, Locked
  <2>2. IndexType'
    BY <1>4, RecordedInfo
  <2>3. SolverType'
    BY <1>4 DEF TaskUpdateRobotInfo, SolverType
  <2> QED BY <1>4, <2>1, <2>2, <2>3, Frame DEF TaskUpdateRobotInfo
<1>5. CASE TaskFinish(p)
  <2>1. TaskType'
    BY <1>5 DEF TaskFinish, TaskType, TaskPc, Locked
  <2> QED BY <1>5, <2>1, Frame DEF TaskFinish
<1> QED BY <1>1, <1>2, <1>3, <1>4, <1>5 DEF TaskNext

\* Removing the front of a sequence of entries, which the append steps do.
LEMMA HeadAndTail ==
  ASSUME NEW q \in Seq(Procs), q # <<>>
  PROVE  Head(q) \in Procs /\ Tail(q) \in Seq(Procs)
OBVIOUS

LEMMA TypeAppendMerge ==
  ASSUME TypeOK, queue # <<>>, AppendMerge
  PROVE  TypeOK'
<1> USE DEF TypeOK, outsideMerger
<1> DEFINE s == PathOf[Head(queue)]
<1>1. s \in Paths /\ MissionOf[s] \in Missions
  BY ConstantsAssumption, HeadAndTail DEF QueueType
<1>2. CASE has_merged /\ ~CanAttach(s)
  <2>1. CrashType'
    BY <1>2 DEF AppendMerge, CrashType
  <2> QED BY <1>2, <2>1, Frame DEF AppendMerge, mergerVars, localVars
<1>3. CASE ~(has_merged /\ ~CanAttach(s))
  <2>1. MapType'
    BY <1>1, <1>3 DEF AppendMerge, MapType
  <2>2. QueueType'
    BY <1>3, HeadAndTail DEF AppendMerge, QueueType
  <2>3. MergerType'
    BY <1>3 DEF AppendMerge, MergerType, MergerPc, MapType
  <2> QED BY <1>3, <2>1, <2>2, <2>3, Frame DEF AppendMerge
<1> QED BY <1>2, <1>3

LEMMA TypeMapLookup ==
  ASSUME TypeOK, ListsNonEmpty, NEW r \in Robots, MapLookup(r)
  PROVE  TypeOK'
<1> USE DEF TypeOK, outsideClient
<1>1. request' \in Request
  <2> DEFINE list == robot_info[r].missions
  <2>1. list \in Seq(Entries) /\ list # <<>>
    BY DEF MapLookup, IndexType, RobotInfo, ListsNonEmpty
  <2>2. request' = [op |-> "lookup", mission |-> Head(list).id]
    BY DEF MapLookup
  <2> HIDE DEF list
  <2>3. Head(list) \in Entries
    BY <2>1
  <2> QED BY <2>2, <2>3 DEF Request, Entries
<1> QED BY <1>1, Frame DEF MapLookup

LEMMA TypeMerger ==
  ASSUME TypeOK, AcceptedIndexed, MergerNext
  PROVE  TypeOK'
<1> USE DEF TypeOK, outsideMerger
<1>1. CASE MergerExit
  <2>1. MergerType'
    BY <1>1 DEF MergerExit, MergerType, MergerPc, localVars
  <2> QED BY <1>1, <2>1, Frame DEF MergerExit
<1>2. CASE DeleteNothing
  <2>1. MergerType'
    BY <1>2 DEF DeleteNothing, MergerType, MergerPc, MapType
  <2> QED BY <1>2, <2>1, Frame DEF DeleteNothing
<1>3. CASE DeleteBlacklisted
  <2>1. MergerType'
    BY <1>3 DEF DeleteBlacklisted, MergerType, MergerPc, BlacklistType
  <2>2. MapType'
    BY <1>3 DEF DeleteBlacklisted, MapType
  <2> QED BY <1>3, <2>1, <2>2, Frame DEF DeleteBlacklisted
<1>4. CASE DeleteBookkeeping
  <2>1. MergerType'
    BY <1>4 DEF DeleteBookkeeping, MergerType, MergerPc
  <2>2. IndexType'
    BY <1>4, ForgottenInfo
  <2> QED BY <1>4, <2>1, <2>2, Frame DEF DeleteBookkeeping
<1>5. CASE DropMergedMap
  <2>1. MergerType'
    BY <1>5 DEF DropMergedMap, MergerType, MergerPc
  <2>2. MapType'
    BY <1>5 DEF DropMergedMap, MapType
  <2> QED BY <1>5, <2>1, <2>2, Frame DEF DropMergedMap
<1>6. CASE ListKeys
  <2>1. MergerType'
    BY <1>6 DEF ListKeys, MergerType, MergerPc, localVars
  <2> QED BY <1>6, <2>1, Frame DEF ListKeys
<1>7. CASE AppendStop
  <2>1. MergerType'
    BY <1>7 DEF AppendStop, MergerType, MergerPc, localVars
  <2> QED BY <1>7, <2>1, Frame DEF AppendStop
<1>8. CASE AppendDiscard
  <2>1. QueueType'
    BY <1>8, HeadAndTail DEF AppendDiscard, FrontReady, QueueType
  <2>2. MapType'
    BY <1>8 DEF AppendDiscard, MapType
  <2> QED BY <1>8, <2>1, <2>2, Frame DEF AppendDiscard
<1>9. CASE AppendAccept
  <2>1. MergerType'
    BY <1>9 DEF AppendAccept, MergerType, MergerPc, localVars
  <2> QED BY <1>9, <2>1, Frame DEF AppendAccept
<1>10. CASE AppendMerge
  BY <1>10, TypeAppendMerge DEF AcceptedIndexed, AppendMerge
<1>11. CASE AnchorMissions
  <2>1. MergerType'
    BY <1>11 DEF AnchorMissions, MergerType, MergerPc, localVars
  <2>2. MapType'
    <3>1. \A submaps : submaps \subseteq Paths => MissionsIn(submaps) \subseteq Missions
      BY ConstantsAssumption DEF MissionsIn
    <3> QED BY <1>11, <3>1 DEF AnchorMissions, Anchored, MapType
  <2> QED BY <1>11, <2>1, <2>2, Frame DEF AnchorMissions
<1>12. CASE UpdateAnchoringInfo
  <2>1. MergerType'
    BY <1>12 DEF UpdateAnchoringInfo, MergerType, MergerPc, localVars
  <2>2. IndexType'
    BY <1>12, AnnotatedInfo
  <2> QED BY <1>12, <2>1, <2>2, Frame DEF UpdateAnchoringInfo
<1>13. CASE OptimizeStart
  <2>1. MergerType'
    BY <1>13 DEF OptimizeStart, MergerType, MergerPc, localVars
  <2>2. SolverType'
    <3>1. NumMerged \in Nat
      <4>1. IsFiniteSet({p \in Procs : fate[p] = "merged"})
        BY ConstantsAssumption, FS_Subset
      <4> QED BY <4>1, FS_CardinalityType DEF NumMerged
    <3> QED BY <1>13, <3>1 DEF OptimizeStart, SolverType
  <2> QED BY <1>13, <2>1, <2>2, Frame DEF OptimizeStart
<1>14. CASE OptimizeEnd
  <2>1. MergerType'
    BY <1>14 DEF OptimizeEnd, MergerType, MergerPc, localVars
  <2>2. SolverType'
    BY <1>14 DEF OptimizeEnd, SolverType
  <2> QED BY <1>14, <2>1, <2>2, Frame DEF OptimizeEnd
<1>15. CASE Publish
  <2>1. MergerType'
    BY <1>15 DEF Publish, MergerType, MergerPc, localVars
  <2>2. IndexType'
    BY <1>15, LookUpType DEF Publish, IndexType
  <2> QED BY <1>15, <2>1, <2>2, Frame DEF Publish
<1>16. CASE Backup
  <2>1. MergerType'
    BY <1>16 DEF Backup, MergerType, MergerPc, localVars
  <2> QED BY <1>16, <2>1, Frame DEF Backup
<1> QED BY <1>1, <1>2, <1>3, <1>4, <1>5, <1>6, <1>7, <1>8, <1>9, <1>10, <1>11,
           <1>12, <1>13, <1>14, <1>15, <1>16 DEF MergerNext

LEMMA TypeClient ==
  ASSUME TypeOK, ListsNonEmpty, ClientNext \/ Blacklist \/ AccessMerged
  PROVE  TypeOK'
<1> USE DEF TypeOK, outsideClient
<1>1. CASE \E p \in Procs : LoadBegin(p)
  BY <1>1, TypeLoad
<1>2. ASSUME NEW prefix \in Prefixes, DeleteMission(prefix)
      PROVE  TypeOK'
  <2>1. request' \in Request
    <3>1. PICK m \in prefix :
            /\ robot_of[m] # NoEntry
            /\ request' = [op |-> "blacklist", missions |-> {m}, robot |-> robot_of[m]]
      BY <1>2 DEF DeleteMission, Matching
    <3>2. m \in Missions /\ robot_of[m] \in Names
      BY <3>1, ConstantsAssumption DEF IndexType
    <3> QED BY <3>1, <3>2 DEF Request
  <2> QED BY <1>2, <2>1, Frame DEF DeleteMission
<1>3. ASSUME NEW r \in Robots, DeleteAllRobotMissions(r)
      PROVE  TypeOK'
  <2>1. request' \in Request
    BY <1>3 DEF DeleteAllRobotMissions, Request, Names
  <2> QED BY <1>3, <2>1, Frame DEF DeleteAllRobotMissions
<1>4. ASSUME NEW r \in Robots, MapLookup(r)
      PROVE  TypeOK'
  BY <1>4, TypeMapLookup
<1>5. CASE GetDenseMapInRange
  <2>1. request' \in Request
    BY <1>5 DEF GetDenseMapInRange, Request
  <2> QED BY <1>5, <2>1, Frame DEF GetDenseMapInRange
<1>6. CASE VisualizeMap
  <2>1. request' \in Request
    BY <1>6 DEF VisualizeMap, Request
  <2> QED BY <1>6, <2>1, Frame DEF VisualizeMap
<1>7. CASE SaveMap
  <2>1. request' \in Request
    BY <1>7 DEF SaveMap, Request
  <2> QED BY <1>7, <2>1, Frame DEF SaveMap
<1>8. CASE Blacklist
  <2>1. request' \in Request
    BY <1>8 DEF Blacklist, Request
  <2>2. BlacklistType'
    <3>1. request.robot \in Names
      BY <1>8 DEF Blacklist, Request, Idle
    <3> QED BY <1>8, <3>1 DEF Blacklist, BlacklistType
  <2> QED BY <1>8, <2>1, <2>2, Frame DEF Blacklist
<1>9. CASE AccessMerged
  <2>1. request' \in Request
    BY <1>9 DEF AccessMerged, Request
  <2>2. CrashType'
    BY <1>9 DEF AccessMerged, CrashType
  <2> QED BY <1>9, <2>1, <2>2, Frame DEF AccessMerged
<1> QED BY <1>1, <1>2, <1>3, <1>4, <1>5, <1>6, <1>7, <1>8, <1>9 DEF ClientNext

LEMMA TypeShutdown ==
  ASSUME TypeOK, ShutdownBegin \/ ShutdownStep \/ StatusExit
  PROVE  TypeOK'
<1> USE DEF TypeOK, outsideServer
<1>1. ServerType'
  BY DEF ServerType, ShutdownBegin, ShutdownStep, StatusExit
<1> QED BY <1>1, Frame DEF ShutdownBegin, ShutdownStep, StatusExit

LEMMA TypeStep ==
  ASSUME TypeOK, IndexInv, [Next]_vars
  PROVE  TypeOK'
<1>1. CASE Running
  BY <1>1, TypeLoad, TypeTask, TypeMerger, TypeClient, TypeShutdown
     DEF Running, RequestNext, IndexInv
<1>2. CASE UNCHANGED vars
  BY <1>2, Frame DEF TypeOK, vars, mergerVars
<1> QED BY <1>1, <1>2 DEF Next, Stopped

LEMMA MergedMissions == ASSUME TypeOK PROVE MissionsIn(merged) \subseteq Missions
BY ConstantsAssumption DEF TypeOK, MapType, MissionsIn

-----------------------------------------------------------------------------
(***************************************************************************)
(* The inductive step for the indices.                                     *)
(***************************************************************************)
LEMMA IndexInit == Init => IndexInv
BY ConstantsAssumption
   DEF Init, IndexInv, IndicesAgree, ListsNonEmpty, ProcessedIndexed, SkippedDeleted,
       AcceptedIndexed, MergedIndexed, CopyDeleted, Indexed, MissionsIn

\* Steps that change nothing IndexInv speaks about, or only withdraw a premise.
Quiet ==
  /\ UNCHANGED <<robot_info, robot_of, blacklist, merged, blacklist_copy>>
  /\ merger' = "merge" => merger = "merge" /\ queue' = queue
  /\ merger' = "bookkeeping" => merger = "bookkeeping"
  /\ \A p \in Procs :
       /\ task'[p] \in {"processing", "ready"} => task[p] \in {"processing", "ready"}
       /\ task'[p] = "skipped" => task[p] = "skipped"

LEMMA IndexQuiet == ASSUME IndexInv, Quiet PROVE IndexInv'
<1>1. IndicesAgree' /\ ListsNonEmpty'
  BY DEF Quiet, IndexInv, IndicesAgree, ListsNonEmpty, Indexed, Listed
<1>2. ProcessedIndexed' /\ SkippedDeleted'
  BY DEF Quiet, IndexInv, ProcessedIndexed, SkippedDeleted, Indexed, Mission
<1>3. AcceptedIndexed' /\ MergedIndexed'
  BY DEF Quiet, IndexInv, AcceptedIndexed, MergedIndexed, Indexed, Mission, MissionsIn
<1>4. CopyDeleted'
  BY DEF Quiet, IndexInv, CopyDeleted, MissionsIn
<1> QED BY <1>1, <1>2, <1>3, <1>4 DEF IndexInv

LEMMA IndexTask ==
  ASSUME TypeOK, IndexInv, NEW p \in Procs,
         LoadBegin(p) \/ LoadEnqueue(p) \/ TaskNext(p)
  PROVE  IndexInv'
<1>1. task \in [Procs -> TaskPc]
  BY DEF TypeOK, TaskType
<1>2. Mission(p) \in Missions /\ RobotOf[p] \in Robots /\ NoEntry \notin Robots
  BY ConstantsAssumption DEF Mission
<1>3. CASE LoadBegin(p) \/ LoadEnqueue(p) \/ TaskStart(p) \/ TaskLoad(p) \/ TaskFinish(p)
  <2>1. UNCHANGED <<robot_info, robot_of, blacklist, merged, blacklist_copy, merger>>
    BY <1>3 DEF LoadBegin, LoadEnqueue, TaskStart, TaskLoad, TaskFinish, mapVars,
                indexVars, mergerVars, localVars
  <2>2. merger = "merge" => queue' = queue
    BY <1>3 DEF LoadBegin, LoadEnqueue, TaskStart, TaskLoad, TaskFinish, queueVars,
                QueueFree
  <2>3. \A q \in Procs : \/ task'[q] = task[q]
                         \/ task'[q] \notin {"processing", "ready", "skipped"}
                         \/ task[q] = "processing" /\ task'[q] = "ready"
    BY <1>1, <1>3 DEF LoadBegin, LoadEnqueue, TaskStart, TaskLoad, TaskFinish
  <2>4. Quiet
    BY <2>1, <2>2, <2>3 DEF Quiet
  <2> QED BY <2>4, IndexQuiet
<1>4. CASE TaskCheckBlacklist(p)
  <2>1. /\ UNCHANGED <<robot_info, robot_of, blacklist, merged, blacklist_copy,
                       merger, queue>>
        /\ \A q \in Procs : \/ task'[q] = task[q] \/ task'[q] = "recording"
                            \/ /\ q = p /\ task'[q] = "skipped"
                               /\ blacklist[Mission(p)] # NoEntry
    BY <1>1, <1>4 DEF TaskCheckBlacklist, mapVars, indexVars, mergerVars, localVars,
                      queueVars
  <2>2. ProcessedIndexed' /\ SkippedDeleted'
    BY <2>1 DEF IndexInv, ProcessedIndexed, SkippedDeleted, Indexed, Mission
  <2>3. IndicesAgree' /\ ListsNonEmpty' /\ AcceptedIndexed' /\ MergedIndexed'
    BY <2>1 DEF IndexInv, IndicesAgree, ListsNonEmpty, AcceptedIndexed, MergedIndexed,
                Indexed, Listed, Mission, MissionsIn
  <2>4. CopyDeleted'
    BY <2>1 DEF IndexInv, CopyDeleted, MissionsIn
  <2> QED BY <2>2, <2>3, <2>4 DEF IndexInv
<1>5. CASE TaskUpdateRobotInfo(p)
  <2>1. /\ UNCHANGED <<blacklist, merged, blacklist_copy, merger, queue>>
        /\ robot_of' = [robot_of EXCEPT ![Mission(p)] = RobotOf[p]]
        /\ task' = [task EXCEPT ![p] = "processing"]
    BY <1>5 DEF TaskUpdateRobotInfo, mapVars, mergerVars, localVars, queueVars
  <2>2. robot_of \in [Missions -> Names \cup {NoEntry}]
    BY DEF TypeOK, IndexType
  <2>3. \A m \in Missions : Indexed(m) => Indexed(m)'
    BY <1>2, <2>1, <2>2 DEF Indexed
  <2>4. Indexed(Mission(p))'
    BY <1>2, <2>1, <2>2 DEF Indexed, Mission
  <2>5. IndicesAgree' /\ ListsNonEmpty'
    <3>1. \A m \in Missions : m # Mission(p) => robot_of'[m] = robot_of[m]
      BY <2>1, <2>2
    <3>2. robot_of'[Mission(p)] = RobotOf[p]
      BY <1>2, <2>1, <2>2
    <3>3. \A m \in Missions : m # Mission(p) /\ Indexed(m)' => Listed(m, robot_of[m])'
      BY <1>5, <3>1, RecordedInfo DEF IndexInv, IndicesAgree, Indexed
    <3>4. Listed(Mission(p), RobotOf[p])'
      BY <1>5, RecordedInfo
    <3>5. IndicesAgree'
      BY <3>1, <3>2, <3>3, <3>4 DEF IndicesAgree, Listed
    <3> QED BY <1>5, <3>5, RecordedInfo DEF IndexInv
  <2>6. \A q \in Procs : Mission(q) \in Missions
    BY ConstantsAssumption DEF Mission
  <2>7. ProcessedIndexed'
    <3>1. \A q \in Procs : q # p => task'[q] = task[q]
      BY <1>1, <2>1
    <3>2. \A q \in Procs : q # p /\ task'[q] \in {"processing", "ready"} =>
            Indexed(Mission(q))' \/ blacklist'[Mission(q)] # NoEntry
      BY <2>1, <2>3, <2>6, <3>1 DEF IndexInv, ProcessedIndexed, Mission
    <3> QED BY <2>4, <3>2 DEF ProcessedIndexed, Mission
  <2>8. SkippedDeleted'
    BY <1>1, <2>1 DEF IndexInv, SkippedDeleted, Mission
  <2>9. AcceptedIndexed'
    <3>1. merger = "merge" => Mission(Head(queue)) \in Missions
      BY <2>6, HeadAndTail DEF IndexInv, AcceptedIndexed, TypeOK, QueueType
    <3> QED BY <2>1, <2>3, <3>1 DEF IndexInv, AcceptedIndexed, Mission
  <2>10. MergedIndexed'
    BY <2>1, <2>3, MergedMissions DEF IndexInv, MergedIndexed, MissionsIn
  <2>11. CopyDeleted'
    BY <2>1 DEF IndexInv, CopyDeleted, MissionsIn
  <2> QED BY <2>5, <2>7, <2>8, <2>9, <2>10, <2>11 DEF IndexInv
<1> QED BY <1>3, <1>4, <1>5 DEF TaskNext

LEMMA IndexAppend ==
  ASSUME TypeOK, IndexInv, AppendAccept \/ AppendMerge
  PROVE  IndexInv'
<1>1. UNCHANGED <<robot_info, robot_of, blacklist, blacklist_copy, task>>
  BY DEF AppendAccept, AppendMerge, outsideMerger, taskVars, indexVars, localVars
<1>2. merger' # "bookkeeping"
  BY DEF AppendAccept, AppendMerge
<1>3. IndicesAgree' /\ ListsNonEmpty'
  BY <1>1 DEF IndexInv, IndicesAgree, ListsNonEmpty, Indexed, Listed
<1>4. ProcessedIndexed' /\ SkippedDeleted'
  BY <1>1 DEF IndexInv, ProcessedIndexed, SkippedDeleted, Indexed, Mission
<1>5. CopyDeleted'
  BY <1>1, <1>2 DEF IndexInv, CopyDeleted
<1>6. AcceptedIndexed' /\ MergedIndexed'
  <2>1. CASE AppendAccept
    <3> DEFINE p == Head(queue)
    <3>1. queue' = queue /\ merged' = merged
      BY <2>1 DEF AppendAccept, queueVars, mapVars
    <3>2. queue # <<>> /\ p \in Procs /\ task[p] \in {"ready", "skipped"}
      BY <2>1, HeadAndTail DEF AppendAccept, FrontReady, TypeOK, QueueType
    <3>3. blacklist[Mission(p)] = NoEntry
      BY <2>1 DEF AppendAccept, Acceptable
    <3>4. Indexed(Mission(p))
      BY <3>2, <3>3 DEF IndexInv, ProcessedIndexed, SkippedDeleted
    <3>5. AcceptedIndexed'
      BY <1>1, <3>1, <3>2, <3>4 DEF AcceptedIndexed, Indexed, Mission
    <3>6. MergedIndexed'
      BY <1>1, <3>1 DEF IndexInv, MergedIndexed, Indexed, MissionsIn
    <3> QED BY <3>5, <3>6
  <2>2. CASE AppendMerge
    <3>1. Indexed(Mission(Head(queue)))
      BY <2>2 DEF AppendMerge, IndexInv, AcceptedIndexed
    <3>2. /\ merged' = merged \/ merged' = merged \cup {PathOf[Head(queue)]}
          /\ merger' = "merge" => queue' = queue /\ merger = "merge"
      BY <2>2 DEF AppendMerge, mapVars, queueVars
    <3>3. MergedIndexed'
      BY <1>1, <3>1, <3>2 DEF IndexInv, MergedIndexed, Indexed, MissionsIn, Mission
    <3>4. AcceptedIndexed'
      BY <1>1, <3>2 DEF IndexInv, AcceptedIndexed, Indexed, Mission
    <3> QED BY <3>3, <3>4
  <2> QED BY <2>1, <2>2
<1> QED BY <1>3, <1>4, <1>5, <1>6 DEF IndexInv

\* The two steps of a deletion.  CopyDeleted is what makes the second one safe: what
\* it forgets was deleted from the map by the first.
LEMMA IndexDelete ==
  ASSUME TypeOK, IndexInv, DeleteBlacklisted \/ DeleteBookkeeping
  PROVE  IndexInv'
<1>1. CASE DeleteBlacklisted
  <2>1. /\ UNCHANGED <<robot_info, robot_of, blacklist, task, queue>>
        /\ blacklist_copy' = blacklist
        /\ merged' = {s \in merged : blacklist[MissionOf[s]] = NoEntry}
        /\ merger' = "bookkeeping"
    BY <1>1 DEF DeleteBlacklisted, outsideMerger, taskVars, indexVars, queueVars
  <2>2. IndicesAgree' /\ ListsNonEmpty' /\ ProcessedIndexed' /\ SkippedDeleted'
    BY <2>1 DEF IndexInv, IndicesAgree, ListsNonEmpty, ProcessedIndexed,
                SkippedDeleted, Indexed, Listed, Mission
  <2>3. AcceptedIndexed'
    BY <2>1 DEF AcceptedIndexed
  <2>4. MergedIndexed' /\ CopyDeleted'
    BY <2>1 DEF IndexInv, MergedIndexed, CopyDeleted, Indexed, MissionsIn
  <2> QED BY <2>2, <2>3, <2>4 DEF IndexInv
<1>2. CASE DeleteBookkeeping
  <2>1. /\ UNCHANGED <<blacklist, task, queue, merged>>
        /\ robot_of' = [m \in Missions |->
                         IF blacklist_copy[m] # NoEntry THEN NoEntry ELSE robot_of[m]]
        /\ blacklist_copy' = [m \in Missions |-> NoEntry]
        /\ merger' \in {"drop", "keys"} /\ merger = "bookkeeping"
    BY <1>2 DEF DeleteBookkeeping, outsideMerger, taskVars, queueVars, mapVars
  <2>2. NoEntry \notin Robots
    BY ConstantsAssumption
  <2>3. \A m \in Missions : blacklist_copy[m] = NoEntry /\ Indexed(m) => Indexed(m)'
    BY <2>1 DEF Indexed
  <2>4. IndicesAgree' /\ ListsNonEmpty'
    <3>1. ASSUME NEW m \in Missions, Indexed(m)'
          PROVE  Listed(m, robot_of[m])'
      <4>1. blacklist_copy[m] = NoEntry /\ robot_of'[m] = robot_of[m]
        BY <2>1, <2>2, <3>1 DEF Indexed
      <4>2. robot_of[m] \in Robots /\ Listed(m, robot_of[m])
        BY <3>1, <4>1 DEF Indexed, IndexInv, IndicesAgree
      <4>3. m \notin CopiedOf(robot_of[m])
        BY <2>2, <4>1, <4>2 DEF CopiedOf
      <4> QED BY <1>2, <4>1, <4>2, <4>3, ForgottenInfo DEF Listed
    <3> QED BY <1>2, <3>1, ForgottenInfo DEF IndicesAgree, IndexInv
  <2>5. ProcessedIndexed'
    <3>1. ASSUME NEW p \in Procs, task'[p] \in {"processing", "ready"}
          PROVE  Indexed(Mission(p))' \/ blacklist'[Mission(p)] # NoEntry
      <4>1. Mission(p) \in Missions
        BY ConstantsAssumption DEF Mission
      <4>2. Indexed(Mission(p)) \/ blacklist[Mission(p)] # NoEntry
        BY <2>1, <3>1 DEF IndexInv, ProcessedIndexed
      <4>3. blacklist_copy[Mission(p)] # NoEntry => blacklist[Mission(p)] # NoEntry
        BY <4>1 DEF IndexInv, CopyDeleted
      <4>4. CASE blacklist[Mission(p)] # NoEntry
        BY <2>1, <4>4 DEF Mission
      <4>5. CASE blacklist[Mission(p)] = NoEntry
        BY <2>1, <2>3, <4>1, <4>2, <4>3, <4>5 DEF Indexed, Mission
      <4> QED BY <4>4, <4>5
    <3> QED BY <3>1 DEF ProcessedIndexed, Mission
  <2>6. SkippedDeleted' /\ AcceptedIndexed' /\ CopyDeleted'
    <3>1. SkippedDeleted'
      BY <2>1 DEF IndexInv, SkippedDeleted, Mission
    <3>2. AcceptedIndexed' /\ CopyDeleted'
      BY <2>1 DEF AcceptedIndexed, CopyDeleted
    <3> QED BY <3>1, <3>2
  <2>7. MergedIndexed'
    BY <2>1, <2>3, MergedMissions DEF IndexInv, MergedIndexed, CopyDeleted, MissionsIn
  <2> QED BY <2>4, <2>5, <2>6, <2>7 DEF IndexInv
<1> QED BY <1>1, <1>2

\* operator[] inserts the empty name only for missions that have no robot.
LEMMA IndexLookUp ==
  ASSUME TypeOK, IndexInv, UpdateAnchoringInfo \/ Publish
  PROVE  IndexInv'
<1>1. /\ UNCHANGED <<blacklist, task, queue, merged, blacklist_copy>>
      /\ robot_of' = LookUpRobots
      /\ merger' \notin {"merge", "bookkeeping"}
  BY DEF UpdateAnchoringInfo, Publish, outsideMerger, taskVars, queueVars, mapVars,
         localVars
<1>2. /\ robot_of \in [Missions -> Names \cup {NoEntry}]
      /\ EmptyName \notin Robots /\ NoEntry \notin Robots
  BY ConstantsAssumption DEF TypeOK, IndexType
<1>3. \A m \in Missions : /\ Indexed(m)' => Indexed(m)
                          /\ Indexed(m) => Indexed(m)'
                          /\ Indexed(m) => robot_of'[m] = robot_of[m]
  BY <1>1, <1>2 DEF Indexed, LookUpRobots
<1>4. \A m \in Missions, r \in Robots : Listed(m, r) => Listed(m, r)'
  <2>1. CASE UpdateAnchoringInfo
    BY <2>1, AnnotatedInfo
  <2>2. CASE Publish
    BY <2>2 DEF Publish, Listed
  <2> QED BY <2>1, <2>2
<1>5. IndicesAgree'
  <2>1. ASSUME NEW m \in Missions, Indexed(m)'
        PROVE  Listed(m, robot_of[m])'
    <3>1. robot_of'[m] = robot_of[m] /\ robot_of[m] \in Robots /\ Listed(m, robot_of[m])
      BY <1>3, <2>1 DEF IndexInv, IndicesAgree, Indexed
    <3> QED BY <1>4, <3>1 DEF Listed
  <2> QED BY <2>1 DEF IndicesAgree
<1>6. ListsNonEmpty'
  <2>1. CASE UpdateAnchoringInfo
    BY <2>1, AnnotatedInfo DEF IndexInv
  <2>2. CASE Publish
    BY <2>2 DEF Publish, IndexInv, ListsNonEmpty
  <2> QED BY <2>1, <2>2
<1>7. ProcessedIndexed'
  <2>1. \A p \in Procs : Mission(p) \in Missions
    BY ConstantsAssumption DEF Mission
  <2> QED BY <1>1, <1>3, <2>1 DEF IndexInv, ProcessedIndexed, Mission
<1>8. SkippedDeleted' /\ CopyDeleted' /\ AcceptedIndexed'
  <2>1. SkippedDeleted'
    BY <1>1 DEF IndexInv, SkippedDeleted, Mission
  <2>2. CopyDeleted' /\ AcceptedIndexed'
    BY <1>1 DEF IndexInv, CopyDeleted, AcceptedIndexed
  <2> QED BY <2>1, <2>2
<1>9. MergedIndexed'
  BY <1>1, <1>3, MergedMissions DEF IndexInv, MergedIndexed, MissionsIn
<1> QED BY <1>5, <1>6, <1>7, <1>8, <1>9 DEF IndexInv

\* A deletion only adds to the blacklist.
LEMMA BlacklistGrows ==
  ASSUME TypeOK, Blacklist
  PROVE  \A m \in Missions : blacklist[m] # NoEntry => blacklist'[m] # NoEntry
<1>1. request.robot \in Names
  BY DEF Blacklist, TypeOK, Request, Idle
<1>2. NoEntry \notin Names
  BY ConstantsAssumption DEF Names
<1> QED BY <1>1, <1>2 DEF Blacklist

LEMMA IndexBlacklist == ASSUME TypeOK, IndexInv, Blacklist PROVE IndexInv'
<1>1. UNCHANGED <<robot_info, robot_of, task, queue, merged, blacklist_copy, merger>>
  BY DEF Blacklist, outsideClient, taskVars, queueVars, mapVars, indexVars,
         mergerVars, localVars
<1>2. \A p \in Procs : Mission(p) \in Missions
  BY ConstantsAssumption DEF Mission
<1>3. ProcessedIndexed' /\ SkippedDeleted'
  BY <1>1, <1>2, BlacklistGrows
     DEF IndexInv, ProcessedIndexed, SkippedDeleted, Indexed, Mission
<1>4. IndicesAgree' /\ ListsNonEmpty' /\ AcceptedIndexed' /\ MergedIndexed'
  BY <1>1 DEF IndexInv, IndicesAgree, ListsNonEmpty, AcceptedIndexed, MergedIndexed,
              Indexed, Listed, Mission, MissionsIn
<1>5. CopyDeleted'
  BY <1>1, BlacklistGrows DEF IndexInv, CopyDeleted, MissionsIn
<1> QED BY <1>3, <1>4, <1>5 DEF IndexInv

LEMMA IndexStep ==
  ASSUME TypeOK, IndexInv, [Next]_vars
  PROVE  IndexInv'
<1>1. ASSUME NEW p \in Procs, LoadBegin(p) \/ LoadEnqueue(p) \/ TaskNext(p)
      PROVE  IndexInv'
  BY <1>1, IndexTask
<1>2. CASE \/ MergerExit \/ DeleteNothing \/ DropMergedMap \/ ListKeys \/ AppendStop
           \/ AppendDiscard \/ AnchorMissions \/ OptimizeStart \/ OptimizeEnd \/ Backup
  <2>1. /\ UNCHANGED <<robot_info, robot_of, blacklist, merged, blacklist_copy, task>>
        /\ merger' \notin {"merge", "bookkeeping"}
    BY <1>2 DEF MergerExit, DeleteNothing, DropMergedMap, ListKeys, AppendStop,
                AppendDiscard, AnchorMissions, OptimizeStart, OptimizeEnd, Backup,
                outsideMerger, taskVars, mapVars, indexVars, localVars, mergerVars
  <2> QED BY <2>1, IndexQuiet DEF Quiet
<1>3. CASE \/ ShutdownBegin \/ ShutdownStep \/ StatusExit \/ AccessMerged
           \/ GetDenseMapInRange \/ VisualizeMap \/ SaveMap
           \/ (\E prefix \in Prefixes : DeleteMission(prefix))
           \/ (\E r \in Robots : DeleteAllRobotMissions(r) \/ MapLookup(r))
           \/ UNCHANGED vars
  <2>1. UNCHANGED <<robot_info, robot_of, blacklist, merged, blacklist_copy, task,
                    merger, queue>>
    BY <1>3 DEF ShutdownBegin, ShutdownStep, StatusExit, AccessMerged,
                GetDenseMapInRange, VisualizeMap, SaveMap, DeleteMission,
                DeleteAllRobotMissions, MapLookup, outsideServer, outsideClient, vars,
                taskVars, queueVars, mapVars, indexVars, mergerVars, localVars
  <2> QED BY <2>1, IndexQuiet DEF Quiet
<1>4. CASE \/ DeleteBlacklisted \/ DeleteBookkeeping \/ AppendAccept \/ AppendMerge
           \/ UpdateAnchoringInfo \/ Publish \/ Blacklist
  BY <1>4, IndexDelete, IndexAppend, IndexLookUp, IndexBlacklist
<1> QED BY <1>1, <1>2, <1>3, <1>4
        DEF Next, Running, Stopped, ClientNext, RequestNext, MergerNext

-----------------------------------------------------------------------------
(***************************************************************************)
(* The inductive step for the merged map and the flag of the merging       *)
(* thread.                                                                 *)
(***************************************************************************)
LEMMA MapStep == ASSUME TypeOK, MapInv, [Next]_vars PROVE MapInv'
<1> USE DEF MapInv
<1>1. ASSUME UNCHANGED <<received_first, has_merged, merged, merger>>
      PROVE  MapInv'
  BY <1>1
<1>2. ASSUME NEW p \in Procs, LoadBegin(p) \/ LoadEnqueue(p) \/ TaskNext(p)
      PROVE  MapInv'
  <2>1. UNCHANGED <<received_first, has_merged, merged, merger>>
    BY <1>2 DEF LoadBegin, LoadEnqueue, TaskNext, TaskStart, TaskLoad,
                TaskCheckBlacklist, TaskUpdateRobotInfo, TaskFinish, mapVars,
                mergerVars, localVars
  <2> QED BY <1>1, <2>1
<1>3. CASE \/ ShutdownBegin \/ ShutdownStep \/ StatusExit \/ AccessMerged \/ Blacklist
           \/ GetDenseMapInRange \/ VisualizeMap \/ SaveMap
           \/ (\E prefix \in Prefixes : DeleteMission(prefix))
           \/ (\E r \in Robots : DeleteAllRobotMissions(r) \/ MapLookup(r))
           \/ UNCHANGED vars
  <2>1. UNCHANGED <<received_first, has_merged, merged, merger>>
    BY <1>3 DEF ShutdownBegin, ShutdownStep, StatusExit, AccessMerged, Blacklist,
                GetDenseMapInRange, VisualizeMap, SaveMap, DeleteMission,
                DeleteAllRobotMissions, MapLookup, outsideServer, outsideClient, vars,
                mapVars, mergerVars, localVars
  <2> QED BY <1>1, <2>1
<1>4. CASE MergerExit \/ DeleteNothing \/ ListKeys \/ AppendStop
  <2>1. UNCHANGED <<has_merged, merged>> /\ has_merged' \in BOOLEAN
    BY <1>4 DEF MergerExit, DeleteNothing, ListKeys, AppendStop, mapVars, TypeOK, MapType
  <2> QED BY <1>4, <2>1 DEF MergerExit, DeleteNothing, ListKeys, AppendStop, localVars
<1>5. CASE DeleteBlacklisted \/ DeleteBookkeeping \/ DropMergedMap
  <2>1. CASE DeleteBlacklisted
    BY <2>1 DEF DeleteBlacklisted, NothingToDelete
  <2>2. CASE DeleteBookkeeping
    BY <2>2 DEF DeleteBookkeeping, mapVars
  <2>3. CASE DropMergedMap
    BY <2>3 DEF DropMergedMap
  <2> QED BY <1>5, <2>1, <2>2, <2>3
<1>6. CASE AppendDiscard \/ AppendAccept \/ AppendMerge
  <2>1. CASE AppendDiscard
    BY <2>1 DEF AppendDiscard, mergerVars, localVars
  <2>2. CASE AppendAccept
    BY <2>2 DEF AppendAccept, mapVars, localVars
  <2>3. CASE AppendMerge
    BY <2>3 DEF AppendMerge, mapVars, localVars, TypeOK, MapType, MergerType
  <2> QED BY <1>6, <2>1, <2>2, <2>3
<1>7. CASE AnchorMissions \/ UpdateAnchoringInfo \/ OptimizeStart \/ OptimizeEnd
           \/ Publish \/ Backup
  <2>1. UNCHANGED <<received_first, has_merged, merged>>
    BY <1>7 DEF AnchorMissions, UpdateAnchoringInfo, OptimizeStart, OptimizeEnd,
                Publish, Backup, mapVars, localVars
  <2> QED BY <1>7, <2>1 DEF AnchorMissions, UpdateAnchoringInfo, OptimizeStart,
                            OptimizeEnd, Publish, Backup
<1> QED BY <1>2, <1>3, <1>4, <1>5, <1>6, <1>7
        DEF Next, Running, Stopped, ClientNext, RequestNext, MergerNext

-----------------------------------------------------------------------------
(***************************************************************************)
(* Only AppendMerge adds to the merged map, and only the submap that was   *)
(* accepted; only AppendAccept accepts one.                                *)
(***************************************************************************)
LEMMA GoneStep ==
  ASSUME TypeOK, [Next]_vars
  PROVE  \A m \in Missions : Gone(m) => Gone(m)'
<1> SUFFICES ASSUME NEW m \in Missions, Gone(m) PROVE Gone(m)'
  OBVIOUS
<1> USE DEF Gone
<1>1. ASSUME UNCHANGED <<blacklist, merged>>,
             merger' = "merge" => merger = "merge" /\ queue' = queue
      PROVE  Gone(m)'
  BY <1>1 DEF MissionsIn, Mission
<1>2. ASSUME NEW p \in Procs, LoadBegin(p) \/ LoadEnqueue(p) \/ TaskNext(p)
      PROVE  Gone(m)'
  <2>1. UNCHANGED <<blacklist, merged, merger>> /\ (merger = "merge" => queue' = queue)
    BY <1>2 DEF LoadBegin, LoadEnqueue, TaskNext, TaskStart, TaskLoad,
                TaskCheckBlacklist, TaskUpdateRobotInfo, TaskFinish, mapVars,
                mergerVars, queueVars, QueueFree
  <2> QED BY <1>1, <2>1
<1>3. CASE \/ ShutdownBegin \/ ShutdownStep \/ StatusExit \/ AccessMerged
           \/ GetDenseMapInRange \/ VisualizeMap \/ SaveMap
           \/ (\E prefix \in Prefixes : DeleteMission(prefix))
           \/ (\E r \in Robots : DeleteAllRobotMissions(r) \/ MapLookup(r))
           \/ UNCHANGED vars
  <2>1. UNCHANGED <<blacklist, merged, merger, queue>>
    BY <1>3 DEF ShutdownBegin, ShutdownStep, StatusExit, AccessMerged,
                GetDenseMapInRange, VisualizeMap, SaveMap, DeleteMission,
                DeleteAllRobotMissions, MapLookup, outsideServer, outsideClient, vars,
                mapVars, mergerVars, queueVars
  <2> QED BY <1>1, <2>1
<1>4. CASE Blacklist
  <2>1. UNCHANGED <<merged, merger, queue>>
    BY <1>4 DEF Blacklist, outsideClient, mapVars, mergerVars, queueVars
  <2> QED BY <1>4, <2>1, BlacklistGrows DEF MissionsIn, Mission
<1>5. CASE \/ MergerExit \/ DeleteNothing \/ DeleteBookkeeping \/ DropMergedMap
           \/ ListKeys \/ AppendStop \/ AppendDiscard \/ AnchorMissions
           \/ UpdateAnchoringInfo \/ OptimizeStart \/ OptimizeEnd \/ Publish \/ Backup
  <2>1. UNCHANGED <<blacklist, merged>> /\ merger' # "merge"
    BY <1>5 DEF MergerExit, DeleteNothing, DeleteBookkeeping, DropMergedMap, ListKeys,
                AppendStop, AppendDiscard, AnchorMissions, UpdateAnchoringInfo,
                OptimizeStart, OptimizeEnd, Publish, Backup, outsideMerger, mapVars,
                mergerVars
  <2> QED BY <1>1, <2>1
<1>6. CASE DeleteBlacklisted
  BY <1>6 DEF DeleteBlacklisted, outsideMerger, MissionsIn
<1>7. CASE AppendAccept
  BY <1>7 DEF AppendAccept, Acceptable, outsideMerger, queueVars, mapVars, MissionsIn,
              Mission
<1>8. CASE AppendMerge
  <2>1. \/ merged' = merged /\ queue' = queue /\ merger' = merger
        \/ merged' = merged \cup {PathOf[Head(queue)]} /\ merger' = "front"
    BY <1>8 DEF AppendMerge, mapVars, queueVars
  <2>2. blacklist' = blacklist /\ Mission(Head(queue)) # m
    BY <1>8 DEF AppendMerge, outsideMerger
  <2> QED BY <2>1, <2>2 DEF MissionsIn, Mission
<1> QED BY <1>2, <1>3, <1>4, <1>5, <1>6, <1>7, <1>8
        DEF Next, Running, Stopped, ClientNext, RequestNext, MergerNext

-----------------------------------------------------------------------------
(***************************************************************************)
(* The queue and the tasks.  A task holds a reference to its entry, and    *)
(* the merging thread removes an entry only when its task has ended.       *)
(***************************************************************************)
Queued(p) == \E i \in DOMAIN queue : queue[i] = p
Distinct(list) == \A i, j \in DOMAIN list : list[i] = list[j] => i = j

\* The queue holds what has arrived and has not been merged or discarded, once; the pool
\* holds what has not been started, once.
QueueInv ==
  /\ Distinct(queue) /\ Distinct(pool)
  /\ \A p \in Procs :
       Queued(p) <=> task[p] \notin {"new", "ignored", "announced"} /\ fate[p] = "none"
  /\ \A i \in DOMAIN pool : task[pool[i]] = "queued"
  /\ \A p \in Procs : fate[p] # "none" => task[p] \in {"ready", "skipped"}
  /\ merger = "merge" => queue # <<>> /\ task[Head(queue)] \in {"ready", "skipped"}
  /\ \A p \in Procs : request = [op |-> "load", proc |-> p] => task[p] = "announced"

LEMMA DistinctTail ==
  ASSUME NEW list \in Seq(Procs), list # <<>>, Distinct(list)
  PROVE  /\ Distinct(Tail(list))
         /\ Head(list) \in Procs
         /\ \A p : (\E i \in DOMAIN Tail(list) : Tail(list)[i] = p)
                     <=> p # Head(list) /\ \E i \in DOMAIN list : list[i] = p
         /\ \A i \in DOMAIN Tail(list) : i + 1 \in DOMAIN list /\ Tail(list)[i] = list[i + 1]
<1>1. /\ Len(list) \in Nat \ {0} /\ DOMAIN list = 1 .. Len(list)
      /\ Head(list) = list[1] /\ Head(list) \in Procs
      /\ DOMAIN Tail(list) = 1 .. (Len(list) - 1)
      /\ \A i \in 1 .. (Len(list) - 1) : Tail(list)[i] = list[i + 1]
  OBVIOUS
<1>2. Distinct(Tail(list))
  BY <1>1 DEF Distinct
<1>3. ASSUME NEW p, NEW i \in DOMAIN Tail(list), Tail(list)[i] = p
      PROVE  p # Head(list) /\ \E k \in DOMAIN list : list[k] = p
  <2>1. i + 1 \in DOMAIN list /\ list[i + 1] = p /\ i + 1 # 1 /\ 1 \in DOMAIN list
    BY <1>1, <1>3
  <2> QED BY <1>1, <2>1 DEF Distinct
<1>4. ASSUME NEW p, p # Head(list), NEW k \in DOMAIN list, list[k] = p
      PROVE  \E i \in DOMAIN Tail(list) : Tail(list)[i] = p
  <2>1. k - 1 \in DOMAIN Tail(list) /\ Tail(list)[k - 1] = list[k]
    BY <1>1, <1>4
  <2> QED BY <1>4, <2>1
<1> QED BY <1>1, <1>2, <1>3, <1>4

LEMMA DistinctAppend ==
  ASSUME NEW list \in Seq(Procs), NEW p \in Procs, Distinct(list),
         \A i \in DOMAIN list : list[i] # p
  PROVE  /\ Distinct(Append(list, p))
         /\ \A q : (\E i \in DOMAIN Append(list, p) : Append(list, p)[i] = q)
                     <=> q = p \/ \E i \in DOMAIN list : list[i] = q
         /\ \A i \in DOMAIN Append(list, p) :
              \/ i \in DOMAIN list /\ Append(list, p)[i] = list[i]
              \/ Append(list, p)[i] = p
<1> DEFINE new == Append(list, p)
<1>1. /\ Len(list) \in Nat /\ DOMAIN list = 1 .. Len(list)
      /\ DOMAIN new = 1 .. (Len(list) + 1)
      /\ new[Len(list) + 1] = p
      /\ \A i \in 1 .. Len(list) : new[i] = list[i]
  OBVIOUS
<1> HIDE DEF new
<1>2. \A i \in DOMAIN new : i \in DOMAIN list \/ i = Len(list) + 1
  BY <1>1
<1>3. Distinct(new)
  BY <1>1, <1>2 DEF Distinct
<1>4. \A q : (\E i \in DOMAIN new : new[i] = q) <=> q = p \/ \E i \in DOMAIN list : list[i] = q
  BY <1>1, <1>2
<1>5. \A i \in DOMAIN new : (i \in DOMAIN list /\ new[i] = list[i]) \/ new[i] = p
  BY <1>1, <1>2
<1> QED BY <1>3, <1>4, <1>5 DEF new

LEMMA QueueLoad ==
  ASSUME TypeOK, QueueInv, NEW p \in Procs, LoadBegin(p) \/ LoadEnqueue(p)
  PROVE  QueueInv'
<1> USE DEF QueueInv
<1>1. /\ task \in [Procs -> TaskPc] /\ queue \in Seq(Procs) /\ pool \in Seq(Procs)
      /\ fate \in [Procs -> {"none", "merged", "discarded"}]
  BY DEF TypeOK, TaskType, QueueType
<1>2. CASE LoadBegin(p)
  <2>1. /\ UNCHANGED <<queue, pool, fate, merger>> /\ task[p] = "new"
        /\ \/ task' = [task EXCEPT ![p] = "ignored"] /\ UNCHANGED request
           \/ /\ task' = [task EXCEPT ![p] = "announced"]
              /\ request' = [op |-> "load", proc |-> p]
        /\ request = Idle
    BY <1>2 DEF LoadBegin, MutexFree, queueVars, mergerVars
  <2>2. fate[p] = "none" /\ ~Queued(p)
    BY <2>1
  <2>3. (Distinct(queue) /\ Distinct(pool))'
    BY <2>1 DEF Distinct
  <2>4. \A q \in Procs :
          Queued(q)' <=> task'[q] \notin {"new", "ignored", "announced"} /\ fate'[q] = "none"
    BY <1>1, <2>1, <2>2 DEF Queued
  <2>5. \A i \in DOMAIN pool' : task'[pool'[i]] = "queued"
    BY <1>1, <2>1
  <2>6. \A q \in Procs : fate'[q] # "none" => task'[q] \in {"ready", "skipped"}
    BY <1>1, <2>1
  <2>7. merger' = "merge" => queue' # <<>> /\ task'[Head(queue')] \in {"ready", "skipped"}
    BY <1>1, <2>1
  <2>8. \A q \in Procs : request' = [op |-> "load", proc |-> q] => task'[q] = "announced"
    BY <1>1, <2>1 DEF Idle
  <2> QED BY <2>3, <2>4, <2>5, <2>6, <2>7, <2>8
<1>3. CASE LoadEnqueue(p)
  <2>1. /\ queue' = Append(queue, p) /\ pool' = Append(pool, p)
        /\ task' = [task EXCEPT ![p] = "queued"] /\ request' = Idle
        /\ UNCHANGED <<fate, merger>> /\ merger # "merge" /\ task[p] = "announced"
    BY <1>3 DEF LoadEnqueue, QueueFree, mergerVars
  <2>2. fate[p] = "none" /\ ~Queued(p) /\ \A i \in DOMAIN pool : pool[i] # p
    BY <2>1
  <2>3. (Distinct(queue) /\ Distinct(pool))'
    <3>1. \A i \in DOMAIN queue : queue[i] # p
      BY <2>2 DEF Queued
    <3>2. Distinct(Append(queue, p)) /\ Distinct(Append(pool, p))
      BY <1>1, <2>2, <3>1, DistinctAppend
    <3> QED BY <2>1, <3>2 DEF Distinct
  <2>4. \A q : Queued(q)' <=> q = p \/ Queued(q)
    <3>1. \A i \in DOMAIN queue : queue[i] # p
      BY <2>2 DEF Queued
    <3>2. \A q : (\E i \in DOMAIN Append(queue, p) : Append(queue, p)[i] = q)
                   <=> q = p \/ \E i \in DOMAIN queue : queue[i] = q
      BY <1>1, <3>1, DistinctAppend
    <3> QED BY <2>1, <3>2 DEF Queued
  <2>5. \A q \in Procs :
          Queued(q)' <=> task'[q] \notin {"new", "ignored", "announced"} /\ fate'[q] = "none"
    BY <1>1, <2>1, <2>2, <2>4
  <2>6. \A i \in DOMAIN pool' : task'[pool'[i]] = "queued"
    <3>1. \A i \in DOMAIN pool : pool[i] \in Procs
      BY <1>1
    <3>2. \A i \in DOMAIN pool' :
            (i \in DOMAIN pool /\ pool'[i] = pool[i]) \/ pool'[i] = p
      BY <1>1, <2>1, <2>2, DistinctAppend
    <3> QED BY <1>1, <2>1, <3>1, <3>2
  <2>7. \A q \in Procs : fate'[q] # "none" => task'[q] \in {"ready", "skipped"}
    BY <1>1, <2>1
  <2>8. \A q \in Procs : request' # [op |-> "load", proc |-> q]
    BY <2>1 DEF Idle
  <2> QED BY <2>1, <2>3, <2>5, <2>6, <2>7, <2>8
<1> QED BY <1>2, <1>3

\* A task goes on: it has been taken from the pool, or runs already.
LEMMA QueueTask ==
  ASSUME TypeOK, QueueInv, NEW p \in Procs, TaskNext(p)
  PROVE  QueueInv'
<1> USE DEF QueueInv
<1>1. /\ task \in [Procs -> TaskPc] /\ queue \in Seq(Procs) /\ pool \in Seq(Procs)
  BY DEF TypeOK, TaskType, QueueType
<1>2. /\ UNCHANGED <<queue, fate, merger, request>>
      /\ \A q \in Procs : q # p => task'[q] = task[q]
      /\ \/ task' = task /\ pool' = pool
         \/ /\ task[p] \in {"queued"} \cup Locked
            /\ task'[p] \in Locked \cup {"ready", "skipped"}
      /\ \/ pool' = pool /\ task[p] \in Locked
         \/ pool' = Tail(pool) /\ p = Head(pool) /\ pool # <<>>
  <2>1. CASE TaskStart(p)
    <3>1. pool # <<>> /\ p = Head(pool) /\ task[p] = "queued"
      <4>1. pool # <<>> /\ p = Head(pool)
        BY <2>1 DEF TaskStart
      <4>2. 1 \in DOMAIN pool /\ Head(pool) = pool[1]
        BY <1>1, <4>1
      <4> QED BY <4>1, <4>2
    <3> QED BY <1>1, <2>1, <3>1 DEF TaskStart, queueVars, mergerVars, Locked
  <2>2. CASE TaskLoad(p)
    BY <1>1, <2>2 DEF TaskLoad, queueVars, mergerVars, Locked
  <2>3. CASE TaskCheckBlacklist(p)
    BY <1>1, <2>3 DEF TaskCheckBlacklist, queueVars, mergerVars, Locked
  <2>4. CASE TaskUpdateRobotInfo(p)
    BY <1>1, <2>4 DEF TaskUpdateRobotInfo, queueVars, mergerVars, Locked
  <2>5. CASE TaskFinish(p)
    BY <1>1, <2>5 DEF TaskFinish, queueVars, mergerVars, Locked
  <2> QED BY <2>1, <2>2, <2>3, <2>4, <2>5 DEF TaskNext
<1>3. (Distinct(queue) /\ Distinct(pool))'
  <2>1. pool # <<>> => Distinct(Tail(pool))
    BY <1>1, DistinctTail
  <2>2. Distinct(pool')
    BY <1>2, <2>1
  <2> QED BY <1>2, <2>2 DEF Distinct
<1>4. \A q \in Procs :
        Queued(q)' <=> task'[q] \notin {"new", "ignored", "announced"} /\ fate'[q] = "none"
  BY <1>2 DEF Queued, Locked
<1>5. \A i \in DOMAIN pool' : task'[pool'[i]] = "queued"
  <2>1. CASE pool' = pool /\ task[p] \in Locked
    <3>1. \A i \in DOMAIN pool : pool[i] \in Procs /\ pool[i] # p
      BY <1>1, <2>1 DEF Locked
    <3> QED BY <1>2, <2>1, <3>1
  <2>2. CASE pool' = Tail(pool) /\ p = Head(pool) /\ pool # <<>>
    <3>1. ASSUME NEW i \in DOMAIN pool'
          PROVE  pool'[i] \in Procs /\ pool'[i] # p /\ task[pool'[i]] = "queued"
      <4>1. i + 1 \in DOMAIN pool /\ pool'[i] = pool[i + 1]
        BY <1>1, <2>2, DistinctTail
      <4>2. pool'[i] # p
        BY <1>1, <2>2, DistinctTail
      <4> QED BY <1>1, <4>1, <4>2
    <3> QED BY <1>2, <3>1
  <2> QED BY <1>2, <2>1, <2>2
<1>6. \A q \in Procs : fate'[q] # "none" => task'[q] \in {"ready", "skipped"}
  BY <1>2 DEF Locked
<1>7. merger' = "merge" => queue' # <<>> /\ task'[Head(queue')] \in {"ready", "skipped"}
  BY <1>1, <1>2, HeadAndTail DEF Locked
<1>8. \A q \in Procs : request' = [op |-> "load", proc |-> q] => task'[q] = "announced"
  BY <1>2 DEF Locked
<1> QED BY <1>3, <1>4, <1>5, <1>6, <1>7, <1>8

\* The front of the queue is removed; its task has ended.
LEMMA QueueRemove ==
  ASSUME TypeOK, QueueInv, UNCHANGED <<task, pool, request>>, queue # <<>>,
         task[Head(queue)] \in {"ready", "skipped"}, merger' # "merge",
         queue' = Tail(queue),
         NEW end \in {"merged", "discarded"}, fate' = [fate EXCEPT ![Head(queue)] = end]
  PROVE  QueueInv'
<1> USE DEF QueueInv
<1>1. /\ queue \in Seq(Procs) /\ pool \in Seq(Procs)
      /\ fate \in [Procs -> {"none", "merged", "discarded"}]
  BY DEF TypeOK, TaskType, QueueType
<1>2. /\ Distinct(queue') /\ Head(queue) \in Procs
      /\ \A p : Queued(p)' <=> p # Head(queue) /\ Queued(p)
  <2>1. /\ Distinct(Tail(queue)) /\ Head(queue) \in Procs
        /\ \A p : (\E i \in DOMAIN Tail(queue) : Tail(queue)[i] = p)
                    <=> p # Head(queue) /\ \E i \in DOMAIN queue : queue[i] = p
    BY <1>1, DistinctTail
  <2> QED BY <2>1 DEF Queued
<1>3. Distinct(pool)'
  BY DEF Distinct
<1>4. \A p \in Procs :
        Queued(p)' <=> task'[p] \notin {"new", "ignored", "announced"} /\ fate'[p] = "none"
  BY <1>1, <1>2
<1>5. \A p \in Procs : fate'[p] # "none" => task'[p] \in {"ready", "skipped"}
  BY <1>1, <1>2
<1> QED BY <1>2, <1>3, <1>4, <1>5 DEF Distinct

LEMMA QueueKept ==
  ASSUME TypeOK, QueueInv, UNCHANGED <<task, pool, queue, fate>>,
         merger' = "merge" =>
           merger = "merge" \/ (queue # <<>> /\ task[Head(queue)] \in {"ready", "skipped"}),
         request' = request \/ request'.op # "load"
  PROVE  QueueInv'
<1> USE DEF QueueInv
<1>1. \A p : Queued(p)' <=> Queued(p)
  BY DEF Queued
<1>2. \A p \in Procs : request' = [op |-> "load", proc |-> p] => task'[p] = "announced"
  OBVIOUS
<1> QED BY <1>1, <1>2 DEF Distinct

LEMMA QueueStep == ASSUME TypeOK, QueueInv, [Next]_vars PROVE QueueInv'
<1>1. ASSUME NEW p \in Procs, LoadBegin(p) \/ LoadEnqueue(p) \/ TaskNext(p)
      PROVE  QueueInv'
  BY <1>1, QueueLoad, QueueTask
<1>2. CASE \/ MergerExit \/ DeleteNothing \/ DeleteBlacklisted \/ DeleteBookkeeping
           \/ DropMergedMap \/ ListKeys \/ AppendStop \/ AppendAccept \/ AnchorMissions
           \/ UpdateAnchoringInfo \/ OptimizeStart \/ OptimizeEnd \/ Publish \/ Backup
  <2>1. /\ UNCHANGED <<task, pool, queue, fate, request>>
        /\ merger' = "merge" =>
             queue # <<>> /\ task[Head(queue)] \in {"ready", "skipped"}
    BY <1>2 DEF MergerExit, DeleteNothing, DeleteBlacklisted, DeleteBookkeeping,
                DropMergedMap, ListKeys, AppendStop, AppendAccept, FrontReady,
                AnchorMissions, UpdateAnchoringInfo, OptimizeStart, OptimizeEnd, Publish,
                Backup, outsideMerger, taskVars, queueVars
  <2> QED BY <2>1, QueueKept
<1>3. CASE AppendDiscard
  <2>1. /\ UNCHANGED <<task, pool, request>> /\ queue # <<>> /\ queue' = Tail(queue)
        /\ task[Head(queue)] \in {"ready", "skipped"} /\ merger' # "merge"
        /\ fate' = [fate EXCEPT ![Head(queue)] = "discarded"]
    BY <1>3 DEF AppendDiscard, FrontReady, outsideMerger, taskVars, mergerVars
  <2> QED BY <2>1, QueueRemove
<1>4. CASE AppendMerge
  <2>1. CASE UNCHANGED <<queue, fate, merger>>
    BY <1>4, <2>1, QueueKept DEF AppendMerge, outsideMerger, taskVars
  <2>2. CASE /\ queue' = Tail(queue) /\ merger' = "front"
             /\ fate' = [fate EXCEPT ![Head(queue)] = "merged"]
    <3>1. UNCHANGED <<task, pool, request>> /\ merger = "merge"
      BY <1>4 DEF AppendMerge, outsideMerger, taskVars
    <3> QED BY <2>2, <3>1, QueueRemove DEF QueueInv
  <2> QED BY <1>4, <2>1, <2>2 DEF AppendMerge, queueVars
<1>5. CASE \/ ShutdownBegin \/ ShutdownStep \/ StatusExit \/ UNCHANGED vars
  <2>1. UNCHANGED <<task, pool, queue, fate, merger, request>>
    BY <1>5 DEF ShutdownBegin, ShutdownStep, StatusExit, outsideServer, vars, taskVars,
                queueVars, mergerVars
  <2> QED BY <2>1, QueueKept
<1>6. CASE \/ AccessMerged \/ Blacklist \/ GetDenseMapInRange \/ VisualizeMap \/ SaveMap
           \/ (\E prefix \in Prefixes : DeleteMission(prefix))
           \/ (\E r \in Robots : DeleteAllRobotMissions(r) \/ MapLookup(r))
  <2>1. UNCHANGED <<task, pool, queue, fate, merger>>
    BY <1>6 DEF AccessMerged, Blacklist, GetDenseMapInRange, VisualizeMap, SaveMap,
                DeleteMission, DeleteAllRobotMissions, MapLookup, outsideClient, taskVars,
                queueVars, mergerVars
  <2>2. request' = request \/ request'.op # "load"
    BY <1>6 DEF AccessMerged, Blacklist, GetDenseMapInRange, VisualizeMap, SaveMap,
                DeleteMission, DeleteAllRobotMissions, MapLookup, Idle
  <2> QED BY <2>1, <2>2, QueueKept
<1> QED BY <1>1, <1>2, <1>3, <1>4, <1>5, <1>6
        DEF Next, Running, Stopped, ClientNext, RequestNext, MergerNext

-----------------------------------------------------------------------------
(***************************************************************************)
(* Every entry between its loading and its merge has a map of its own.     *)
(* Only the merging thread removes maps, and removes the entry with it.    *)
(***************************************************************************)
LEMMA OwnKept ==
  ASSUME MapOfItsOwn, stored' = stored,
         \A p \in Procs : p \in Loaded' => p \in Loaded /\ MapKey(p)' = MapKey(p)
  PROVE  MapOfItsOwn'
<1>1. \A p : (p \in Loaded => p \in Procs) /\ (p \in Loaded' => p \in Procs)
  BY DEF Loaded
<1>2. \A p \in Loaded' : MapKey(p)' \in stored'
  BY <1>1 DEF MapOfItsOwn
<1>3. \A p, q \in Loaded' : MapKey(p)' = MapKey(q)' => p = q
  BY <1>1 DEF MapOfItsOwn
<1> QED BY <1>2, <1>3 DEF MapOfItsOwn

LEMMA OwnTask ==
  ASSUME TypeOK, QueueInv, MapOfItsOwn, NEW p \in Procs,
         LoadBegin(p) \/ LoadEnqueue(p) \/ TaskNext(p)
  PROVE  MapOfItsOwn'
<1>1. task \in [Procs -> TaskPc] /\ pool \in Seq(Procs)
  BY DEF TypeOK, TaskType
<1>2. CASE LoadBegin(p) \/ LoadEnqueue(p)
  <2>1. /\ UNCHANGED <<stored, fishy, fate>>
        /\ \A q \in Procs : q # p => task'[q] = task[q]
        /\ task'[p] \in {"ignored", "announced", "queued"}
    BY <1>1, <1>2 DEF LoadBegin, LoadEnqueue, queueVars, mapVars
  <2> QED BY <2>1, OwnKept DEF Loaded, Locked, MapKey
<1>3. CASE TaskStart(p)
  <2>1. /\ UNCHANGED <<stored, fate>>
        /\ \A q \in Procs : q # p => task'[q] = task[q] /\ (q \in fishy' <=> q \in fishy)
        /\ task'[p] = "loading"
    BY <1>1, <1>3 DEF TaskStart, queueVars, mapVars
  <2>2. \A q \in Procs : q \in Loaded' => q \in Loaded /\ q # p
    BY <2>1 DEF Loaded, Locked
  <2>3. \A q \in Procs : q # p => MapKey(q)' = MapKey(q)
    <3>1. ASSUME NEW q \in Procs, q # p
          PROVE  (q \in fishy') = (q \in fishy)
      BY <2>1, <3>1
    <3> QED BY <3>1 DEF MapKey
  <2> QED BY <2>1, <2>2, <2>3, OwnKept
<1>4. CASE TaskLoad(p)
  <2>1. UNCHANGED <<fishy, fate>> /\ task[p] = "loading"
    BY <1>4 DEF TaskLoad, queueVars
  <2>2. \A q : MapKey(q)' = MapKey(q)
    BY <2>1 DEF MapKey
  <2>3. CASE KeyTaken(p)
    BY <1>4, <2>1, <2>2, <2>3, OwnKept DEF TaskLoad, Loaded
  <2>4. CASE ~KeyTaken(p)
    <3>1. /\ MapKey(p) \notin stored /\ stored' = stored \cup {MapKey(p)}
          /\ task' = [task EXCEPT ![p] = "checking"]
      BY <1>4, <2>4 DEF TaskLoad, KeyTaken
    <3>2. \A q \in Procs : q \in Loaded' => q = p \/ q \in Loaded
      BY <1>1, <2>1, <3>1 DEF Loaded
    <3>3. \A q : q \in Loaded => MapKey(q) \in stored
      BY DEF MapOfItsOwn
    <3>4. \A q : q \in Loaded' => q \in Procs
      BY DEF Loaded
    <3>5. \A q \in Loaded' : MapKey(q)' \in stored'
      BY <2>2, <3>1, <3>2, <3>3, <3>4
    <3>6. \A q, r \in Loaded' : MapKey(q)' = MapKey(r)' => q = r
      BY <2>2, <3>1, <3>2, <3>3, <3>4 DEF MapOfItsOwn
    <3> QED BY <3>5, <3>6 DEF MapOfItsOwn
  <2> QED BY <2>3, <2>4
<1>5. CASE TaskCheckBlacklist(p) \/ TaskUpdateRobotInfo(p) \/ TaskFinish(p)
  <2>1. /\ UNCHANGED <<stored, fishy, fate>>
        /\ \A q \in Procs : q # p => task'[q] = task[q]
        /\ task[p] \in Locked \ {"loading"}
    BY <1>1, <1>5
       DEF TaskCheckBlacklist, TaskUpdateRobotInfo, TaskFinish, queueVars, mapVars, Locked
  <2>2. \A q \in Procs : q \in Loaded' => q \in Loaded
    BY <2>1 DEF Loaded
  <2> QED BY <2>1, <2>2, OwnKept DEF MapKey
<1> QED BY <1>2, <1>3, <1>4, <1>5 DEF TaskNext

LEMMA OwnRemove ==
  ASSUME TypeOK, QueueInv, MapOfItsOwn, UNCHANGED <<task, fishy>>, queue # <<>>,
         task[Head(queue)] \in {"ready", "skipped"},
         stored' = stored \ {MapKey(Head(queue))},
         NEW end \in {"merged", "discarded"}, fate' = [fate EXCEPT ![Head(queue)] = end]
  PROVE  MapOfItsOwn'
<1> DEFINE h == Head(queue)
<1>1. /\ queue \in Seq(Procs) /\ h \in Procs /\ 1 \in DOMAIN queue /\ h = queue[1]
      /\ fate \in [Procs -> {"none", "merged", "discarded"}]
  BY HeadAndTail DEF TypeOK, QueueType
<1>2. fate[h] = "none"
  BY <1>1 DEF QueueInv, Queued
<1>3. h \in Loaded
  BY <1>1, <1>2 DEF Loaded
<1>4. \A q \in Loaded' : q \in Loaded /\ q # h
  BY <1>1 DEF Loaded
<1>5. \A q : MapKey(q)' = MapKey(q)
  BY DEF MapKey
<1> QED BY <1>3, <1>4, <1>5 DEF MapOfItsOwn

LEMMA OwnStep == ASSUME TypeOK, QueueInv, MapOfItsOwn, [Next]_vars PROVE MapOfItsOwn'
<1>1. ASSUME NEW p \in Procs, LoadBegin(p) \/ LoadEnqueue(p) \/ TaskNext(p)
      PROVE  MapOfItsOwn'
  BY <1>1, OwnTask
<1>2. ASSUME UNCHANGED <<stored, task, fishy, fate>>
      PROVE  MapOfItsOwn'
  BY <1>2, OwnKept DEF Loaded, MapKey
<1>3. CASE \/ MergerExit \/ DeleteNothing \/ DeleteBlacklisted \/ DeleteBookkeeping
           \/ DropMergedMap \/ ListKeys \/ AppendStop \/ AppendAccept \/ AnchorMissions
           \/ UpdateAnchoringInfo \/ OptimizeStart \/ OptimizeEnd \/ Publish \/ Backup
  <2>1. UNCHANGED <<stored, task, fishy, fate>>
    BY <1>3 DEF MergerExit, DeleteNothing, DeleteBlacklisted, DeleteBookkeeping,
                DropMergedMap, ListKeys, AppendStop, AppendAccept, AnchorMissions,
                UpdateAnchoringInfo, OptimizeStart, OptimizeEnd, Publish, Backup,
                outsideMerger, taskVars, queueVars, mapVars
  <2> QED BY <1>2, <2>1
<1>4. CASE AppendDiscard
  <2>1. /\ UNCHANGED <<task, fishy>> /\ queue # <<>>
        /\ task[Head(queue)] \in {"ready", "skipped"}
        /\ stored' = stored \ {MapKey(Head(queue))}
        /\ fate' = [fate EXCEPT ![Head(queue)] = "discarded"]
    BY <1>4 DEF AppendDiscard, FrontReady, outsideMerger, taskVars
  <2> QED BY <2>1, OwnRemove
<1>5. CASE AppendMerge
  <2>1. UNCHANGED <<task, fishy>> /\ merger = "merge"
    BY <1>5 DEF AppendMerge, outsideMerger, taskVars
  <2>2. CASE UNCHANGED <<stored, fate>>
    BY <1>2, <2>1, <2>2
  <2>3. CASE /\ stored' = stored \ {MapKey(Head(queue))}
             /\ fate' = [fate EXCEPT ![Head(queue)] = "merged"]
    BY <2>1, <2>3, OwnRemove DEF QueueInv
  <2> QED BY <1>5, <2>2, <2>3 DEF AppendMerge, queueVars, mapVars
<1>6. CASE \/ ShutdownBegin \/ ShutdownStep \/ StatusExit \/ AccessMerged \/ Blacklist
           \/ GetDenseMapInRange \/ VisualizeMap \/ SaveMap
           \/ (\E prefix \in Prefixes : DeleteMission(prefix))
           \/ (\E r \in Robots : DeleteAllRobotMissions(r) \/ MapLookup(r))
           \/ UNCHANGED vars
  <2>1. UNCHANGED <<stored, task, fishy, fate>>
    BY <1>6 DEF ShutdownBegin, ShutdownStep, StatusExit, AccessMerged, Blacklist,
                GetDenseMapInRange, VisualizeMap, SaveMap, DeleteMission,
                DeleteAllRobotMissions, MapLookup, outsideServer, outsideClient, vars,
                taskVars, queueVars, mapVars
  <2> QED BY <1>2, <2>1
<1> QED BY <1>1, <1>3, <1>4, <1>5, <1>6
        DEF Next, Running, Stopped, ClientNext, RequestNext, MergerNext

-----------------------------------------------------------------------------
(***************************************************************************)
(* A submap is attached where its mission ends in the merged map, and      *)
(* missions are removed as a whole; without a merged map nothing is merged.*)
(***************************************************************************)
GapInv ==
  /\ ~has_merged \/ merger = "drop" => merged = {}
  /\ TrajectoryGapless

LEMMA GaplessGrows ==
  ASSUME TypeOK, TrajectoryGapless, NEW s \in Paths, merged = {} \/ CanAttach(s),
         merged' = merged \cup {s}
  PROVE  TrajectoryGapless'
<1>1. merged \subseteq Paths /\ \A u \in Paths : IndexOf[u] \in Nat
  BY ConstantsAssumption DEF TypeOK, MapType
<1>2. CASE MissionOf[s] \notin MissionsIn(merged)
  <2>1. \A t \in merged : MissionOf[t] # MissionOf[s]
    BY <1>2 DEF MissionsIn
  <2>2. ASSUME NEW a \in merged', NEW b \in merged', MissionOf[a] = MissionOf[b],
               NEW i \in IndexOf[a] .. IndexOf[b]
        PROVE  \E u \in merged' : MissionOf[u] = MissionOf[a] /\ IndexOf[u] = i
    <3>1. CASE a \in merged /\ b \in merged
      BY <2>2, <3>1 DEF TrajectoryGapless
    <3>2. CASE a = s /\ b = s
      BY <1>1, <2>2, <3>2
    <3> QED BY <2>1, <2>2, <3>1, <3>2
  <2> QED BY <2>2 DEF TrajectoryGapless
<1>3. ASSUME NEW t \in merged, IsLast(t, merged), MissionOf[t] = MissionOf[s],
             IndexOf[s] = IndexOf[t] + 1
      PROVE  TrajectoryGapless'
  <2>1. \A u \in merged : MissionOf[u] = MissionOf[s] => IndexOf[u] <= IndexOf[t]
    BY <1>3 DEF IsLast
  <2>2. ASSUME NEW a \in merged', NEW b \in merged', MissionOf[a] = MissionOf[b],
               NEW i \in IndexOf[a] .. IndexOf[b]
        PROVE  \E u \in merged' : MissionOf[u] = MissionOf[a] /\ IndexOf[u] = i
    <3>1. CASE a \in merged /\ b \in merged
      BY <2>2, <3>1 DEF TrajectoryGapless
    <3>2. CASE a \in merged /\ b = s
      <4>1. CASE i = IndexOf[s]
        BY <2>2, <3>2, <4>1
      <4>2. CASE i # IndexOf[s]
        <5>1. i \in IndexOf[a] .. IndexOf[t]
          BY <1>1, <1>3, <2>2, <3>2, <4>2
        <5> QED BY <1>3, <2>2, <3>2, <5>1 DEF TrajectoryGapless
      <4> QED BY <4>1, <4>2
    <3>3. CASE a = s /\ b \in merged
      BY <1>1, <1>3, <2>1, <2>2, <3>3
    <3>4. CASE a = s /\ b = s
      BY <1>1, <2>2, <3>4
    <3> QED BY <3>1, <3>2, <3>3, <3>4
  <2> QED BY <2>2 DEF TrajectoryGapless
<1> QED BY <1>2, <1>3 DEF CanAttach, MissionsIn

LEMMA GapStep ==
  ASSUME TypeOK, AcceptedIndexed, GapInv, [Next]_vars
  PROVE  GapInv'
<1> USE DEF GapInv
<1>1. ASSUME UNCHANGED <<has_merged, merged>>, merger' = "drop" => merger = "drop"
      PROVE  GapInv'
  BY <1>1 DEF TrajectoryGapless
<1>2. ASSUME NEW p \in Procs, LoadBegin(p) \/ LoadEnqueue(p) \/ TaskNext(p)
      PROVE  GapInv'
  <2>1. UNCHANGED <<has_merged, merged, merger>>
    BY <1>2 DEF LoadBegin, LoadEnqueue, TaskNext, TaskStart, TaskLoad,
                TaskCheckBlacklist, TaskUpdateRobotInfo, TaskFinish, mapVars,
                mergerVars, localVars
  <2> QED BY <1>1, <2>1
<1>3. CASE \/ ShutdownBegin \/ ShutdownStep \/ StatusExit \/ AccessMerged \/ Blacklist
           \/ GetDenseMapInRange \/ VisualizeMap \/ SaveMap
           \/ (\E prefix \in Prefixes : DeleteMission(prefix))
           \/ (\E r \in Robots : DeleteAllRobotMissions(r) \/ MapLookup(r))
           \/ UNCHANGED vars
  <2>1. UNCHANGED <<has_merged, merged, merger>>
    BY <1>3 DEF ShutdownBegin, ShutdownStep, StatusExit, AccessMerged, Blacklist,
                GetDenseMapInRange, VisualizeMap, SaveMap, DeleteMission,
                DeleteAllRobotMissions, MapLookup, outsideServer, outsideClient, vars,
                mapVars, mergerVars, localVars
  <2> QED BY <1>1, <2>1
<1>4. CASE \/ MergerExit \/ DeleteNothing \/ ListKeys \/ AppendStop \/ AppendDiscard
           \/ AppendAccept \/ AnchorMissions \/ UpdateAnchoringInfo \/ OptimizeStart
           \/ OptimizeEnd \/ Publish \/ Backup
  <2>1. UNCHANGED <<has_merged, merged>> /\ (merger' = "drop" => merger = "drop")
    BY <1>4 DEF MergerExit, DeleteNothing, ListKeys, AppendStop, AppendDiscard,
                AppendAccept, AnchorMissions, UpdateAnchoringInfo, OptimizeStart,
                OptimizeEnd, Publish, Backup, mapVars, mergerVars, localVars
  <2> QED BY <1>1, <2>1
<1>5. CASE DeleteBlacklisted
  <2>1. /\ merged' = {s \in merged : blacklist[MissionOf[s]] = NoEntry}
        /\ merger' = "bookkeeping" /\ has_merged' = has_merged
    BY <1>5 DEF DeleteBlacklisted
  <2>2. TrajectoryGapless'
    BY <2>1 DEF TrajectoryGapless
  <2> QED BY <2>1, <2>2
<1>6. CASE DeleteBookkeeping \/ DropMergedMap
  <2>1. merged' = merged /\ (merged = {} \/ (merger' # "drop" /\ has_merged' = has_merged))
    BY <1>6 DEF DeleteBookkeeping, DropMergedMap, mapVars
  <2> QED BY <2>1 DEF TrajectoryGapless
<1>7. CASE AppendMerge
  <2> DEFINE s == PathOf[Head(queue)]
  <2>1. s \in Paths
    BY <1>7, ConstantsAssumption, HeadAndTail
       DEF AppendMerge, AcceptedIndexed, TypeOK, QueueType
  <2>2. CASE has_merged /\ ~CanAttach(s)
    BY <1>1, <1>7, <2>2 DEF AppendMerge, mapVars
  <2>3. CASE ~(has_merged /\ ~CanAttach(s))
    <3>1. merged' = merged \cup {s} /\ has_merged' = TRUE /\ merger' = "front"
      BY <1>7, <2>3 DEF AppendMerge
    <3>2. merged = {} \/ CanAttach(s)
      BY <2>3
    <3> HIDE DEF s
    <3> QED BY <2>1, <3>1, <3>2, GaplessGrows
  <2> QED BY <2>2, <2>3
<1> QED BY <1>2, <1>3, <1>4, <1>5, <1>6, <1>7
        DEF Next, Running, Stopped, ClientNext, RequestNext, MergerNext

-----------------------------------------------------------------------------
(***************************************************************************)
(* The pose with which a submap came in is recorded under the name of its  *)
(* robot before the submap is merged, and kept as long as the mission is.  *)
(* The record is looked up by the robot of the mission, so this needs      *)
(* that no mission comes from two robots.                                  *)
(***************************************************************************)
OneRobotPerMission ==
  \A p, q \in Procs : Mission(p) = Mission(q) => RobotOf[p] = RobotOf[q]

InputKept(s) ==
  LET r == robot_of[MissionOf[s]]
  IN  r \in Robots /\ robot_info[r] # NoEntry /\ s \in robot_info[r].inputs

PoseInv ==
  /\ \A p \in Procs : robot_of[Mission(p)] \in Robots => robot_of[Mission(p)] = RobotOf[p]
  /\ \A p \in Procs : task[p] \in {"processing", "ready"} =>
       InputKept(PathOf[p]) \/ blacklist[Mission(p)] # NoEntry
  /\ merger = "merge" => InputKept(PathOf[Head(queue)])
  /\ \A s \in merged : InputKept(s)

\* Steps that keep the records.
LEMMA PoseKept ==
  ASSUME TypeOK, PoseInv, NEW kept,
         \A s \in kept : InputKept(s) => InputKept(s)',
         \A p \in Procs : robot_of'[Mission(p)] \in Robots =>
                            robot_of'[Mission(p)] = robot_of[Mission(p)],
         \A p \in Procs : blacklist[Mission(p)] # NoEntry => blacklist'[Mission(p)] # NoEntry,
         \A p \in Procs : task'[p] \in {"processing", "ready"} =>
                            /\ task[p] \in {"processing", "ready"}
                            /\ PathOf[p] \in kept \/ blacklist[Mission(p)] # NoEntry,
         merger' = "merge" => merger = "merge" /\ queue' = queue /\ PathOf[Head(queue)] \in kept,
         merged' \subseteq merged \cap kept
  PROVE  PoseInv'
<1>1. \A p \in Procs : robot_of'[Mission(p)] \in Robots => robot_of'[Mission(p)] = RobotOf[p]
  BY DEF PoseInv
<1>2. \A p \in Procs : task'[p] \in {"processing", "ready"} =>
        InputKept(PathOf[p])' \/ blacklist'[Mission(p)] # NoEntry
  BY DEF PoseInv
<1>3. merger' = "merge" => InputKept(PathOf[Head(queue)])' /\ queue' = queue
  BY DEF PoseInv
<1>4. \A s \in merged' : InputKept(s)'
  BY DEF PoseInv
<1> QED BY <1>1, <1>2, <1>3, <1>4 DEF PoseInv, Mission, InputKept

LEMMA PoseQuiet ==
  ASSUME TypeOK, PoseInv, UNCHANGED <<robot_info, robot_of>>, merged' \subseteq merged,
         \A p \in Procs : blacklist[Mission(p)] # NoEntry => blacklist'[Mission(p)] # NoEntry,
         \A p \in Procs : task'[p] \in {"processing", "ready"} =>
                            task[p] \in {"processing", "ready"},
         merger' = "merge" => merger = "merge" /\ queue' = queue
  PROVE  PoseInv'
<1> DEFINE kept == merged \cup {PathOf[p] : p \in Procs} \cup {PathOf[Head(queue)]}
<1>1. \A s \in kept : InputKept(s) => InputKept(s)'
  BY DEF InputKept
<1>2. \A p \in Procs : PathOf[p] \in kept
  OBVIOUS
<1>3. PathOf[Head(queue)] \in kept /\ merged' \subseteq merged \cap kept
  OBVIOUS
<1> HIDE DEF kept
<1> QED BY <1>1, <1>2, <1>3, PoseKept

LEMMA PoseRecorded ==
  ASSUME TypeOK, QueueInv, PoseInv, OneRobotPerMission, NEW p \in Procs, TaskUpdateRobotInfo(p)
  PROVE  PoseInv'
<1> DEFINE r == RobotOf[p]
           m == Mission(p)
<1>1. /\ r \in Robots /\ m \in Missions /\ PathOf[p] \in Paths /\ NoEntry \notin Robots
      /\ robot_info \in [Robots -> RobotInfo \cup {NoEntry}]
      /\ robot_of \in [Missions -> Names \cup {NoEntry}]
      /\ task \in [Procs -> TaskPc] /\ merged \subseteq Paths
  BY ConstantsAssumption DEF Mission, TypeOK, IndexType, TaskType, MapType
<1>2. /\ UNCHANGED <<queue, merged, merger, blacklist>>
      /\ robot_of' = [robot_of EXCEPT ![m] = r]
      /\ task' = [task EXCEPT ![p] = "processing"]
  BY DEF TaskUpdateRobotInfo, queueVars, mapVars, mergerVars
<1>3. /\ robot_info'[r] # NoEntry
      /\ PathOf[p] \in robot_info'[r].inputs
      /\ robot_info[r] # NoEntry => robot_info[r].inputs \subseteq robot_info'[r].inputs
      /\ \A q \in Robots : q # r => robot_info'[q] = robot_info[q]
  <2>1. PICK missions :
          LET info == IF robot_info[r] = NoEntry THEN NoInfo ELSE robot_info[r]
          IN robot_info' = [robot_info EXCEPT ![r] =
               [missions |-> missions, inputs |-> WithInput(info.inputs, PathOf[p])]]
    BY DEF TaskUpdateRobotInfo
  <2>2. robot_info'[r] \in RobotInfo \cup {NoEntry}
    BY <1>1, RecordedInfo DEF IndexType
  <2>3. Listed(m, r)'
    BY RecordedInfo
  <2>4. robot_info'[r] # NoEntry
    BY <2>3 DEF Listed
  <2> QED BY <1>1, <2>1, <2>4 DEF WithInput
<1> HIDE DEF r, m
<1>4. \A q \in Procs : Mission(q) \in Missions /\ MissionOf[PathOf[q]] = Mission(q)
  BY ConstantsAssumption DEF Mission
<1>5. \A q \in Procs : Mission(q) = m => RobotOf[q] = r
  BY DEF OneRobotPerMission, r, m
<1>6. InputKept(PathOf[p])'
  BY <1>1, <1>2, <1>3, <1>4 DEF InputKept, m
<1>7. ASSUME NEW s, MissionOf[s] \in Missions, InputKept(s)
      PROVE  InputKept(s)'
  <2>1. CASE MissionOf[s] = m
    <3>1. robot_of[m] = r
      BY <2>1, <1>7, <1>4 DEF PoseInv, InputKept, m, r
    <3> QED BY <1>1, <1>2, <1>3, <1>7, <2>1, <3>1 DEF InputKept
  <2>2. CASE MissionOf[s] # m
    <3>1. robot_of'[MissionOf[s]] = robot_of[MissionOf[s]]
      BY <1>1, <1>2, <1>7, <2>2
    <3> QED BY <1>3, <1>7, <3>1 DEF InputKept
  <2> QED BY <2>1, <2>2
<1>8. \A q \in Procs : robot_of'[Mission(q)] \in Robots => robot_of'[Mission(q)] = RobotOf[q]
  <2>1. ASSUME NEW q \in Procs, robot_of'[Mission(q)] \in Robots
        PROVE  robot_of'[Mission(q)] = RobotOf[q]
    <3>1. CASE Mission(q) = m
      BY <1>1, <1>2, <1>5, <3>1
    <3>2. CASE Mission(q) # m
      BY <1>1, <1>2, <1>4, <2>1, <3>2 DEF PoseInv
    <3> QED BY <3>1, <3>2
  <2> QED BY <2>1
<1>9. \A q \in Procs : task'[q] \in {"processing", "ready"} =>
        InputKept(PathOf[q])' \/ blacklist'[Mission(q)] # NoEntry
  <2>1. ASSUME NEW q \in Procs, q # p, task'[q] \in {"processing", "ready"}
        PROVE  InputKept(PathOf[q])' \/ blacklist'[Mission(q)] # NoEntry
    BY <1>1, <1>2, <1>4, <1>7, <2>1 DEF PoseInv
  <2> QED BY <1>6, <2>1
<1>10. merger' = "merge" => InputKept(PathOf[Head(queue)])' /\ queue' = queue
  <2>1. ASSUME merger = "merge"
        PROVE  InputKept(PathOf[Head(queue)])'
    <3>1. InputKept(PathOf[Head(queue)])
      BY <2>1 DEF PoseInv
    <3>2. MissionOf[PathOf[Head(queue)]] \in Missions
      BY <1>4, <2>1, HeadAndTail DEF QueueInv, TypeOK, QueueType
    <3>3. PathOf[Head(queue)]' = PathOf[Head(queue)]
      BY <1>2
    <3> QED BY <1>7, <3>1, <3>2, <3>3 DEF InputKept
  <2> QED BY <1>2, <2>1
<1>11. \A s \in merged' : InputKept(s)'
  <2>1. \A s \in merged : MissionOf[s] \in Missions /\ InputKept(s)
    BY <1>1, ConstantsAssumption DEF PoseInv
  <2> QED BY <1>2, <1>7, <2>1
<1> QED BY <1>8, <1>9, <1>10, <1>11 DEF PoseInv, Mission, InputKept

LEMMA PoseForgotten ==
  ASSUME TypeOK, IndexInv, PoseInv, DeleteBookkeeping
  PROVE  PoseInv'
<1>1. /\ UNCHANGED <<blacklist, task, queue, merged>>
      /\ robot_of' = [m \in Missions |->
                       IF blacklist_copy[m] # NoEntry THEN NoEntry ELSE robot_of[m]]
      /\ robot_info' = [r \in Robots |-> WithoutMissions(r, CopiedOf(r))]
      /\ merger' \in {"drop", "keys"} /\ merger = "bookkeeping"
  BY DEF DeleteBookkeeping, outsideMerger, taskVars, queueVars, mapVars
<1>2. /\ NoEntry \notin Robots
      /\ \A p \in Procs : Mission(p) \in Missions /\ MissionOf[PathOf[p]] = Mission(p)
      /\ \A s \in Paths : MissionOf[s] \in Missions
      /\ PathOf \in [Procs -> Paths] /\ merged \subseteq Paths
      /\ robot_info \in [Robots -> RobotInfo \cup {NoEntry}]
  BY ConstantsAssumption DEF Mission, TypeOK, MapType, IndexType
<1> DEFINE kept == {s \in Paths : blacklist_copy[MissionOf[s]] = NoEntry}
<1>3. ASSUME NEW s \in kept, InputKept(s), NEW r \in Robots, r = robot_of[MissionOf[s]]
      PROVE  InputKept(s)'
  <2>1. MissionOf[s] \in Missions /\ robot_of'[MissionOf[s]] = r
    BY <1>1, <1>2, <1>3
  <2>2. Listed(MissionOf[s], r) /\ MissionOf[s] \notin CopiedOf(r)
    BY <1>2, <1>3, <2>1 DEF IndexInv, IndicesAgree, Indexed, CopiedOf
  <2>3. robot_info'[r] # NoEntry
    BY <2>1, <2>2, ForgottenInfo DEF Listed
  <2>4. robot_info'[r].inputs = robot_info[r].inputs
    <3>1. robot_info'[r] = WithoutMissions(r, CopiedOf(r))
      BY <1>1
    <3>2. robot_info[r] \in RobotInfo \cup {NoEntry}
      BY <1>2
    <3>3. PICK left : \/ WithoutMissions(r, CopiedOf(r)) \in {robot_info[r], NoEntry}
                      \/ /\ WithoutMissions(r, CopiedOf(r)) =
                              [robot_info[r] EXCEPT !.missions = left]
                         /\ robot_info[r] # NoEntry
      BY DEF WithoutMissions
    <3> QED BY <2>3, <3>1, <3>2, <3>3 DEF RobotInfo
  <2> QED BY <1>3, <2>1, <2>3, <2>4 DEF InputKept
<1>4. \A p \in Procs : robot_of'[Mission(p)] \in Robots =>
                         robot_of'[Mission(p)] = robot_of[Mission(p)]
  BY <1>1, <1>2
<1>5. \A p \in Procs : PathOf[p] \in kept \/ blacklist[Mission(p)] # NoEntry
  BY <1>2 DEF IndexInv, CopyDeleted
<1>6. merged' \subseteq merged \cap kept
  BY <1>1, <1>2 DEF IndexInv, CopyDeleted, MissionsIn
<1>7. \A s \in kept : InputKept(s) => InputKept(s)'
  BY <1>3 DEF InputKept
<1> HIDE DEF kept
<1> QED BY <1>1, <1>4, <1>5, <1>6, <1>7, PoseKept

LEMMA PoseLookedUp ==
  ASSUME TypeOK, IndexInv, PoseInv, UpdateAnchoringInfo \/ Publish
  PROVE  PoseInv'
<1>1. /\ UNCHANGED <<blacklist, task, queue, merged>>
      /\ robot_of' = LookUpRobots /\ merger' # "merge"
  BY DEF UpdateAnchoringInfo, Publish, outsideMerger, taskVars, queueVars, mapVars
<1>2. /\ EmptyName \notin Robots /\ NoEntry \notin Robots
      /\ \A p \in Procs : Mission(p) \in Missions /\ MissionOf[PathOf[p]] = Mission(p)
      /\ \A s \in Paths : MissionOf[s] \in Missions
      /\ PathOf \in [Procs -> Paths] /\ merged \subseteq Paths
      /\ robot_info \in [Robots -> RobotInfo \cup {NoEntry}]
  BY ConstantsAssumption DEF Mission, TypeOK, MapType, IndexType
<1>3. \A m \in Missions :
        /\ robot_of[m] \in Robots => robot_of'[m] = robot_of[m]
        /\ robot_of'[m] \in Robots => robot_of'[m] = robot_of[m]
  BY <1>1, <1>2 DEF LookUpRobots
<1>4. \A r \in Robots : robot_info[r] # NoEntry =>
        robot_info'[r] # NoEntry /\ robot_info'[r].inputs = robot_info[r].inputs
  <2>1. CASE UpdateAnchoringInfo
    <3>1. ASSUME NEW r \in Robots, robot_info[r] # NoEntry
          PROVE  robot_info'[r] # NoEntry /\ robot_info'[r].inputs = robot_info[r].inputs
      <4>1. robot_info'[r] =
              [robot_info[r] EXCEPT !.missions = Annotated(r, robot_info[r].missions)]
        BY <2>1, <3>1 DEF UpdateAnchoringInfo
      <4>2. robot_info[r] \in RobotInfo
        BY <1>2, <3>1
      <4>3. robot_info'[r].inputs = robot_info[r].inputs
        BY <4>1, <4>2 DEF RobotInfo
      <4>4. robot_info'[r] # NoEntry
        <5>1. robot_info[r].missions # <<>> /\ robot_info[r].missions \in Seq(Entries)
          BY <3>1, <4>2 DEF IndexInv, ListsNonEmpty, RobotInfo
        <5>2. Listed(robot_info[r].missions[1].id, r) /\ robot_info[r].missions[1].id \in Missions
          <6>1. 1 \in DOMAIN robot_info[r].missions /\ robot_info[r].missions[1] \in Entries
            BY <5>1
          <6> QED BY <3>1, <6>1 DEF Listed, Entries
        <5>3. ASSUME NEW m \in Missions, Listed(m, r)
              PROVE  robot_info'[r] # NoEntry
          BY <2>1, <5>3, AnnotatedInfo DEF Listed
        <5> QED BY <5>2, <5>3
      <4> QED BY <4>3, <4>4
    <3> QED BY <3>1
  <2>2. CASE Publish
    BY <2>2 DEF Publish
  <2> QED BY <2>1, <2>2
<1>5. \A s \in Paths : InputKept(s) => InputKept(s)'
  BY <1>2, <1>3, <1>4 DEF InputKept
<1>6. /\ \A p \in Procs : PathOf[p] \in Paths
      /\ merged' \subseteq merged \cap Paths
  BY <1>1, <1>2
<1> QED BY <1>1, <1>2, <1>3, <1>5, <1>6, PoseKept

LEMMA PoseAppend ==
  ASSUME TypeOK, IndexInv, PoseInv, AppendAccept \/ AppendMerge
  PROVE  PoseInv'
<1>1. UNCHANGED <<robot_info, robot_of, blacklist, task>>
  BY DEF AppendAccept, AppendMerge, outsideMerger, taskVars, indexVars
<1>2. \A s : InputKept(s) => InputKept(s)'
  BY <1>1 DEF InputKept
<1>3. CASE AppendAccept
  <2>1. /\ queue # <<>> /\ task[Head(queue)] \in {"ready", "skipped"}
        /\ blacklist[Mission(Head(queue))] = NoEntry
        /\ UNCHANGED <<queue, merged>>
    BY <1>3 DEF AppendAccept, FrontReady, Acceptable, queueVars, mapVars
  <2>2. Head(queue) \in Procs
    BY <2>1, HeadAndTail DEF TypeOK, QueueType
  <2>3. InputKept(PathOf[Head(queue)])
    BY <2>1, <2>2 DEF IndexInv, SkippedDeleted, PoseInv
  <2> QED BY <1>1, <1>2, <2>1, <2>3 DEF PoseInv, InputKept, Mission
<1>4. CASE AppendMerge
  <2>1. CASE UNCHANGED <<merged, queue, merger>>
    BY <1>1, <2>1, PoseQuiet
  <2>2. CASE merged' = merged \cup {PathOf[Head(queue)]} /\ merger' = "front"
    <3>1. InputKept(PathOf[Head(queue)])
      BY <1>4 DEF AppendMerge, PoseInv
    <3> QED BY <1>1, <1>2, <2>2, <3>1 DEF PoseInv, InputKept, Mission
  <2> QED BY <1>4, <2>1, <2>2 DEF AppendMerge, mapVars, queueVars
<1> QED BY <1>3, <1>4

LEMMA PoseStep ==
  ASSUME TypeOK, IndexInv, QueueInv, PoseInv, OneRobotPerMission, [Next]_vars
  PROVE  PoseInv'
<1>1. ASSUME NEW p \in Procs,
             \/ LoadBegin(p) \/ LoadEnqueue(p) \/ TaskStart(p) \/ TaskLoad(p)
             \/ TaskCheckBlacklist(p) \/ TaskFinish(p)
      PROVE  PoseInv'
  <2>1. UNCHANGED <<robot_info, robot_of, blacklist, merged, merger>>
    BY <1>1 DEF LoadBegin, LoadEnqueue, TaskStart, TaskLoad, TaskCheckBlacklist,
                TaskFinish, mapVars, indexVars, mergerVars
  <2>2. merger = "merge" => queue' = queue
    BY <1>1 DEF LoadBegin, LoadEnqueue, TaskStart, TaskLoad, TaskCheckBlacklist,
                TaskFinish, queueVars, QueueFree
  <2>3. task \in [Procs -> TaskPc]
    BY DEF TypeOK, TaskType
  <2>4. \A q \in Procs : \/ task'[q] = task[q]
                         \/ task'[q] \notin {"processing", "ready"}
                         \/ task[q] = "processing" /\ task'[q] = "ready"
    BY <1>1, <2>3 DEF LoadBegin, LoadEnqueue, TaskStart, TaskLoad, TaskCheckBlacklist,
                      TaskFinish
  <2> QED BY <2>1, <2>2, <2>4, PoseQuiet
<1>2. ASSUME NEW p \in Procs, TaskUpdateRobotInfo(p)
      PROVE  PoseInv'
  BY <1>2, PoseRecorded
<1>3. CASE \/ MergerExit \/ DeleteNothing \/ DeleteBlacklisted \/ DropMergedMap \/ ListKeys
           \/ AppendStop \/ AppendDiscard \/ AnchorMissions \/ OptimizeStart \/ OptimizeEnd
           \/ Backup
  <2>1. /\ UNCHANGED <<robot_info, robot_of, blacklist, task>>
        /\ merged' \subseteq merged /\ merger' # "merge"
    BY <1>3 DEF MergerExit, DeleteNothing, DeleteBlacklisted, DropMergedMap, ListKeys,
                AppendStop, AppendDiscard, AnchorMissions, OptimizeStart, OptimizeEnd, Backup,
                outsideMerger, taskVars, mapVars, indexVars, mergerVars
  <2> QED BY <2>1, PoseQuiet
<1>4. CASE \/ ShutdownBegin \/ ShutdownStep \/ StatusExit \/ AccessMerged
           \/ GetDenseMapInRange \/ VisualizeMap \/ SaveMap
           \/ (\E prefix \in Prefixes : DeleteMission(prefix))
           \/ (\E r \in Robots : DeleteAllRobotMissions(r) \/ MapLookup(r))
           \/ UNCHANGED vars
  <2>1. UNCHANGED <<robot_info, robot_of, blacklist, merged, task, merger, queue>>
    BY <1>4 DEF ShutdownBegin, ShutdownStep, StatusExit, AccessMerged,
                GetDenseMapInRange, VisualizeMap, SaveMap, DeleteMission,
                DeleteAllRobotMissions, MapLookup, outsideServer, outsideClient, vars,
                taskVars, queueVars, mapVars, indexVars, mergerVars, localVars
  <2> QED BY <2>1, PoseQuiet
<1>5. CASE Blacklist
  <2>1. UNCHANGED <<robot_info, robot_of, merged, task, merger, queue>>
    BY <1>5 DEF Blacklist, outsideClient, taskVars, queueVars, mapVars, indexVars, mergerVars
  <2>2. \A p \in Procs : blacklist[Mission(p)] # NoEntry => blacklist'[Mission(p)] # NoEntry
    BY <1>5, BlacklistGrows, ConstantsAssumption DEF Mission
  <2> QED BY <2>1, <2>2, PoseQuiet
<1>6. CASE \/ DeleteBookkeeping \/ AppendAccept \/ AppendMerge
           \/ UpdateAnchoringInfo \/ Publish
  BY <1>6, PoseForgotten, PoseAppend, PoseLookedUp
<1> QED BY <1>1, <1>2, <1>3, <1>4, <1>5, <1>6
        DEF Next, Running, Stopped, ClientNext, RequestNext, MergerNext, TaskNext

-----------------------------------------------------------------------------
(***************************************************************************)
(* The theorems.                                                           *)
(***************************************************************************)
LEMMA Inductive == Spec => [](TypeOK /\ IndexInv /\ MapInv)
<1>1. Init => TypeOK /\ IndexInv /\ MapInv
  <2>1. Init => MapInv
    BY DEF Init, MapInv
  <2> QED BY <2>1, TypeInit, IndexInit
<1>2. (TypeOK /\ IndexInv /\ MapInv) /\ [Next]_vars => (TypeOK /\ IndexInv /\ MapInv)'
  BY TypeStep, IndexStep, MapStep
<1> QED BY <1>1, <1>2, PTL DEF Spec

\* The state of the server is always well formed.  The queue is not empty when its
\* front is merged and the list of a robot is not empty when its front is read, so
\* that what the code takes from them is a submap and a mission.
THEOREM TypeCorrect == Spec => []TypeOK
BY Inductive, PTL

\* Every mission of the merged map has a robot that lists it, for any number of
\* robots, missions, submaps and pool threads, whatever clients delete and whenever.
THEOREM IndexCorrect == Spec => []MergedMissionsIndexed
<1>1. TypeOK /\ IndexInv => MergedMissionsIndexed
  BY MergedMissions
     DEF IndexInv, IndicesAgree, MergedIndexed, Indexed, MergedMissionsIndexed
<1> QED BY <1>1, Inductive, PTL

\* The list of a robot that mapLookup knows has a front.
THEOREM LookupListsNonEmpty == Spec => []ListsNonEmpty
<1>1. IndexInv => ListsNonEmpty
  BY DEF IndexInv
<1> QED BY <1>1, Inductive, PTL

\* The flag received_first_submap never lets the merging thread work on a merged map
\* that is absent or empty.
THEOREM FlagCorrect == Spec => []FlagAgreesWithMap
<1>1. MapInv => FlagAgreesWithMap
  BY DEF MapInv, FlagAgreesWithMap
<1> QED BY <1>1, Inductive, PTL

\* What the merging thread and a lookup take for granted of the indices, the lists and the
\* merged map holds together: the three theorems above, for every number of everything.
THEOREM ServerAgreement == Spec => []ServerAgrees
BY IndexCorrect, LookupListsNonEmpty, FlagCorrect, PTL DEF ServerAgrees

\* A deleted mission never comes back into the merged map once it is out of it and no
\* submap of it has been accepted.
THEOREM DeletionFinal == Spec => DeletedStaysDeleted
<1>1. (TypeOK /\ IndexInv /\ MapInv) /\ [Next]_vars =>
        [\A m \in Missions : Gone(m) => Gone(m)']_vars
  BY GoneStep
<1> QED BY <1>1, Inductive, PTL DEF Spec, DeletedStaysDeleted

LEMMA InductiveQueue == Spec => [](QueueInv /\ MapOfItsOwn /\ GapInv)
<1>1. Init => QueueInv /\ MapOfItsOwn /\ GapInv
  <2>1. Init => QueueInv
    BY DEF Init, QueueInv, Queued, Distinct, Idle
  <2>2. Init => MapOfItsOwn
    BY DEF Init, MapOfItsOwn, Loaded, Locked
  <2>3. Init => GapInv
    BY DEF Init, GapInv, TrajectoryGapless
  <2> QED BY <2>1, <2>2, <2>3
<1>2. (TypeOK /\ IndexInv /\ MapInv) /\ (QueueInv /\ MapOfItsOwn /\ GapInv) /\ [Next]_vars
        => (QueueInv /\ MapOfItsOwn /\ GapInv)'
  BY QueueStep, OwnStep, GapStep DEF IndexInv
<1> QED BY <1>1, <1>2, Inductive, PTL DEF Spec

\* The entry that a task of the pool was given by reference is in the queue while the task
\* runs, for any number of tasks: only entries whose task has ended are merged or discarded.
THEOREM TaskReferences == Spec => []TaskReferenceValid
<1>1. QueueInv => TaskReferenceValid
  <2> SUFFICES ASSUME QueueInv, NEW p \in Procs, task[p] \in {"queued"} \cup Locked
               PROVE  Queued(p)
    BY DEF TaskReferenceValid, Queued
  <2> QED BY DEF QueueInv, Locked
<1> QED BY <1>1, InductiveQueue, PTL

\* No two entries share a map, even if any number of notifications name one folder.
THEOREM MapsOfTheirOwn == Spec => []MapOfItsOwn
BY InductiveQueue, PTL

\* The trajectory of a mission in the merged map has no holes, whatever is lost, deleted or
\* comes in twice.
THEOREM TrajectoriesGapless == Spec => []TrajectoryGapless
<1>1. GapInv => TrajectoryGapless
  BY DEF GapInv
<1> QED BY <1>1, InductiveQueue, PTL

\* When poses are published, the input pose of the last submap of every mission is there:
\* bookkeeping never erases the records of a robot that still has a mission in the map.
THEOREM InputPosesKept ==
  ASSUME OneRobotPerMission
  PROVE  Spec => []LastInputPoseKept
<1>1. Init => PoseInv
  <2>1. NoEntry \notin Robots /\ \A p \in Procs : Mission(p) \in Missions
    BY ConstantsAssumption DEF Mission
  <2> QED BY <2>1 DEF Init, PoseInv
<1>2. (TypeOK /\ IndexInv /\ MapInv) /\ (QueueInv /\ MapOfItsOwn /\ GapInv)
        /\ PoseInv /\ [Next]_vars => PoseInv'
  BY PoseStep
<1>3. PoseInv => LastInputPoseKept
  BY DEF PoseInv, InputKept, LastInputPoseKept
<1> QED BY <1>1, <1>2, <1>3, Inductive, InductiveQueue, PTL DEF Spec
=============================================================================
