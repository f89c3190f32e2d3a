---------------------------- MODULE MaplabServer ----------------------------
(***************************************************************************)
(* The maplab server node: robots announce submaps, a thread pool loads    *)
(* and processes them in parallel, one merging thread appends them in the  *)
(* order of their arrival to the merged map and optimizes it, and clients  *)
(* look things up in the merged map and delete missions from it.           *)
(*                                                                         *)
(* Source: applications/maplab-server-node/src/maplab-server-node.cc and   *)
(* the header beside it.                                                   *)
(*                                                                         *)
(* A submap is the name of its folder (a path): it covers the IndexOf-th   *)
(* stretch of the trajectory of one mission, and its first vertex is the   *)
(* last vertex of the stretch before.  A map held by the map manager is    *)
(* known by its key; the merged map is the set of the submaps it contains. *)
(*                                                                         *)
(* Operators named after a slip (Unchecked, Stale, ...) are mutated forms  *)
(* of the definition below them; no action uses them.                      *)
(***************************************************************************)
EXTENDS Integers, Sequences, FiniteSets

CONSTANTS
  Procs,       \* SubmapProcess entries: one for every map update notification
  Paths,       \* submap folders
  Robots,
  Missions,
  PathOf,      \* the folder a notification names
  RobotOf,     \* the robot a notification comes from
  MissionOf,   \* the mission of a submap
  IndexOf,     \* the position of a submap in the trajectory of its mission
  HasAbs6DoF,  \* the submaps that carry absolute pose constraints
  Prefixes,    \* for each partial mission id: the missions whose id it begins
  Requests,    \* the operations clients call
  PoolSize,    \* maplab_server_submap_loading_thread_pool_size
  ResetEvery,  \* maplab_server_reset_trust_region_radius_every_nth_submap
  Backups,     \* maplab_server_backup_interval_s > 0
  NoEntry      \* a key that is absent from a std::unordered_map

EmptyName == "<empty>"   \* the name operator[] inserts for an unknown mission

ASSUME ConstantsAssumption ==
  /\ IsFiniteSet(Procs)
  /\ PathOf \in [Procs -> Paths]
  /\ RobotOf \in [Procs -> Robots]
  /\ MissionOf \in [Paths -> Missions]
  /\ IndexOf \in [Paths -> Nat \ {0}]
  /\ HasAbs6DoF \subseteq Paths
  /\ Prefixes \subseteq SUBSET Missions
  /\ PoolSize \in Nat \ {0}
  /\ ResetEvery \in Nat
  /\ Backups \in BOOLEAN
  /\ NoEntry \notin Robots
  /\ EmptyName \notin Robots \cup {NoEntry}

VARIABLES
  shut_down_requested,   \* shut_down_requested_
  shutdown,              \* progress of shutdown(), which holds mutex_
  status_running,        \* the status thread has not left its loop
  request,               \* the client operation that holds mutex_
  queue,                 \* submap_processing_queue_
  pool,                  \* groupid_tasks_ of submap_loading_thread_pool_
  task,                  \* progress of the task of every SubmapProcess
  fishy,                 \* entries whose key had to be changed
  fate,                  \* what the merging thread did with an entry
  stored,                \* keys of the submaps in the map manager
  has_merged,            \* the map manager holds a map under kMergedMapKey
  merged,                \* the submaps in the merged map
  known,                 \* missions of the merged map with a known baseframe
  robot_info,            \* robot_to_mission_id_map_
  robot_of,              \* mission_id_to_robot_map_
  blacklist,             \* blacklisted_missions_
  merger,                \* program counter of the merging thread
  received_first,        \* its local received_first_submap
  blacklist_copy,        \* its local blacklisted_missions_copy
  radius,                \* optimization_trust_region_radius_
  solver_radius,         \* options.solver_options.initial_trust_region_radius
  last_reset,            \* num_submaps_at_last_trust_region_reset
  crash                  \* the CHECK that aborted the process

serverVars == <<shut_down_requested, shutdown, status_running>>
taskVars   == <<pool, task, fishy>>
queueVars  == <<queue, fate>>
mapVars    == <<stored, has_merged, merged, known>>
indexVars  == <<robot_info, robot_of>>
localVars  == <<received_first, blacklist_copy>>
solverVars == <<radius, solver_radius, last_reset>>

vars == <<serverVars, request, taskVars, queueVars, mapVars, indexVars, blacklist,
          merger, localVars, solverVars, crash>>

\* What the merging thread shares with nobody but reads, and what it leaves alone.
outsideMerger == <<serverVars, request, taskVars, blacklist>>
mergerVars    == <<merger, localVars>>
-----------------------------------------------------------------------------
(***************************************************************************)
(* The program counters.  The flags is_loaded and is_processed of a        *)
(* SubmapProcess and its mutex are functions of task, is_merged of fate.   *)
(***************************************************************************)
Locked == {"loading", "checking", "recording", "processing"}
TaskPc == {"new", "ignored", "announced", "queued", "ready", "skipped"} \cup Locked

MergerPc == {"loop", "bookkeeping", "drop", "keys", "front", "merge", "anchor",
             "annotate", "optimize", "solving", "publish", "backup", "done"}

Names     == Robots \cup {EmptyName}
Entries   == [id : Missions, known : BOOLEAN]   \* mission_ids_with_baseframe_status
RobotInfo == [missions : Seq(Entries), inputs : SUBSET Paths]
NoInfo    == [missions |-> <<>>, inputs |-> {}]   \* a default-constructed entry
Idle      == [op |-> "none"]
Request   == {Idle}
             \cup [op : {"load"}, proc : Procs]
             \cup [op : {"blacklist"}, missions : SUBSET Missions, robot : Names]
             \cup [op : {"lookup"}, mission : Missions]
             \cup [op : {"dense", "visualize", "save"}]

ASSUME NoEntryAssumption == NoEntry \notin RobotInfo

Mission(p) == MissionOf[PathOf[p]]
MapKey(p)  == <<RobotOf[p], PathOf[p], p \in fishy>>
MapKeys    == Robots \X Paths \X BOOLEAN

\* Every public operation locks mutex_ first and keeps it until it returns.
MutexFree == request = Idle /\ shutdown \in {"no", "done"}

\* appendAvailableSubmaps keeps submap_processing_queue_mutex_ over its loop.
QueueFree == merger \notin {"front", "merge"}

\* The merging thread keeps its write access to the merged map over two steps.
MergedFree == merger \notin {"bookkeeping", "solving"}

Active == {p \in Procs : task[p] \in Locked}   \* the busy threads of the pool

NumMerged == Cardinality({p \in Procs : fate[p] = "merged"})

MissionsIn(submaps) == {MissionOf[s] : s \in submaps}
IsLast(s, submaps) ==
  /\ s \in submaps
  /\ \A t \in submaps : MissionOf[t] = MissionOf[s] => IndexOf[t] <= IndexOf[s]

\* std::list::erase of every entry of a mission in ms; the rest keeps its order.
Kept(list, ms) == {i \in DOMAIN list : list[i].id \notin ms}
Without(list, ms) ==
  LET kept  == Kept(list, ms)
      at(j) == CHOOSE i \in kept : Cardinality({k \in kept : k <= i}) = j
  IN  [j \in 1 .. Cardinality(kept) |-> list[at(j)]]

Init ==
  /\ shut_down_requested = FALSE /\ shutdown = "no" /\ status_running = TRUE
  /\ request = Idle
  /\ pool = <<>> /\ task = [p \in Procs |-> "new"] /\ fishy = {}
  /\ queue = <<>> /\ fate = [p \in Procs |-> "none"]
  /\ stored = {} /\ has_merged = FALSE /\ merged = {} /\ known = {}
  /\ robot_info = [r \in Robots |-> NoEntry]
  /\ robot_of = [m \in Missions |-> NoEntry]
  /\ blacklist = [m \in Missions |-> NoEntry]
  /\ merger = "loop" /\ received_first = FALSE
  /\ blacklist_copy = [m \in Missions |-> NoEntry]
  /\ radius = "initial" /\ solver_radius = "initial" /\ last_reset = 0
  /\ crash = "none"
-----------------------------------------------------------------------------
(***************************************************************************)
(* Map update notifications: loadAndProcessSubmap.                         *)
(***************************************************************************)
LoadBegin(p) ==
  /\ MutexFree
  /\ task[p] = "new"
  /\ IF shut_down_requested
     THEN task' = [task EXCEPT ![p] = "ignored"] /\ UNCHANGED request
     ELSE /\ task' = [task EXCEPT ![p] = "announced"]
          /\ request' = [op |-> "load", proc |-> p]
  /\ UNCHANGED <<serverVars, pool, fishy, queueVars, mapVars, indexVars, blacklist,
                 mergerVars, solverVars, crash>>

LoadEnqueue(p) ==
  /\ request = [op |-> "load", proc |-> p]
  /\ QueueFree
  /\ queue' = Append(queue, p)
  /\ pool' = Append(pool, p)
  /\ task' = [task EXCEPT ![p] = "queued"]
  /\ request' = Idle
  /\ UNCHANGED <<serverVars, fishy, fate, mapVars, indexVars, blacklist, mergerVars,
                 solverVars, crash>>

(***************************************************************************)
(* The task a thread of the pool runs for one submap.  Tasks without an    *)
(* exclusivity group are started in the order they were enqueued.          *)
(***************************************************************************)
TaskStart(p) ==
  /\ pool # <<>> /\ p = Head(pool)
  /\ Cardinality(Active) < PoolSize
  /\ pool' = Tail(pool)
  /\ task' = [task EXCEPT ![p] = "loading"]
  /\ fishy' = IF MapKey(p) \in stored THEN fishy \cup {p} ELSE fishy
  /\ UNCHANGED <<serverVars, request, queueVars, mapVars, indexVars, blacklist,
                 mergerVars, solverVars, crash>>

\* loadMapFromFolder reads the folder without a lock and asks once more.
KeyTakenUnchecked(p) == FALSE
KeyTaken(p) == MapKey(p) \in stored

TaskLoad(p) ==
  /\ task[p] = "loading"
  /\ IF KeyTaken(p)
     THEN crash' = "load" /\ UNCHANGED <<task, stored>>
     ELSE /\ stored' = stored \cup {MapKey(p)}
          /\ task' = [task EXCEPT ![p] = "checking"]
          /\ UNCHANGED crash
  /\ UNCHANGED <<serverVars, request, pool, fishy, queueVars, has_merged, merged,
                 known, indexVars, blacklist, mergerVars, solverVars>>

TaskCheckBlacklist(p) ==
  /\ task[p] = "checking"
  /\ task' = [task EXCEPT ![p] = IF blacklist[Mission(p)] # NoEntry
                                 THEN "skipped" ELSE "recording"]
  /\ UNCHANGED <<serverVars, request, pool, fishy, queueVars, mapVars, indexVars,
                 blacklist, mergerVars, solverVars, crash>>

\* updateRobotInfoBasedOnSubmap: a new mission of the robot goes to the front, and
\* the pose of the last vertex of the submap is kept as it came in.
WithMission(list, m) == <<[id |-> m, known |-> FALSE]>> \o list

WithInputOnly(inputs, s) == {s}
WithInput(inputs, s) == inputs \cup {s}

TaskUpdateRobotInfo(p) ==
  LET r         == RobotOf[p]
      m         == Mission(p)
      info      == IF robot_info[r] = NoEntry THEN NoInfo ELSE robot_info[r]
      new_robot == info.missions = <<>> \/ info.missions[1].id # m
  IN  /\ task[p] = "recording"
      /\ robot_info' = [robot_info EXCEPT ![r] =
           [missions |-> IF new_robot THEN WithMission(info.missions, m)
                                      ELSE info.missions,
            inputs   |-> WithInput(info.inputs, PathOf[p])]]
      /\ robot_of' = [robot_of EXCEPT ![m] = r]
      /\ radius' = IF new_robot THEN "initial" ELSE radius
      /\ task' = [task EXCEPT ![p] = "processing"]
      /\ UNCHANGED <<serverVars, request, pool, fishy, queueVars, mapVars,
                     blacklist, mergerVars, solver_radius, last_reset, crash>>

\* runSubmapProcessing works on the submap alone.
TaskFinish(p) ==
  /\ task[p] = "processing"
  /\ task' = [task EXCEPT ![p] = "ready"]
  /\ UNCHANGED <<serverVars, request, pool, fishy, queueVars, mapVars, indexVars,
                 blacklist, mergerVars, solverVars, crash>>

TaskNext(p) == \/ TaskStart(p) \/ TaskLoad(p) \/ TaskCheckBlacklist(p)
               \/ TaskUpdateRobotInfo(p) \/ TaskFinish(p)
-----------------------------------------------------------------------------
(***************************************************************************)
(* The merging thread.  It tests shut_down_requested_ at the head of its   *)
(* loop and deletes the blacklisted missions first.                        *)
(***************************************************************************)
LoopConditionOrReceived == ~shut_down_requested \/ received_first
LoopCondition == ~shut_down_requested

MergerExit ==
  /\ merger = "loop"
  /\ ~LoopCondition
  /\ merger' = "done"
  /\ UNCHANGED <<outsideMerger, queueVars, mapVars, indexVars, localVars,
                 solverVars, crash>>

NothingToDeleteStale == ~has_merged \/ \A m \in Missions : blacklist_copy[m] = NoEntry
NothingToDelete == ~has_merged \/ \A m \in Missions : blacklist[m] = NoEntry

DeleteNothing ==
  /\ merger = "loop"
  /\ LoopCondition
  /\ NothingToDelete
  /\ received_first' = (received_first /\ has_merged)
  /\ merger' = "keys"
  /\ UNCHANGED <<outsideMerger, queueVars, mapVars, indexVars, blacklist_copy,
                 solverVars, crash>>

\* Copies the blacklist and removes its missions from the merged map, under a
\* write access that DeleteBookkeeping gives back.
DeleteBlacklisted ==
  /\ merger = "loop"
  /\ LoopCondition
  /\ ~NothingToDelete
  /\ blacklist_copy' = blacklist
  /\ merged' = {s \in merged : blacklist[MissionOf[s]] = NoEntry}
  /\ known' = {m \in known : blacklist[m] = NoEntry}
  /\ merger' = "bookkeeping"
  /\ UNCHANGED <<outsideMerger, queueVars, stored, has_merged, indexVars,
                 received_first, solverVars, crash>>

\* The missions of the copy that were blacklisted under the name of robot r.
CopiedOfLive(r) == {m \in Missions : blacklist[m] = r}
CopiedOf(r) == {m \in Missions : blacklist_copy[m] = r}

\* The entry of a robot that has lost its last mission is erased, with its inputs.
WithoutMissions(r, ms) ==
  IF ms = {} \/ robot_info[r] = NoEntry THEN robot_info[r]
  ELSE LET left == Without(robot_info[r].missions, ms)
       IN  IF left = <<>> THEN NoEntry
           ELSE [robot_info[r] EXCEPT !.missions = left]

DeleteBookkeeping ==
  /\ merger = "bookkeeping"
  /\ robot_of' = [m \in Missions |->
                    IF blacklist_copy[m] # NoEntry THEN NoEntry ELSE robot_of[m]]
  /\ robot_info' = [r \in Robots |-> WithoutMissions(r, CopiedOf(r))]
  /\ blacklist_copy' = [m \in Missions |-> NoEntry]
  /\ merger' = IF merged = {} THEN "drop" ELSE "keys"
  /\ UNCHANGED <<outsideMerger, queueVars, mapVars, received_first, solverVars,
                 crash>>

\* deleteMap(kMergedMapKey), after the write access has been given back; the
\* return value FALSE resets received_first_submap.
DropMergedMap ==
  /\ merger = "drop"
  /\ has_merged' = FALSE
  /\ received_first' = FALSE
  /\ merger' = "keys"
  /\ UNCHANGED <<outsideMerger, queueVars, stored, merged, known, indexVars,
                 blacklist_copy, solverVars, crash>>

ListKeys ==
  /\ merger = "keys"
  /\ merger' = IF ~received_first /\ stored = {} /\ ~has_merged
               THEN "loop" ELSE "front"
  /\ UNCHANGED <<outsideMerger, queueVars, mapVars, indexVars, localVars,
                 solverVars, crash>>
-----------------------------------------------------------------------------
(***************************************************************************)
(* appendAvailableSubmaps: take submaps from the front of the queue until  *)
(* it is empty, a shutdown is requested, or the front is still worked on.  *)
(***************************************************************************)
FrontLoaded    == /\ queue # <<>>
                  /\ ~shut_down_requested
                  /\ task[Head(queue)] \in {"processing", "ready", "skipped"}
FrontProcessed == /\ queue # <<>>
                  /\ ~shut_down_requested
                  /\ task[Head(queue)] = "ready"
FrontReady     == /\ queue # <<>>
                  /\ ~shut_down_requested
                  /\ task[Head(queue)] \in {"ready", "skipped"}

AppendStop ==
  /\ merger = "front"
  /\ ~FrontReady
  /\ merger' = IF received_first THEN "anchor" ELSE "loop"
  /\ UNCHANGED <<outsideMerger, queueVars, mapVars, indexVars, localVars,
                 solverVars, crash>>

AppendDiscard ==
  LET p == Head(queue)
  IN  /\ merger = "front"
      /\ FrontReady
      /\ blacklist[Mission(p)] # NoEntry
      /\ stored' = stored \ {MapKey(p)}
      /\ fate' = [fate EXCEPT ![p] = "discarded"]
      /\ queue' = Tail(queue)
      /\ UNCHANGED <<outsideMerger, has_merged, merged, known, indexVars,
                     mergerVars, solverVars, crash>>

AcceptableUnchecked(p) == TRUE
Acceptable(p) == blacklist[Mission(p)] = NoEntry

AppendAccept ==
  /\ merger = "front"
  /\ FrontReady
  /\ Acceptable(Head(queue))
  /\ merger' = "merge"
  /\ UNCHANGED <<outsideMerger, queueVars, mapVars, indexVars, localVars,
                 solverVars, crash>>

\* mergeSubmapIntoBaseMap: a submap of a mission the base map has must begin at
\* the last vertex of that mission.
CanAttachLater(s) ==
  \/ MissionOf[s] \notin MissionsIn(merged)
  \/ \E t \in merged : /\ IsLast(t, merged)
                       /\ MissionOf[t] = MissionOf[s]
                       /\ IndexOf[s] > IndexOf[t]
CanAttach(s) ==
  \/ MissionOf[s] \notin MissionsIn(merged)
  \/ \E t \in merged : /\ IsLast(t, merged)
                       /\ MissionOf[t] = MissionOf[s]
                       /\ IndexOf[s] = IndexOf[t] + 1

\* The first submap becomes the merged map, and its baseframe the known one.
AppendMerge ==
  LET p == Head(queue)
      s == PathOf[p]
  IN  /\ merger = "merge"
      /\ IF has_merged /\ ~CanAttach(s)
         THEN /\ crash' = "merge"
              /\ UNCHANGED <<mapVars, queueVars, received_first, merger>>
         ELSE /\ merged' = merged \cup {s}
              /\ known' = IF has_merged THEN known ELSE {MissionOf[s]}
              /\ has_merged' = TRUE
              /\ received_first' = (received_first \/ ~has_merged)
              /\ stored' = stored \ {MapKey(p)}
              /\ fate' = [fate EXCEPT ![p] = "merged"]
              /\ queue' = Tail(queue)
              /\ merger' = "front"
              /\ UNCHANGED crash
      /\ UNCHANGED <<outsideMerger, indexVars, blacklist_copy, solverVars>>
-----------------------------------------------------------------------------
(***************************************************************************)
(* runOneIterationOfMapMergingAlgorithms, publishing and the backup.       *)
(***************************************************************************)
Anchored == known \cup MissionsIn(merged \cap HasAbs6DoF)

\* Missions with absolute constraints are anchored; vision may then align other
\* missions to the anchored ones, if there is one.
AnchorMissions ==
  /\ merger = "anchor"
  /\ \E aligned \in SUBSET (MissionsIn(merged) \ Anchored) :
       /\ Anchored = {} => aligned = {}
       /\ known' = Anchored \cup aligned
  /\ merger' = "annotate"
  /\ UNCHANGED <<outsideMerger, queueVars, stored, has_merged, merged, indexVars,
                 localVars, solverVars, crash>>

\* mission_id_to_robot_map_[m] for every mission of the merged map: operator[]
\* inserts the empty name for a mission that has none.
LookUpRobots ==
  [m \in Missions |-> IF m \in MissionsIn(merged) /\ robot_of[m] = NoEntry
                      THEN EmptyName ELSE robot_of[m]]

\* The first entry of each mission of the merged map gets its baseframe status.
Annotated(r, list) ==
  [i \in DOMAIN list |->
     IF /\ list[i].id \in MissionsIn(merged) /\ robot_of[list[i].id] = r
        /\ \A j \in 1 .. (i - 1) : list[j].id # list[i].id
     THEN [list[i] EXCEPT !.known = (list[i].id \in known)]
     ELSE list[i]]

UpdateAnchoringInfo ==
  /\ merger = "annotate"
  /\ robot_of' = LookUpRobots
  /\ robot_info' = [r \in Robots |->
       IF robot_info[r] # NoEntry
       THEN [robot_info[r] EXCEPT !.missions = Annotated(r, robot_info[r].missions)]
       ELSE IF \E m \in MissionsIn(merged) : robot_of[m] = r
            THEN NoInfo ELSE NoEntry]
  /\ merger' = "optimize"
  /\ UNCHANGED <<outsideMerger, queueVars, mapVars, localVars, solverVars, crash>>

\* The trust region is read when the optimization starts ...
OptimizeStart ==
  LET reset == ResetEvery # 0 /\ NumMerged - last_reset >= ResetEvery
  IN  /\ merger = "optimize"
      /\ radius' = IF reset THEN "initial" ELSE radius
      /\ last_reset' = IF reset THEN NumMerged ELSE last_reset
      /\ solver_radius' = radius'
      /\ merger' = "solving"
      /\ UNCHANGED <<outsideMerger, queueVars, mapVars, indexVars, localVars, crash>>

\* ... and written when it ends, unless the optimization failed.
OptimizeEnd ==
  /\ merger = "solving"
  /\ \/ UNCHANGED radius
     \/ radius' \in {"initial", "adapted"}
  /\ merger' = "publish"
  /\ UNCHANGED <<outsideMerger, queueVars, mapVars, indexVars, localVars,
                 solver_radius, last_reset, crash>>

\* publishDenseMap, publishMostRecentVertexPoseAndCorrection and the test of
\* saveMapEveryInterval.
Publish ==
  /\ merger = "publish"
  /\ robot_of' = LookUpRobots
  /\ \/ Backups /\ merger' = "backup"
     \/ merger' = "loop"
  /\ UNCHANGED <<outsideMerger, queueVars, mapVars, robot_info, localVars,
                 solverVars, crash>>

\* saveMap() locks mutex_, like the operations of the clients.
Backup ==
  /\ merger = "backup"
  /\ MutexFree
  /\ merger' = "loop"
  /\ UNCHANGED <<outsideMerger, queueVars, mapVars, indexVars, localVars,
                 solverVars, crash>>

MergerNext ==
  \/ MergerExit \/ DeleteNothing \/ DeleteBlacklisted \/ DeleteBookkeeping
  \/ DropMergedMap \/ ListKeys \/ AppendStop \/ AppendDiscard \/ AppendAccept
  \/ AppendMerge \/ AnchorMissions \/ UpdateAnchoringInfo \/ OptimizeStart
  \/ OptimizeEnd \/ Publish \/ Backup
-----------------------------------------------------------------------------
(***************************************************************************)
(* The operations of clients.  Each locks mutex_; the second step of one   *)
(* runs after other threads may have moved.                                *)
(***************************************************************************)
outsideClient == <<serverVars, taskVars, queueVars, mapVars, indexVars, mergerVars,
                   solverVars>>

\* deleteMission: a partial id that fits exactly one mission that has arrived
\* blacklists it.
MatchingUnseen(prefix) == prefix
Matching(prefix) == {m \in prefix : robot_of[m] # NoEntry}

DeleteMission(prefix) ==
  LET matching == Matching(prefix)
  IN  /\ "deleteMission" \in Requests
      /\ MutexFree
      /\ \E m \in matching :
           /\ matching = {m}
           /\ request' = [op |-> "blacklist", missions |-> {m},
                          robot |-> robot_of[m]]
      /\ UNCHANGED <<outsideClient, blacklist, crash>>

DeleteAllRobotMissions(r) ==
  LET matching == {m \in Missions : robot_of[m] = r}
  IN  /\ "deleteAllRobotMissions" \in Requests
      /\ MutexFree
      /\ matching # {}
      /\ request' = [op |-> "blacklist", missions |-> matching, robot |-> r]
      /\ UNCHANGED <<outsideClient, blacklist, crash>>

Blacklist ==
  /\ request.op = "blacklist"
  /\ blacklist' = [m \in Missions |-> IF m \in request.missions
                                      THEN request.robot ELSE blacklist[m]]
  /\ request' = Idle
  /\ UNCHANGED <<outsideClient, crash>>

\* mapLookup of a robot: its most recent mission is looked up first, the merged
\* map is accessed afterwards.
MapLookup(r) ==
  /\ "mapLookup" \in Requests
  /\ MutexFree
  /\ robot_info[r] # NoEntry
  /\ request' = [op |-> "lookup", mission |-> Head(robot_info[r].missions).id]
  /\ UNCHANGED <<outsideClient, blacklist, crash>>

GetDenseMapInRange ==
  /\ "getDenseMapInRange" \in Requests
  /\ MutexFree
  /\ request' = [op |-> "dense"]
  /\ UNCHANGED <<outsideClient, blacklist, crash>>

\* visualizeMap and saveMap ask the map manager first whether there is a map.
VisualizeMap ==
  /\ "visualizeMap" \in Requests
  /\ MutexFree
  /\ has_merged
  /\ request' = [op |-> "visualize"]
  /\ UNCHANGED <<outsideClient, blacklist, crash>>

SaveMap ==
  /\ "saveMap" \in Requests
  /\ MutexFree
  /\ has_merged
  /\ request' = [op |-> "save"]
  /\ UNCHANGED <<outsideClient, blacklist, crash>>

\* getMapReadAccess and getMapWriteAccess CHECK that the map exists; only
\* saveMapToFolder tests for it and returns.
AccessMerged ==
  /\ request.op \in {"lookup", "dense", "visualize", "save"}
  /\ MergedFree
  /\ IF ~has_merged /\ request.op # "save"
     THEN crash' = request.op /\ UNCHANGED request
     ELSE request' = Idle /\ UNCHANGED crash
  /\ UNCHANGED <<outsideClient, blacklist>>

ClientNext ==
  \/ \E p \in Procs : LoadBegin(p)
  \/ \E prefix \in Prefixes : DeleteMission(prefix)
  \/ \E r \in Robots : DeleteAllRobotMissions(r) \/ MapLookup(r)
  \/ GetDenseMapInRange \/ VisualizeMap \/ SaveMap

RequestNext == (\E p \in Procs : LoadEnqueue(p)) \/ Blacklist \/ AccessMerged
-----------------------------------------------------------------------------
(***************************************************************************)
(* shutdown() keeps mutex_ until the other threads have ended.             *)
(***************************************************************************)
outsideServer == <<request, taskVars, queueVars, mapVars, indexVars, blacklist,
                   mergerVars, solverVars, crash>>

ShutdownBegin ==
  /\ "shutdown" \in Requests
  /\ MutexFree
  /\ shutdown = "no"
  /\ shut_down_requested' = TRUE
  /\ shutdown' = "merger"
  /\ UNCHANGED <<status_running, outsideServer>>

\* Joins the merging thread, drains the pool, and joins the status thread.
ShutdownStep ==
  /\ \/ shutdown = "merger" /\ merger = "done" /\ shutdown' = "pool"
     \/ shutdown = "pool" /\ pool = <<>> /\ Active = {} /\ shutdown' = "status"
     \/ shutdown = "status" /\ ~status_running /\ shutdown' = "done"
  /\ UNCHANGED <<shut_down_requested, status_running, outsideServer>>

StatusExit ==
  /\ status_running
  /\ shut_down_requested
  /\ status_running' = FALSE
  /\ UNCHANGED <<shut_down_requested, shutdown, outsideServer>>

\* A failed CHECK aborts the process; after a shutdown nothing need happen.
Stopped ==
  /\ crash # "none" \/ shutdown = "done"
  /\ UNCHANGED vars

Running == /\ crash = "none"
           /\ \/ ClientNext \/ RequestNext \/ MergerNext
              \/ \E p \in Procs : TaskNext(p)
              \/ ShutdownBegin \/ ShutdownStep \/ StatusExit

Next == Running \/ Stopped

\* Every thread keeps running, and an operation that has begun goes on as soon as
\* the locks it waits for allow; clients need not call anything.
Alive(A) == crash = "none" /\ A

Fairness ==
  /\ WF_vars(Alive(MergerNext))
  /\ \A p \in Procs : WF_vars(Alive(TaskNext(p)))
  /\ \A p \in Procs : SF_vars(Alive(LoadEnqueue(p)))
  /\ WF_vars(Alive(Blacklist))
  /\ SF_vars(Alive(AccessMerged))
  /\ WF_vars(Alive(ShutdownStep))
  /\ WF_vars(Alive(StatusExit))

Spec     == Init /\ [][Next]_vars
FairSpec == Spec /\ Fairness
-----------------------------------------------------------------------------
ServerType    == /\ shut_down_requested \in BOOLEAN
                 /\ shutdown \in {"no", "merger", "pool", "status", "done"}
                 /\ status_running \in BOOLEAN
TaskType      == /\ pool \in Seq(Procs)
                 /\ task \in [Procs -> TaskPc]
                 /\ fishy \subseteq Procs
QueueType     == /\ queue \in Seq(Procs)
                 /\ fate \in [Procs -> {"none", "merged", "discarded"}]
MapType       == /\ stored \subseteq MapKeys
                 /\ has_merged \in BOOLEAN
                 /\ merged \subseteq Paths
                 /\ known \subseteq Missions
IndexType     == /\ robot_info \in [Robots -> RobotInfo \cup {NoEntry}]
                 /\ robot_of \in [Missions -> Names \cup {NoEntry}]
BlacklistType == blacklist \in [Missions -> Names \cup {NoEntry}]
MergerType    == /\ merger \in MergerPc
                 /\ received_first \in BOOLEAN
                 /\ blacklist_copy \in [Missions -> Names \cup {NoEntry}]
SolverType    == /\ radius \in {"initial", "adapted"}
                 /\ solver_radius \in {"initial", "adapted"}
                 /\ last_reset \in Nat
CrashType     == crash \in {"none", "load", "merge", "lookup", "dense", "visualize"}

\* In particular, what is left of a list of missions is a list again.
TypeOK == /\ ServerType /\ request \in Request /\ TaskType /\ QueueType /\ MapType
          /\ IndexType /\ BlacklistType /\ MergerType /\ SolverType /\ CrashType
-----------------------------------------------------------------------------
(***************************************************************************)
(* Safety.                                                                 *)
(***************************************************************************)
Listed(m, r) == /\ robot_info[r] # NoEntry
                /\ \E i \in DOMAIN robot_info[r].missions :
                     robot_info[r].missions[i].id = m

\* "This should be available once the mission reaches the merged map": every
\* mission of the merged map has a robot, and that robot lists the mission, although
\* submap tasks, deletions and the merging thread change the two indices and the
\* map at different times.
MergedMissionsIndexed ==
  merger # "bookkeeping" =>
    \A m \in MissionsIn(merged) : robot_of[m] \in Robots /\ Listed(m, robot_of[m])

\* mapLookup reads the front of the list of a robot that has an
\* entry: the list is never empty, whatever is deleted between two recordings.
ListsNonEmpty ==
  \A r \in Robots : robot_info[r] # NoEntry => robot_info[r].missions # <<>>

\* publishMostRecentVertexPoseAndCorrection finds the pose with which the last
\* submap of every mission of the merged map came in.
LastInputPoseKept ==
  merger = "publish" =>
    \A s \in merged : IsLast(s, merged) =>
      s \in robot_info[robot_of[MissionOf[s]]].inputs

\* The merging thread works on the merged map only while there is one: its local
\* flag received_first_submap agrees with the map manager.
FlagAgreesWithMap ==
  /\ merger \notin {"loop", "bookkeeping", "drop"} => received_first = has_merged
  /\ merger \in {"anchor", "annotate", "optimize", "solving", "publish", "backup"}
       => has_merged /\ merged # {}

\* The merging thread and mapLookup find the indices, the lists and the merged map
\* as they expect them, although each is changed at a time of its own.
ServerAgrees == MergedMissionsIndexed /\ ListsNonEmpty /\ FlagAgreesWithMap

\* The submap_process a task was given by reference stays in the queue as long as
\* the task may use it.
TaskReferenceValid ==
  \A p \in Procs : task[p] \in {"queued"} \cup Locked =>
    \E i \in DOMAIN queue : queue[i] = p

\* Between loading and merging, every entry has a map of its own in the map
\* manager, even when a folder is announced more than once.
Loaded == {p \in Procs : task[p] \in (Locked \ {"loading"}) \cup {"ready", "skipped"}
                        /\ fate[p] = "none"}
MapOfItsOwn ==
  /\ \A p \in Loaded : MapKey(p) \in stored
  /\ \A p, q \in Loaded : MapKey(p) = MapKey(q) => p = q

\* The merged trajectory of a mission has no holes: its submaps are consecutive.
TrajectoryGapless ==
  \A s, t \in merged : MissionOf[s] = MissionOf[t] =>
    \A i \in IndexOf[s] .. IndexOf[t] :
      \E u \in merged : MissionOf[u] = MissionOf[s] /\ IndexOf[u] = i

\* "All new submaps of this mission that arrive will be discarded": once a deleted
\* mission is out of the merged map, and the merging thread is not about to merge a
\* submap of it that it accepted before the deletion, the mission never comes back.
Gone(m) == /\ blacklist[m] # NoEntry
           /\ m \notin MissionsIn(merged)
           /\ merger = "merge" => Mission(Head(queue)) # m
DeletedStaysDeleted == [][\A m \in Missions : Gone(m) => Gone(m)']_vars

\* A reset of the trust region because of a new robot survives an optimization
\* that is running at the time: "If enabled and a new robot has started streaming
\* to the maplab server we reset the trust region radius".
ResetSurvivesOptimization ==
  [][(merger = "solving" /\ radius = "initial" /\ solver_radius = "adapted")
       => radius' = "initial"]_vars

\* "the most recent mission is at the front of the vector": of the submaps of a robot
\* that are in the queue and have been recorded, the last to arrive is of the mission
\* in front, unless missions have been deleted.
Recorded(i, r) == /\ RobotOf[queue[i]] = r
                  /\ task[queue[i]] \in {"processing", "ready"}
                  /\ blacklist[Mission(queue[i])] = NoEntry
MostRecentMissionFirst ==
  \A r \in Robots : \A i \in DOMAIN queue :
    (Recorded(i, r) /\ \A j \in DOMAIN queue : j > i => ~Recorded(j, r))
      => LET front == robot_info[r].missions[1].id
         IN  front = Mission(queue[i]) \/ blacklist[front] # NoEntry

\* A lookup in a map that a mission has not reached (yet) is answered, not fatal.
LookupAnswered == crash # "lookup"

\* visualizeMap does nothing when there is no merged map.
VisualizeAnswered == crash # "visualize"

\* A second notification for the same folder is handled softly.
DuplicateHandledSoftly == crash # "load"
-----------------------------------------------------------------------------
(***************************************************************************)
(* Liveness, under FairSpec.                                               *)
(***************************************************************************)
Ended == shut_down_requested \/ crash # "none"

\* A submap that has been queued is eventually merged or discarded.
SubmapConsumed ==
  \A p \in Procs : task[p] = "queued" ~> (fate[p] # "none" \/ Ended)

\* A deleted mission eventually leaves the merged map for good.
DeletedEventuallyGone ==
  \A m \in Missions :
    blacklist[m] # NoEntry ~> ([](m \notin MissionsIn(merged)) \/ Ended)

\* A deleted mission eventually leaves the bookkeeping of robots and missions.
DeletedEventuallyForgotten ==
  \A m \in Missions : blacklist[m] # NoEntry ~> (robot_of[m] = NoEntry \/ Ended)

\* A shutdown that has begun comes to its end.
ShutdownCompletes == shut_down_requested ~> (shutdown = "done" \/ crash # "none")
=============================================================================
