# TLA+ models of maplab

This directory holds TLA+ models of the parts of maplab in which threads, locks, queues and
retries meet: the maplab server, the map manager, the reader-writer locks, the thread pool,
the anchoring of missions, loop closure, the handlers and workers of a maplab node - and of
two parts that are sequential but keep state over long sequences of calls: the VI map itself,
and the scripts that turn recordings into maps.  TLC checks them on small instances, TLAPS
proves theorems about the server, the locks, the pool, the map manager, anchoring, the VI map,
loop closure, the node and the scripts of a session for instances of every size.

Check a run with `tlc -config <cfg> <module>`, the proofs with `tlapm <module>.tla` for the
eight modules whose names end in `Proofs`.
Paths of source files are relative to `src/`.

## 1. Inventory

### The system

Robots (maplab nodes, rovioli) build submaps and announce their folders to the **maplab
server**.  The server loads submaps with the tasks of a **thread pool**, keeps them in the
**map manager**, whose container and maps are guarded by **reader-writer locks**, and one
merging thread appends them to the merged map, runs **map anchoring**, optimization and loop
closure on it, and publishes it.  Clients look up poses, delete missions, save and visualize
the merged map.  The nodes themselves pass sensor data through the **message flow**, which
delivers on a thread pool, into a synchronizer and a map builder.  The maplab console runs
the same algorithms as sequential commands.  The phone pipeline (`process.sh`, `tools/`) is a
chain of offline programs around all this.

| Component | State | Operations | Who touches it at once | Correct means |
|---|---|---|---|---|
| maplab server node | queue of submaps, two indices robot/mission, blacklist, merged map, trust region, flags of the merging thread | `loadAndProcessSubmap`, tasks of the pool, the merging loop, `deleteMission`, `deleteAllRobotMissions`, `mapLookup`, `getDenseMapInRange`, `visualizeMap`, `saveMap`, `shutdown` | pool threads, the merging thread, the status thread, ROS callbacks | the indices cover the merged map; a deletion is complete and final; trajectories have no holes; nothing waits forever; lookups never abort |
| map manager | container key -> handle; one mutex per map | accesses, add, load, save, copy, merge, rename, release | every thread of the process | a handle outlives its use; one owner per map; calls return |
| reader-writer locks | three counters, two flags, two condition variables | acquire/release for reading and writing, upgrade, `isInUse` | every thread | mutual exclusion, exact counters, no lost wakeup, no starvation of writers |
| thread pool | task queue, group guards, two counters, `stop_`, one condition variable | `enqueue`, `enqueueOrdered`, the workers, `stop`, `waitForEmptyQueue`, destructor | callers and workers | order within groups, accepted tasks run, a wait ends and not too early |
| message flow | subscriber network, delivery queues, dispatcher | publish, deliver, shutdown | publishers, pool threads | per-subscriber order, no message lost while running |
| maplab node: synchronizer, visual pipeline, tracker, map builders | images per camera, nframes in the making, queues between the stages, the last nframe of each stage, the map in memory | handlers of IMU, image and odometry messages, release of images, `work`, `processNFrame`, update, save | one handler of the sensors' group at a time, a worker, one thread for each later stage, a caller that saves | what is handed out is in order, not too frequent and covered by data; submaps connect; nothing waits for itself |
| buffers (IMU, poses, temporal) | time-ordered measurements of a limited history | add, forget, interpolate, range | a writer, readers of later stages | what a reader needs is there or known to be gone |
| map resources | cache, id -> file | load, add, replace, evict | map users | cache within its bound and consistent with files |
| VI map, pose graph | vertices, edges, landmarks, missions, landmark index, observations | add, associate, merge, move, cut, copy, remove | guarded by the map's mutex | the four records of a landmark agree, the traversal reaches every vertex, no call ends the process on a map that passes its own checks |
| loop closure | queries, their matches, the table of past merges, `map_mutex` | find, read, resolve, RANSAC, insert an edge or merge | one thread per batch of query vertices | the map stays consistent, the table leads to landmarks that exist, matches are not lost |
| sensor recorder tools | `manifest.json`, stage directories, background jobs | import by stages, feature extraction, BA, loop closure, export, joint map | one process, but kills, failures, and calls that find what earlier ones left | what is skipped or exported belongs to the recording that was asked for |
| map anchoring | selection of missions, baseframe flags, work list, database | console commands, `anchorAllMissions`, outlier removal | one thread (server or console) | the result is honest, retries end, nobody is left behind who could be localized |
| numeric code, I/O, tools, visualization | - | - | - | out of TLC's reach |

`PROJECT.json` lists every component with its sources and status, and every hazard at its
line.

### How they interact

* ROS callbacks enter the server through `mutex_`, which every public operation takes first.
  `loadAndProcessSubmap` appends to the queue and enqueues a task; the task reports by setting
  flags of its queue entry; the merging thread polls the front of the queue.
* The pool and the merging thread share `robot_to_mission_id_map_` and
  `mission_id_to_robot_map_` under a second mutex, the blacklist under a third, and the trust
  region under a fourth.  No operation holds all of them, so intermediate states are visible.
* All of them reach maps through the map manager: first the container mutex, then the mutex
  of the map.  `copyMap` alone takes them the other way round.
* Waiting happens on condition variables in the lock and in the pool, and on `join` in
  `shutdown()`.
* Loop closure hands one map, one mutex and one table of merged landmarks to its threads.  A
  thread reads what its keypoints observe before it takes the mutex.
* The scripts talk to each other through directories only: each decides by what exists.

Hard to test, therefore: steps of two threads between two critical sections (two indices, a
map and a flag that should agree), tests whose answer is stale when it is used, two waits
that block each other, a notification that reaches the wrong thread, the order of tasks that
overlap, the end of threads at shutdown, the retry loop of anchoring, whose order a hash
table decides, ids that others merge away while a query holds them, long sequences of legal
calls on the map, and calls of a script after one that was killed.

## 2. The modules

| Module | Source | Models |
|---|---|---|
| `MaplabServer` | `applications/maplab-server-node/src/maplab-server-node.cc` | the server |
| `MaplabServerProofs` | | theorems about it |
| `ReaderWriterLock` | `aslam_cv2/aslam_cv_common` | what a reader-writer lock promises (abstract) |
| `ReaderWriterMutex` | `reader-writer-lock.cc`, `reader-first-reader-writer-lock.cc` | both classes |
| `ReaderWriterMutexProofs` | | theorems about them |
| `GroupExecutor` | comments of `thread-pool.h` | the promised order of tasks (abstract) |
| `ThreadPool` | `thread-pool.h`, `thread-pool.cc` | the pool |
| `ThreadPoolProofs` | | theorems about it, and that it implements `GroupExecutor` |
| `MapManager` | `map-manager-inl.h`, `map-storage-inl.h`, `monitor.h` | container, handles, accesses |
| `MapManagerProofs` | | theorems about it |
| `MapAnchoring` | `map-anchoring.cc`, `anchoring-plugin.cc` | flags, selection, `anchorAllMissions` |
| `MapAnchoringProofs` | | theorems about it |
| `ConstraintOutliers` | `map-anchoring.cc` | `removeOutliersInAbsolute6DoFConstraints` |
| `VIMap` | `vi-map.cc`, `vi-map-inl.h`, `vi-map-manipulation.cc`, `posegraph` | vertices, edges, missions, landmarks |
| `LoopClosure` | `loop-detector-node.cc`, `loop-closure-handler.cc` | concurrent queries, on `VIMap` |
| `LoopClosureProofs` | | theorems about `VIMap`, and about the queries on it |
| `ImportPipeline` | `tools/sensor-recorder-pipeline/pipeline.py` | the import of a recording and its manifest |
| `SessionStages` | `process.sh` and the scripts of features, loop closure, export | what follows the import, on `ImportPipeline` |
| `SessionStagesProofs` | | theorems about it and the import |
| `MultiSession` | `run_multisession_full.sh`, `run_multisession.sh` | several sessions and their joint map |
| `MaplabNode` | `synchronizer.cc`, `feature-tracking.cc`, `map-update-builder.cc`, `map-builder-flow.cc`, `pose-lookup-buffer.cc`, `imu-measurements-buffer.cc`, `temporal-buffer-inl.h`, `visual-npipeline.cc`, `stream-map-builder.cc` | from sensor messages to submaps |
| `MaplabNodeProofs` | | theorems about it |
| `MC*` | | the instances for TLC |

Operators named after a slip (`...Unchecked`, `...Stale`, `...Once`) stand above the definition
of which they are a mutated form.  No action uses them: with one in place of the original, the
property that guards this code fails (`mutants` in `PROJECT.json`), which shows that the
property can fail and the bounds reach the case.

### MaplabServer

A step is what a thread does between two points at which another thread can observe or
change what it uses: one critical section, or one access to the map manager.

| State | Code |
|---|---|
| `queue`, `task`, `fate`, `fishy` | `submap_processing_queue_`, and the `SubmapProcess` flags `is_loaded`, `is_processed`, `is_merged`, its mutex and its key |
| `pool` | the tasks `submap_loading_thread_pool_` has not started |
| `stored`, `has_merged`, `merged`, `known` | keys in the map manager; whether `kMergedMapKey` is one; the submaps in the merged map; missions with a known baseframe |
| `robot_info`, `robot_of` | `robot_to_mission_id_map_`, `mission_id_to_robot_map_` |
| `blacklist`, `blacklist_copy` | `blacklisted_missions_` and the merging thread's copy |
| `merger`, `received_first` | where the merging thread is, its local `received_first_submap` |
| `radius`, `solver_radius`, `last_reset` | the trust region, its copy in the solver, the count at the last reset |
| `request`, `shutdown`, `status_running` | who holds `mutex_`: a client operation or `shutdown()`; the status thread |
| `crash` | the `CHECK` that ended the process |

`Load*` is `loadAndProcessSubmap`; `Task*` its task; `MergerExit` to `Backup` are one round of
the merging loop in the order of the code (delete, list keys, append while the front is ready,
anchor, annotate, optimize, publish, back up); `DeleteMission` to `AccessMerged` the client
operations; `Shutdown*` and `StatusExit` the end.  A submap is a folder: a stretch of one
mission.  Geometry, loop closures and solver results are abstracted: they decide no control
flow but which missions vision aligns (any subset, if some mission is anchored) and the radius
that remains (any).  `operator[]` on the index inserts an empty name, as in the code.

The server calls its pool with `mutex_` held, so its tasks start in order; the pool itself is
the subject of `ThreadPool` (variable `serialized`: callers exclude one another).

### ReaderWriterMutex

Variables are the members of the class, `pc` the place of each thread and `sleeps_on` the
condition variable it is blocked on.  A step is one tenure of `mutex_`; only
`releaseWriteLock` needs two, as it notifies after unlocking.  `reader_first` chooses the
class, which overrides the two acquire functions.  Sleeping threads may wake spuriously.

### ThreadPool

Variables are the members, the places of workers, waiting threads, calls and the destructor.
`EnqueueCheckStop` / `EnqueuePush` / `EnqueueNotify` are the three steps of
`enqueueOrdered`, because `stop_` is read without the mutex and `notify_one` comes after it.
`NotifyOne` wakes any sleeping thread: workers and threads in `waitForEmptyQueue` share
the condition variable.  `serialized` says whether callers exclude one another.

### MapManager

A thread is in one call at a time; a call asks for a lock in one step (`wants`) and gets it in
another (`Grant`).  The lock itself is that of `ReaderWriterLock` with the writers' precedence
of `ReaderWriterMutex`, which the mutex run establishes; handles are numbered, so that a key
that is released and loaded again has a new one.

### MapAnchoring and ConstraintOutliers

`MapAnchoring` has the flags and the selection of the map and the local variables of
`anchorAllMissions`; a round of its loop is one step, as one thread runs it with write access.
The loop detector is a relation `matches`, which may be unreliable.  `selected` matters: the
loop narrows it, and `getAllMissionIds` then sees only what is selected.
`ConstraintOutliers` treats one mission; RANSAC is any nonempty set of inliers, as it keeps at
least what it sampled.

### VIMap

A call is one step: the map manager hands out one write access at a time.  `index`, `stored`,
`backlinks` and `observed` are the four places that record a landmark (`landmark_index`, the
landmark store of a vertex, the observations in the stored landmark, the landmark ids of the
frames of a vertex).  `mission`, `root`, `backbone` and `loops` are the pose graph, the two
kinds of edges, those the traversal follows and loop closures.  `resources` are the vertices
whose frames have images kept as resources (`StoreFrameResource`, as `storeFrameResource` does
for `map_builder_save_image_as_resources`).  They matter where they end a call:
`removeVertex` wants them gone (`vi-map-inl.h:898`), which `dropMapDataBeforeVertex` sees to
first (`vi-map-manipulation.cc:637`) and `removeMission` does not (`vi-map.cc:2175`); and a
copied mission shares its resources, which the check that follows the copy refuses.
`RemoveVertices` is told which resources its caller has `left`.  `aborted` says that a `CHECK`
has failed; the model reaches the cases in which a removal or a copy does fail one.  Coordinates and descriptors do
not matter; the choice which landmark to merge or vertex to cut at is the caller's, hence any.

### LoopClosure

`EXTENDS VIMap`, and changes the map by its operators `MergeLandmarks`, `Associate` and
`AddLoopClosureEdge` alone.  Every query vertex has a thread: the queries of one thread one
after the other are one of the schedules.  A step lies between two uses of `map_mutex` or, in
`Read`, is one unlocked access to the landmark of a keypoint; `Resolve` holds the mutex for one
match; from `Ransac` to the last association the mutex is held.  What the database returns and
which matches survive RANSAC is any choice.  `oldToNew` is `landmark_id_old_to_new_`.
`IdsTear` makes the unlocked read of a 128-bit id return a value that no keypoint ever had.

### ImportPipeline, SessionStages, MultiSession

A file is abstracted to the recordings from which it was made, so that the properties can say
whether it is *of* the recording that a call names.  Of `keyframes.csv` there is more to know,
which is `files.listed`: normalize writes it without the column `image_path`
(`pipeline.py:551`), create_vimap writes it again with it (`ListImages`, `pipeline.py:671`), and
the tools that look at images fail without (`ImagesReadable`).  No record of the manifest speaks
of that column.  `ImportPipeline` has one step for every
effect of a stage in the order of `pipeline.py`; `Raise` is an exception (recorded as a failed
stage, as `run_stage` does) and `Kill` the end of the process without a handler.
`SessionStages` instantiates it (`Import`) and adds the shell scripts, which have no manifest
and test what exists (`Frontend`, `InitialBA`, `LoopClosure`, `WritePoses` and what they
call).  `MultiSession` abstracts the reconstruction of a session to its success or
failure, which is what `SessionStages` is about, and models batches of background jobs, `wait`,
and the joint maps, whose directories are made with `mkdir -p` and `cp -a`.

### MaplabNode

Time is in ticks; the IMU measures at each, images of one tick belong to one nframe.  A buffer
is abstracted to what is in it: the IMU to its newest tick (and `History`), odometry to its
ticks, the images of a camera to theirs.

| State | Code |
|---|---|
| `imu`, `odometry` | the buffers of `PoseLookupBuffer` |
| `image_buffer`, `arrived` | `image_buffer_` of the synchronizer and the newest image of each camera |
| `release` | the handler that is in `releaseCameraImages`: what it has yet to submit, what it has taken from the visual pipeline |
| `jobs`, `processing`, `completed` | the queue of the visual pipeline's thread pool, its nframes in the making, its output queue |
| `previous_nframe` | the time stamp with which the synchronizer throttles |
| `synced`, `tracked`, `updates` | the delivery queues of the three topics |
| `previous_synced`, `last_received` | `previous_synced_nframe_` of the tracker, `last_received_timestamp_synced_nframe_queue_` |
| `vertices`, `saved`, `mapping` | the map of `StreamMapBuilder`, the submaps on disk, `mapping_terminated_` |
| `crash` | the `CHECK` that ended the process |

The handlers of raw data are subscribers of one exclusivity group: `Receives` lets none start
before the one that releases has returned.  Its release is taken apart, as the worker goes on
meanwhile: `SubmitImage` for each image, blocking when the output queue is full, `GetNext`
until the queue is empty, `Publish` for each nframe.  `Work` is one image in the worker, with
the rule that gives up what is older than two complete nframes in a row.  `TrackFrame`,
`BuildUpdate` and `ApplyUpdate` are one message of one stage each; what they read of the
buffers is what is there when the message is delivered.  `SaveMap` is a call of
`saveMapAndOptionallyOptimize`, which may stop mapping and may fail.  Features, poses and
biases are left out; the tracker and the optimizer of a submap decide no control flow.

## 3. The runs

Where one aspect has several parts that fail together, one property names the conjunction; the
table gives the parts.

| Run | Instance | Shows |
|---|---|---|
| `server_safety` | 3 submaps of 2 missions of 1 robot, 2 loading threads, deletions by mission and by robot, backups, a radius reset every 2nd submap | `TypeOK`; `ServerAgrees`: merged missions are indexed (`MergedMissionsIndexed`), the list a lookup reads is never empty (`ListsNonEmpty`), the flag of the merging thread agrees with the map (`FlagAgreesWithMap`); publishing finds the last input pose (`LastInputPoseKept`); a task's reference into the queue stays valid (`TaskReferenceValid`); deleted missions stay deleted (`DeletedStaysDeleted`) |
| `server_faults` | a folder announced twice, a submap whose predecessor is lost, lookups, deletions | maps are not confused (`MapOfItsOwn`), no trajectory gets a hole (`TrajectoryGapless`) |
| `server_live` | 2 submaps of a mission, deletions, lookups, shutdown | `SubmapConsumed`, `DeletedEventuallyGone`, `ShutdownCompletes` (without backups) |
| `server_shutdown_backup` | 1 submap, backups | **violated**: `ShutdownCompletes` |
| `mutex` | 4 threads, both classes | `TypeOK`; `UsersKnown`: `CountersExact` and `InUseComplete`; `NoLostWakeup`; `IsReaderWriterLock`, the refinement of `ReaderWriterLock`; `NobodyStarves`: `WaitersServed` and `WritersNotStarved` |
| `pool` | 2 workers, 2 tasks of a group, 1 without, 2 waiting threads, `stop` | `StateExact`: types and `CountersExact`; `NoTaskForgotten`: `NoTaskStranded` and `WorkConserved`; `IsGroupExecutor`, the refinement of `GroupExecutor`; `WaitMeansDone`; `PoolGoesOn`: `AcceptedTaskRuns`, `WaitReturns`, `DestructorReturns` |
| `maps` | 2 threads, 2 keys, all operations, 5 calls | `MapsOwned`: types, `OneOwner` and `AccessIsOwned`; `CallsReturnUnlessCopying` |
| `anchoring` | 4 missions, every symmetric relation of matches, all orders of the list | `ResultRight`: types, `ResultHonest`, `GivenUpForGood`, `NobodyLeftBehind`, `DirectMatchAnchored`; `DatabaseInView`; `WorkShrinks` |
| `recorder` | 2 recordings, imports up to normalize and `sfm` in any order with and without `--force`, the scripts alone, 1 failure or kill | types, and a stage that is skipped has the directories and reports its record describes (`RecordsHonest`); `SuccessIsCurrent`: what a successful import leaves (`CompletedIsCurrent`) and what `sfm` exports (`SfmIsCurrent`) is of the recording it was called with, and a forced import leaves the images listed; `sfm --force` succeeds after any history (`SfmForceCompletes`) |
| `vimap` | 2 missions, 3 vertices with 2 keypoints, 2 landmarks, all operations | `TypeOK`; the four records of a landmark agree (`Consistent`); the traversal of a mission visits all its vertices once (`BackboneIsChain`); a call aborts only on a map whose missions share something, that has an unobserved landmark, or where a mission with frame resources is removed or copied (`AbortNeedsLink`); landmarks go with their last observer (`OrphansRemoved`) |
| `loopclosure` | 2 queries against 2 landmarks, up to 2 matches each, 13 maps to start from | types, and the table of merges leads to landmarks of the map (`TableLeadsToMap`); a match is dropped only for another one (`DroppedForAnother`); an observation changes only with its landmark (`ObservationsFollowMerges`); `QueriesEnd` |
| `node` | 2 cameras, 4 ticks, a history of 1, a queue of 4, 1 save | `FramesReady`: types, nframes reach tracker and update builder in order, throttled, and covered by IMU and odometry data; `SubmapsConnect`: a submap starts where the one before it ended, whatever fails; `PipelineGoesOn`: a release does not block itself (`ReleaseReturns`), and an nframe arrives in the map (`FramesArrive`) |

**Bounds and why they are enough.**  Every bound is a constant of the instance; no action of
the server, the lock or the pool has one.

* Three submaps of two missions give a mission two stretches (attachment, holes, the last one
  merged) and a robot two missions (order, deletion of one of two and of both).  Two loading
  threads let tasks overlap and overtake; a third would only repeat this.
* Four threads on the lock reach an upgrading reader with a second reader, a failed upgrade
  and a waiting writer at once - every condition of the wait loops is true and false with
  sleepers on both condition variables.
* Two workers and three tasks let a task of a group block one while the other may start; two
  waiting threads and the destructor contend for notifications.
* `MaxCalls = 5` of the map manager lets two threads make two calls each around a load;
  every deadlock and every release needs three or four.
* Four missions allow three missions to anchor, the number of trials, around one known one;
  chains of three matches and every order of the list.  Relations are symmetric because two
  missions that see the same place are localized in each other.  The symmetry set leaves out
  the mission with constraints.
* Three vertices of the VI map are a chain with an inner vertex, or two missions that share
  a landmark or an edge; two keypoints let a vertex see a landmark twice, which
  is where the removals go wrong; two landmarks make one survive what removes the other.  Ids
  are interchangeable, which the symmetry set uses (no liveness is checked in this run).
  `FewResources` looks at maps in which at most one vertex has frame resources, and those only
  with one landmark or none: they are independent of landmarks and of one another, and one is
  enough to abort.  (The theorems have no such bound.)
* Two queries with two matches reach the merge of a landmark under a query that has read it,
  two queries for the same landmark, two inliers of one keypoint, and a merge into what was
  merged away.  The 13 maps are those in which the queries share a landmark or a match or not,
  one of them with `insertEdges`.
* Four ticks: the rule of the visual pipeline that drops nframes needs more than three, a save
  that keeps something needs three vertices, and the two cameras can miss different images.  A
  history of one tick lets every stage lag behind the buffers, which reaches all outcomes of a
  lookup.  `MaxQueue` is the number of ticks, so that a release always fits: this run shows that
  releases return for every other reason, not that they do when the queue is full (section 5
  has the run in which they do not).  With 5 ticks and a history of 2 (7.9 million states, by hand) the same
  properties hold.
* Two recordings and one fault reach every directory half made or made from the other
  recording.  `MaxFaults` bounds exceptions, kills and failing tools together.  The run calls
  the import up to normalize (`ToNormalize`) and, by `sfm`, for all stages: a call that ends
  after normalize is the one that takes `image_path` away under a record of create_vimap that
  stays "completed"; ends elsewhere are like those of a run that fails.  Once something has
  failed or been killed the import is called by `sfm` only (`AloneBeforeFaults`), which halves
  the states; the theorems have no such bound.  It has no `--from` and
  does not kill a stage that is run again: with these (`SessionSelected.cfg`,
  `SessionKilled.cfg`) `RecordsHonest` fails, and so it does where a configuration turns images
  off, see section 5.

`CHECK_DEADLOCK FALSE` is set where the system may stop: when the calls of the map manager
are used up or block each other (a deadlock of threads is then what the liveness property
finds), when all queries of loop closure have ended, when the process of a VI map has been
ended by a `CHECK`, when the calls of `MultiSession` are used up, in the outlier removal,
which ends, when the time of the node is used up, and in the deadlocks shown by hand.

**Fairness.**  Weak fairness of every thread of the server, of the workers, of a
woken thread and of the destructor is that of the operating system.  Tasks end and accesses
are released because they are scoped objects in code without endless loops.
`LoadEnqueue` and `AccessMerged` have strong fairness: they wait for a lock that the merging
thread takes and returns again and again, and the lock does not starve them: for the merged
map that is `WritersNotStarved` and `WaitersServed` of the mutex; for the queue's
`std::mutex`, the scheduler.  A query of loop closure has weak fairness: its thread runs, and the mutex it waits for is
released, as the holder does not block; which query gets it does not matter, as each takes it
a bounded number of times.  The handler of the node that releases images goes on
when it can, and so do the worker and the three stages, each of which has a thread of the pool
or of the pipeline; sensor data need not arrive, and nobody need save.  A shell script goes on with its next command, and a background job ends; nobody
is obliged to start one.  Nothing is assumed about calls: clients need not call, and
threads need not ask.  In `WaitersServed`, *calm* is a hypothesis of the property: once
threads stop asking, all that wait are served.  Without it the lock has no such promise - a
reader can wait behind endless writers.

## 4. What is proved

`MaplabServerProofs` proves for all sets of submaps, robots and missions and every number of
loading threads, from `ConstantsAssumption` and `NoEntryAssumption` alone unless it is said:

* `TypeCorrect`: `Spec => []TypeOK`.  The only hard part is that erasing entries from a
  list leaves a list: `RankSurjective` shows that the ranks of a finite set of
  positions are `1 .. n`, and the lemma about `Without` follows.
* `IndexCorrect`: `Spec => []MergedMissionsIndexed`, and `LookupListsNonEmpty`:
  `Spec => []ListsNonEmpty`.  The property is not inductive: a mission of the merged map is
  indexed because its submap was recorded before its task became ready, and because a deletion
  removes it from the map before the bookkeeping, using a copy of the blacklist.  The
  inductive invariant `IndexInv` therefore says of every submap past its recording, and of
  the one the merging thread is about to merge, that its mission is indexed unless it is
  blacklisted, and that between the two steps of a deletion the copy covers what the map
  lost; names in blacklist and index agree.
* `FlagCorrect`: `Spec => []FlagAgreesWithMap`, from `MapInv`, which relates the flag, the map
  and its content at each place of the merging thread.
* `ServerAgreement`: the conjunction of the last three, `ServerAgrees`, which the run checks.
* `DeletionFinal`: the action property `DeletedStaysDeleted` of every step, from the same
  invariants: only `AppendMerge` adds submaps, and only one that was accepted.
* `TaskReferences`: `Spec => []TaskReferenceValid`, from `QueueInv`: the queue holds exactly
  once each submap that has arrived and has not been merged or discarded, the pool exactly once
  each whose task has not started, and the merging thread removes only a submap whose task
  has ended.  That nothing is in a list twice is what makes "removed" mean "gone".
* `MapsOfTheirOwn`: `Spec => []MapOfItsOwn`, which is inductive given `QueueInv`: only the
  owner of a map removes it from the map manager, and loading refuses a name that is taken.
* `TrajectoriesGapless`: `Spec => []TrajectoryGapless`, from `GapInv`: a submap is attached
  where its mission ends, and a mission is removed as a whole.
* `InputPosesKept`: `[]LastInputPoseKept`, under `OneRobotPerMission`.  The poses are recorded
  under the name of the robot that sent the submap and looked up by the robot of the mission;
  `PoseInv` says that the two agree and that the pose of every submap past its recording is there
  unless the mission is blacklisted.

`ReaderWriterMutexProofs` proves for every finite set of threads (`ThreadsAssumption`) and
both classes:

* `TypeCorrect`: `Spec => []TypeOK`, where the counters are natural numbers; `CountersCorrect`:
  `Spec => []CountersExact`; `InUseCorrect`: `Spec => []InUseComplete`; `UsersCounted` for
  both together, `UsersKnown`.  All follow from
  `CountInv`, which equates each counter and flag with the cardinality of the set of threads
  it counts and excludes readers while there is a writer.  `Moved` says how one step of one
  thread shifts such a cardinality; the rest of the argument is arithmetic.
* `WakeupsCorrect`: `Spec => []NoLostWakeup`.  `WakeInv` ties every sleeping thread to the
  condition of its loop or to a writer that has yet to notify.
* `ImplementsLock`: `Spec => Lock!Spec`, the refinement of `ReaderWriterLock`.  A writer of
  `ReaderWriterMutex` that leaves the second loop does not look at the readers again; that none
  can be there is `QueueInv`, and needs that readers give way to a writer that waits.  The
  variant lets readers pass, and does look again.

The inductive invariant is `IInv`, the conjunction of `TypeOK`, `CountInv`, `QueueInv`,
`WakeInv`.  It is proved by action, with one lemma for each kind of step (`WakeSleep`: a thread
falls asleep for a reason; `WakeGo`: a thread moves and nothing wakes; `WakeReaders`,
`WakeAfterWriter`: a notification).

`ThreadPoolProofs` proves for every finite set of workers and tasks and all groups, from
`ConstantsAssumption`, for callers that overlap and callers that do not:

* `TypeCorrect`: `Spec => []TypeOK`, and `CountersCorrect`: `Spec => []StateExact`.  `PlaceInv`
  says that a task is in the queue, with one worker, or finished, and once; `GuardInv` and
  `CountInv` equate guards and counters with what they count.  The counter of tasks without a
  group counts positions of the queue, which shift when a task is taken; the proof counts
  the tasks, and maps positions to tasks one to one.
* `NothingForgotten`: `[]NoTaskForgotten`, given a worker (`Workers # {}`: the constructor accepts
  zero threads, and then nothing runs).  That no worker sleeps through a task is not inductive:
  the worker that is awake may take one of two tasks.  `WakeInv` counts: while a worker sleeps,
  workers awake and notifications under way are at least as many as the claims, where
  a claim is a task without a group or a group that is free and has a task.  A worker goes to sleep
  only without claims (`NoClaimUnseen`: the short cut before the scan overlooks none).
* `WaitCorrect`: `Spec => WaitMeansDone`, and `ImplementsExecutor`: `Spec => IsGroupExecutor`, the
  refinement of `GroupExecutor`, from the same invariants.

`MapManagerProofs` proves for every finite set of threads and keys, all sets of operations and
any `MaxCalls`, from `ConstantsAssumption`:

* `MapsHaveOwners`: `Spec => []MapsOwned`.  `releaseMap` destroys a handle without the container,
  once nobody uses its mutex.  That no thread looks the handle up and locks it later is
  `LookupsCurrent`: a thread that has looked a map up keeps the container for reading until
  it waits for the map, and `LocksExclude` keeps those away who would take the map out.
  `HandlesInv` gives each handle one owner, `LocksOwned` says that no lock is held or waited for
  without one, `StageInv` what a thread holds and knows at each stage of a call, and `AddedInv`
  bounds the handles by the calls.  The steps are sorted by what they do to maps and locks
  first (`StepKinds`); there is one lemma for each part and all steps.

`MapAnchoringProofs` proves for all finite sets of missions, all relations of matches and all
orders of the hash table, from the assumptions of `MapAnchoring`:

* `AnswersAreRight`: `Spec => []ResultRight`; `DatabaseStaysInView`: `Spec => []DatabaseInView`.
  The inductive invariant is `AnchoringInv`.  `Sorted` says that a mission that was unknown
  waits, is anchored or is given up, and that the list has it once; `NeverFails` and `GivenUp`
  say what its trials are worth.  The hard part is `NobodyLeftBehind`: while there are at most
  as many missions as trials, no order of the list loses one that could still be reached.
  `Rounds` is why: the list splits into those that have had their turn since a mission was last
  anchored and those that have not, and nobody has failed more often than missions have been
  anchored, but for once more in the part that had its turn - whose members match nothing now.
* `EveryRoundShrinks`: `Spec => WorkShrinks`, so that the loop ends.  `TrialsLeft` is the
  set of pairs of a waiting mission and a trial of it; a round leaves a part of it and removes
  the pair of the mission it tried.

`LoopClosureProofs` proves of the VI map, for all sets of missions, vertices, keypoints and
landmarks, from `VIMapAssumption`:

* `TypeCorrect`, `LandmarksConsistent`: `Spec => []Consistent`, and `EdgesCorrect`:
  `Spec => []EdgesWellFormed`.  The inductive invariant is the conjunction of the three,
  `IInv`.  `Consistent` needs the edges, as merging two neighbors moves the landmarks of one to
  the other; and typing.  There is a lemma for each operation; all that remove something rest
  on `ForgetCorrect`, the one place where index, stores, backlinks and observations are cut
  down together; `DuplicateAsCorrect`, the copy of a mission under new ids, is the longest.
* `MissionsStayChains`: `Spec => []BackboneIsChain`.  The property speaks of a traversal, a
  recursive function; the invariant that carries it, `MissionsInOrder`, speaks of none: each
  mission has an *order*, its vertices from the root on, each joined to the next by the
  backbone.  An operation is shown to keep it by exhibiting the new order - a vertex cut out, a
  tail or a front left away, an image under new ids - and `ChainIsOrder` that the
  traversal follows the order whatever its length.
* `AbortsNeedLinks`: `Spec => AbortNeedsLink`, and `NoOrphans`: `Spec => OrphansRemoved`, action
  properties of every operation, from the same invariants.  On a map whose missions share
  nothing and whose landmarks are observed, an operation ends the process only because a
  mission in the map has frame resources; and that operation is not `dropMapDataBeforeVertex`,
  as no resources are left when it removes the vertices.

And of loop closure, for any number of queries, matches and landmarks:

* `QueriesAreMapSteps`: `LCSpec => [][[Next]_vars \/ Abort]_lcVars`: whatever the queries
  have read, and however stale it is, they change the map by operations of `VIMap`.
  This needs `QueryInv`, the part of the type invariant that says that an inlier is a match and
  a match names a keypoint.
* `QueriesKeepMapConsistent`: `LCSpec => []Consistent`, from that and the lemmas about
  operations of the map; also where a read may be torn (`IdsTear`).
* `KeypointsFollowMerges`: `LCSpec => ObservationsFollowMerges`, under no hypothesis either.
* `PastMergesLead`: `LCSpec => []TableLeadsToMap`, so that no `CHECK` of a query fails, and
  `NoMatchIsLost`: `LCSpec => []DroppedForAnother`.  `TableInv` says that the table, followed to
  its end, leads into the map from everything the map knows or knew, a set
  that no merge changes; `BooksInv` that whatever a query has read, matched and resolved is of
  this set and leads to where its match leads, so that no merge under a query turns what it
  holds into an id that nobody can find.  `MergeInv` follows each keypoint from the read on:
  it observes what the landmark it had has become, or what one of its matches asked for; and
  what is merged away is what somebody asked for.  The three hypotheses are that of a real
  program with finitely many landmarks; that ids are read whole (`~IdsTear`; section 5 has the
  run in which they are not); and `DatabaseSeenElsewhere`: where edges are inserted, a landmark
  of the database is observed by another vertex than the one that asks.  The detector
  takes landmarks in that are well constrained, which those with a single observer are not
  (`elq_min_observers`); without the hypothesis there may be no vertex to put the edge at.

`MaplabNodeProofs` proves for any number of cameras, length of a run, history, size of the
queue, rate and number of saves, from `NodeAssumption`:

* `FramesAreReady`: `Spec => []FramesReady`.  That frames are in order is not inductive: it holds
  in the queues because it holds before.  `CameraInv` says that the images of one camera keep
  their order through buffer, release, jobs and worker; `OutInv` that a complete nframe comes
  before every image, of every camera, that is not in a complete one (`Ahead`) - this is where
  the worker's order matters: it hands out only what is complete and has nothing incomplete
  before it; `QueueInv` carries the order and the throttle through the topics.  `CoveredInv`
  says that IMU and odometry reach every nframe on its way: the release takes none beyond
  the range of poses, and the newest odometry is never forgotten.
* `SubmapsAreConnected`: `Spec => []SubmapsConnect`, from `MapInv`: saved submaps and the map
  after them are a chain, and an update that waits is later than every vertex.

The inductive invariant `IInv` is the conjunction of these and the types; there is one lemma
for each part (`NextType`, `NextCovered`, `NextCamera`, `NextOut`, `NextQueue`, `NextMap`).

`SessionStagesProofs` proves for all sets of recordings and any number of failures, from
`ImportAssumption`:

* `SessionStaysInOrder`: `Spec => []SessionInv`, the inductive invariant, for all selections
  `--from` and `--to`, all kills, and with images off: types, what a run is at (`ImportInv`), and
  what the scripts make step by step (`SfmInv`).  There is a lemma for each effect of a stage
  and each step of a script.
* `ForcedSfmSucceeds`: `Spec => ForcedSfmIsCurrent`, without a hypothesis: whatever earlier
  calls left, `sfm --force` that ends well has exported poses of the recording it was called with.
  A forced run skips nothing, so that at each stage everything before it has been made here
  (`ForcedRun`, `MadeSoFar`).  `Unlisted` is needed where images are off: such a run ends before
  the features, as `keyframes.csv` names no image then.
* `RecordsAreHonest`: `CallsAreFit => (Spec => []RecordsHonest)`.  A stage writes its outputs
  one by one over those of an earlier call, so its record is honest only because everything it
  reads is of the recording too: `Passed` says that a run has skipped or completed every earlier
  stage *for its recording* - this is where the chain of fingerprints matters - and `MadeHere`
  what the stage that runs has made.  It speaks of the directories and reports that stages
  make.  It does not speak of the column `image_path` in `keyframes.csv`, which normalize owns
  and create_vimap extends; `CompletedIsListed` in section 5 is that claim, and is false.
* `SuccessesAreCurrent`: `CallsAreFit => (Spec => SuccessIsCurrent)`.  The scripts after the import
  have no manifest; `SfmInv` follows what they make through `sfm`: where the import can be
  trusted (`CallsAreFit`, or the call was forced), features, map 04 and map 08 are of the
  recording at each step, so that the map that the pose export finds, though it only tests what
  exists, is not one that an earlier call has left.

The hypothesis `CallsAreFit`, of the last two, is threefold: calls of the import begin at its first stage
(`WholeCalls`), all configurations have images (`ImagesEnabled`), and no kill strikes a stage
that is run again while its record still says "completed" (`~KillOverCompleted`).  Without any
one of them `RecordsHonest` is false; section 5 has the three counterexamples.  `sfm` calls the
import so, and all configurations of the repository enable images; that no kill comes at the
wrong time nobody can promise, and the code does not guard against it.  The two theorems say
what holds as long as none does; where one may have, `--force` is what the code has to offer.
The run `recorder` makes the same three assumptions.

Recursive functions - the traversal of a mission, the table of merges followed to its end - are
reasoned about with two facts.  A function that satisfies the recursive equation is exhibited,
so that the one TLA+ chooses satisfies it too; and what holds of its values is shown for the
first index at which it would fail (`LeastNumber`, from the well-foundedness of `<` in the
library, and `UpFromOne`, `UpFromZero`).

Each invariant was checked by TLC before it was proved.  Only model-checked are liveness
(`SubmapConsumed`, `DeletedEventuallyGone`, `ShutdownCompletes`, `NobodyStarves`, `PoolGoesOn`,
`CallsReturnUnlessCopying`, `SfmForceCompletes`, `QueriesEnd`, `PipelineGoesOn`), which is
beyond the prover, and the configurations of section 5.  Every other property of the runs has a
theorem.

## 5. Where the code and its promises part

One run shows a counterexample to what the repository says of itself: in
`server_shutdown_backup`, `shutdown()` joins the merging thread with `mutex_` held, whose
periodic backup calls `saveMap()`, which locks `mutex_`: both wait forever.

More of them are kept as configurations and reproduced by hand, with the property that fails:

| Configuration | Module | Property | Why it fails |
|---|---|---|---|
| `ServerLookup.cfg` | `MCMaplabServer` | `LookupAnswered` | `mapLookup` finds a mission in the index, and aborts in `getMapReadAccess` because no merged map exists (yet, or any more); its own error path for such missions comes later |
| `ServerVisualize.cfg` | `MCMaplabServer` | `VisualizeAnswered` | `visualizeMap` tests `hasMap` and accesses the map afterwards; the merging thread may drop it in between |
| `ServerDuplicate.cfg` | `MCMaplabServer` | `DuplicateHandledSoftly` | two tasks for one folder both find the key free; the second load fails a `CHECK` |
| `ServerReset.cfg` | `MCMaplabServer` | `ResetSurvivesOptimization` | an optimization that is running overwrites the radius that a new robot has reset |
| `ServerTwoWorkers.cfg` | `MCMaplabServer` | `MostRecentMissionFirst` | tasks of two missions of a robot record them in the opposite order ("the most recent mission is at the front of the vector") |
| `ServerForgotten.cfg` | `MCMaplabServer` | `DeletedEventuallyForgotten` | nothing is deleted, not even from the indices, while there is no merged map |
| `ReaderFirstInUse.cfg` | `ReaderWriterMutex` | `ReaderFirstInUseComplete` | the reader-first variant inherits `isInUse` but does not count who waits |
| `PoolWait.cfg` | `MCThreadPool` | `OverlappingWaitReturns` | `notify_one` may wake a thread in `waitForEmptyQueue` instead of a worker; it goes back to sleep, the task never starts, the wait never ends |
| `PoolCalls.cfg`, this property alone | `MCThreadPool` | `NoTaskStrandedByOverlap` | a call passes the test of `stop_` before `stop()` and queues its task after the workers have ended |
| `MapsCopy.cfg` | `MCMapManager` | `CallsReturn` | `copyMap` asks for the container while it holds a map; a thread that waits for write access to that map holds the container |
| `MapsCalls.cfg`, with `MergePairs <- BothDirections` | `MCMapManager` | `CallsReturnUnlessCopying` | two merges of the same maps in opposite directions |
| `OutliersRemoved.cfg` | `ConstraintOutliers` | `OutliersRemoved` | constraints are erased by indices that earlier erasures have shifted |
| `VIMapMerge.cfg` | `MCVIMap` | `SeenElsewhereSurvives` | a merged vertex that sees a landmark twice removes the landmark at the second look if exactly one other vertex sees it ("Our merged vertex is the only vertex seeing this landmark.") |
| `LoopMatches.cfg` | `MCLoopClosure` | `MatchesMerged` | a match is dropped if its landmark was merged elsewhere in the meantime: the keypoint does not get "the landmark it matches" (`loop-closure-handler.cc:641`) |
| `LoopClosure.cfg` with `IdsTear = TRUE` | `MCLoopClosure` | `TableLeadsToMap` | if the unlocked read of an id can be torn, a `CHECK` fails on an id that is in no map; elsewhere `IdsTear` is `FALSE` |
| `SessionKilled.cfg` | `MCSessionStages` | `RecordsHonest` | a stage that is run again keeps its record "completed" until it ends; a kill leaves half a result that the next call skips |
| `SessionSelected.cfg` | `MCSessionStages` | `RecordsHonest` | `--from` on a directory of another recording builds on its files and records the new fingerprint |
| `SessionStages.cfg` with `WithImages = {"A"}` | `MCSessionStages` | `RecordsHonest` | with `images.enabled` off the extraction is skipped and the directory of images stays; the export takes whatever images are there, of an earlier configuration of the same recording too (`pipeline.py:773`); all configurations of the repository enable images |
| `SessionStages.cfg`, this property alone | `MCSessionStages` | `CompletedIsListed` | after a completed import, `--force --to normalize`, or an import of another recording that ends after normalize, writes `keyframes.csv` without `image_path`; the next import of the first recording skips create_vimap ("[skip] unchanged") and reports "completed", and features and loop closure fail on `row["image_path"]` (`superpoint_lightglue_onnx.py:245`) until someone calls with `--force`.  It is a failure and no wrong result: `SfmIsCurrent` holds all the same |
| `VIMap.cfg`, with the last disjunct of the property left out | `MCVIMap` | `AbortNeedsLink` | `removeMission` and `duplicateMission` end the process on a mission whose images are kept as resources, as `removeVertex` finds them (`vi-map-inl.h:898`), or the check after the copy finds them twice |
| `MultiJoint.cfg` | `MCMultiSession` | `JointMapCurrent` | `cp -a` onto a directory that exists copies below it: a second call optimizes the maps of the first ("... and joint VI-BA", `run_multisession_full.sh:15`) |

The node shows more with `MaplabNode.cfg`, when another property replaces those listed there:

| Property | Values | Why it fails |
|---|---|---|
| `PipelineGoesOn` | `MaxQueue = 3`, `History = 4` | a release that submits more nframes than the output queue takes waits for space that only itself would make, after the submission (`visual-npipeline.cc:66`) |
| `OnlyFirstFails` | | once the IMU data since the tracker's last nframe are gone, it drops every nframe, as it keeps the last one ("This will only fail for the first frame.", `feature-tracking-flow.h:43`) |
| `LagSurvived` | | "Skipping NFrame." (`map-update-builder.cc:64`): the update after a skipped one does not continue the edge before it, which a `CHECK` of `addImuEdge` forbids |
| `EdgesCovered` | | the same hole, where the map has a single vertex after a save and no edge to compare with |
| `CompleteKept` | `LastTick = 5`, `MaxQueue = 5` | the rule that gives up older nframes gives up complete ones too ("drop all incomplete nframes", `visual-npipeline.cc:305`) |

Two configurations pass when they are run by hand: `OutliersRemoved.cfg` with `MaxPerVertex = 3` and
`SingleOutlierRemoved` in place of its property, the case in which outlier removal is right,
one outlier per vertex; and
`MultiSession.cfg` (`MCMultiSession`): sessions are joined only when this call has
reconstructed all of them, no failure of a background job is lost (`JoinsFreshSessions`), and a
call ends (`CallEnds`).

## 6. What is not modelled, and the plan

Numeric algorithms (optimization, triangulation, tracking, cameras), I/O, visualization,
serialization and scripts are out of reach or stateless; `PROJECT.json` says so of each.
Below the models: the memory of the condition variable (a mutex destroyed while another
thread is still in `releaseWriteLock`), unlocked reads of flags for printing, and the
sparsification and quality checks on a single submap.  Of the server, a folder that cannot be
read aborts the process (`maplab-server-node.cc:372`); in the model every folder that arrives
can be read, as no property is about a process that has ended.  Of the map manager,
`saveAllMapsToFolder` looks at every map twice if it saves to the maps' own folders; the first
look (`map-manager-inl.h:443`) takes and returns read access to one map after the other with the
container held, the second, which is modelled, write access in the same order.

Of the VI map, merging whole maps with their resources, what resources are beyond that the
frames of a vertex have some (their files and cache, those of sensors and missions), the selection of missions, sensors and
quality labels are left out; of loop closure, queries of a summary map and covisibility
filtering; of the node, lidar and other sensors beside cameras, IMU and odometry, external
features, localization, the watchdogs and statistics, and its shutdown; of the tools, the numeric programs, which succeed or fail.

The order of the work, of which 1 to 9 are done:

1. `MaplabServer`: the most important and most concurrent part, with safety, liveness, faults
   and its first proofs.
2. `ReaderWriterMutex` implementing `ReaderWriterLock`.
3. `ThreadPool` implementing `GroupExecutor`.
4. `MapManager` on top of the lock.
5. `MapAnchoring`, `ConstraintOutliers`.
6. `VIMap`: mutual references under every operation, with proofs.
7. `LoopClosure` on `VIMap`: concurrent queries, with proofs.
8. `ImportPipeline`, `SessionStages`, `MultiSession`: repeated, failing and killed calls.
9. `MaplabNode`: release of frames in order, lag, a queue that is full, submaps, with proofs.
10. Message flow: publishers, delivery queues, the FIFO dispatcher on `GroupExecutor`; order
    per subscriber, no stranded message, shutdown.
11. The cache of map resources; an abstract `SubmapLog` that `MaplabServer` implements.
12. Theorems: every safety and action property of the runs has one; those that 10 and 11
    bring will need theirs.
