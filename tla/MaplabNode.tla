------------------------------ MODULE MaplabNode ------------------------------
(***************************************************************************)
(* How a maplab node turns the messages of its sensors into submaps.       *)
(*                                                                         *)
(* Four threads of the message flow and a worker of the visual pipeline    *)
(* meet here: the handlers of raw sensor data, which exclude one another   *)
(* (one exclusivity group), the worker that puts images together to        *)
(* nframes, the feature tracker, the builder of map updates and the map    *)
(* builder.  A queue of the message flow lies between any two of them.     *)
(* The map is saved, and cut, by calls from outside.                       *)
(*                                                                         *)
(* Sources: applications/maplab-node (synchronizer.cc, feature-tracking.cc,*)
(* map-update-builder.cc, map-builder-flow.cc), common/vio-common          *)
(* (pose-lookup-buffer.cc, imu-measurements-buffer.cc), temporal-buffer of *)
(* common/maplab-common, visual-npipeline.cc of aslam_cv_pipeline,         *)
(* stream-map-builder.cc of online-map-builders.                           *)
(*                                                                         *)
(* Time is in ticks: two images of one tick are within the tolerance of    *)
(* the nframe synchronization, those of different ticks are not.  The IMU  *)
(* measures at every tick.                                                 *)
(***************************************************************************)
EXTENDS Integers, Sequences, FiniteSets, SequencesExt

CONSTANTS NumCameras,
          LastTick,   \* bound of time
          History,    \* odometry_buffer_history_ns
          MaxQueue,   \* vio_nframe_sync_max_queue_size
          MinGap,     \* 1 / vio_nframe_sync_max_output_frequency_hz
          MaxSaves    \* bound of the calls of saveMapAndOptionallyOptimize

ASSUME NodeAssumption ==
  /\ LastTick \in Nat /\ History \in Nat /\ MinGap \in Nat /\ MaxSaves \in Nat
  /\ NumCameras \in Nat \ {0} /\ MaxQueue \in Nat \ {0}

VARIABLES imu,         \* the newest tick in the IMU buffer, 0 when it is empty
          odometry,    \* the ticks in the odometry buffer
          image_buffer, \* per camera, the ticks of the images that wait
          arrived,     \* per camera, the newest image so far
          release,     \* the call of releaseCameraImages
          jobs,        \* images on their way to the worker of the visual pipeline
          processing,  \* nframes that are put together, as <<tick, camera>>
          completed,   \* nframes of which all frames are set
          previous_nframe, \* the last nframe that the throttle let pass
          synced, tracked, updates, \* the queues of the three topics
          previous_synced, \* the last nframe of the tracker
          last_received, \* the last nframe of the builder of map updates
          vertices,    \* of the map in memory
          saved,       \* the submaps saved so far
          mapping,     \* whether mapping goes on, and how often it was saved
          crash        \* the CHECK that has ended the process

sensorVars == <<imu, odometry, image_buffer, arrived>>
pipelineVars == <<jobs, processing, completed>>
builderVars == <<previous_synced, last_received, vertices, saved, mapping>>
queues == <<synced, tracked, updates>>
vars == <<sensorVars, release, pipelineVars, previous_nframe, queues, builderVars, crash>>

Cameras == 1 .. NumCameras
Ticks == 1 .. LastTick
None == 0
NoRelease == [pc |-> "idle", submit |-> {}, finished |-> <<>>]

Init ==
  /\ imu = None /\ odometry = {}
  /\ image_buffer = [c \in Cameras |-> {}]
  /\ arrived = [c \in Cameras |-> None]
  /\ release = NoRelease
  /\ jobs = <<>> /\ processing = {} /\ completed = {}
  /\ previous_nframe = None
  /\ synced = <<>> /\ tracked = <<>> /\ updates = <<>>
  /\ previous_synced = None /\ last_received = None
  /\ vertices = <<>> /\ saved = <<>>
  /\ mapping = [terminated |-> FALSE, saves |-> 0]
  /\ crash = "none"
-----------------------------------------------------------------------------
(* The buffers.  Each forgets what is older than History. *)

ImuOldest == IF imu - History > 1 THEN imu - History ELSE 1

\* ImuMeasurementBuffer::isDataAvailableUpToImpl
ImuDataAtEdge(from, to) ==
  CASE imu = None \/ imu < to -> "NotYet"
    [] imu >= to /\ from <= ImuOldest -> "Never"
    [] OTHER -> "Available"
ImuData(from, to) ==
  CASE imu = None \/ imu < to -> "NotYet"
    [] imu >= to /\ from < ImuOldest -> "Never"
    [] OTHER -> "Available"

\* PoseLookupBuffer::interpolateViNodeStateAt, which propagates beyond the newest
\* odometry with the IMU, as far as it has measured.
Odometry(t) ==
  CASE \A u \in odometry : u < t /\ imu < t -> "NotYet"
    [] odometry # {} /\ \A u \in odometry : t < u -> "Never"
    [] OTHER -> "Available"

\* PoseLookupBuffer::getTimeRangeOfAvailablePoses
PoseRangeOfOdometry(buffer) ==
  {t \in Ticks : imu # None /\ ImuOldest <= t /\ \E u, w \in buffer : u <= t /\ t <= w}
PoseRange(buffer) ==
  {t \in Ticks : /\ ImuOldest <= t /\ t <= imu
                 /\ \E u, w \in buffer : u <= t /\ t <= w}
-----------------------------------------------------------------------------
(* The handlers of raw sensor data.  They are in one exclusivity group:    *)
(* none starts before releaseCameraImages has returned.                    *)

Receives == crash = "none" /\ release.pc = "idle"

ProcessImu ==
  /\ Receives
  /\ imu < LastTick
  /\ imu' = imu + 1
  /\ UNCHANGED <<odometry, image_buffer, arrived, release, pipelineVars, previous_nframe,
                 queues, builderVars, crash>>

\* Images of one camera come in their order; some are lost on the way.
ProcessImage ==
  /\ Receives
  /\ \E c \in Cameras, t \in Ticks :
       /\ t > arrived[c]
       /\ arrived' = [arrived EXCEPT ![c] = t]
       /\ image_buffer' = [image_buffer EXCEPT ![c] = @ \cup {t}]
  /\ UNCHANGED <<imu, odometry, release, pipelineVars, previous_nframe, queues, builderVars,
                 crash>>

\* bufferOdometryEstimate and releaseData, up to the first image that is submitted.
\* Images that are older than the range are dropped, newer ones stay.
ProcessOdometry ==
  /\ Receives
  /\ \E t \in Ticks :
       /\ \A u \in odometry : u < t
       /\ LET buffer == {u \in odometry \cup {t} : u >= t - History}
              range == PoseRange(buffer)
          IN /\ odometry' = buffer
             /\ IF range # {} /\ \A c \in Cameras : arrived[c] # None
                THEN /\ release' = [pc |-> "submit", finished |-> <<>>,
                                    submit |-> {f \in range \X Cameras :
                                                  f[1] \in image_buffer[f[2]]}]
                     /\ image_buffer' = [c \in Cameras |->
                          {u \in image_buffer[c] : \A w \in range : w < u}]
                ELSE UNCHANGED <<release, image_buffer>>
  /\ UNCHANGED <<imu, arrived, pipelineVars, previous_nframe, queues, builderVars, crash>>

\* processImageBlockingIfFull
Full == Cardinality(completed) >= MaxQueue

\* The images are submitted camera by camera.
SubmitImage ==
  /\ crash = "none"
  /\ release.pc = "submit"
  /\ ~Full
  /\ \E image \in release.submit :
       /\ \A f \in release.submit : image[2] < f[2] \/ (image[2] = f[2] /\ image[1] <= f[1])
       /\ jobs' = Append(jobs, image)
       /\ release' = [release EXCEPT !.submit = @ \ {image}]
  /\ UNCHANGED <<sensorVars, processing, completed, previous_nframe, queues, builderVars, crash>>

\* getNext, until it returns nothing.
GetNext ==
  /\ crash = "none"
  /\ release.pc = "submit" /\ release.submit = {}
  /\ \/ \E t \in completed :
          /\ \A u \in completed : t <= u
          /\ release' = [release EXCEPT !.finished = Append(@, t)]
          /\ completed' = completed \ {t}
     \/ /\ completed = {}
        /\ release' = IF release.finished = <<>> THEN NoRelease
                      ELSE [release EXCEPT !.pc = "publish"]
        /\ UNCHANGED completed
  /\ UNCHANGED <<sensorVars, jobs, processing, previous_nframe, queues, builderVars, crash>>

\* The throttle drops an nframe that follows too closely on the last one it let pass.
TooClose(t) == previous_nframe # None /\ t - previous_nframe < MinGap

Publish ==
  /\ crash = "none"
  /\ release.pc = "publish"
  /\ LET t == Head(release.finished)
     IN IF TooClose(t) THEN UNCHANGED <<previous_nframe, synced>>
        ELSE previous_nframe' = t /\ synced' = Append(synced, t)
  /\ release' = IF Len(release.finished) = 1 THEN NoRelease
                ELSE [release EXCEPT !.finished = Tail(@)]
  /\ UNCHANGED <<sensorVars, pipelineVars, tracked, updates, builderVars, crash>>
-----------------------------------------------------------------------------
(* The worker of the visual pipeline. *)

NFrames(frames) == {f[1] : f \in frames}
Complete(frames, t) == \A c \in Cameras : <<t, c>> \in frames

\* With more than three nframes, everything before the first two complete ones in a row
\* is given up.
GivenUp(frames) ==
  LET pairs == {p \in NFrames(frames) \X NFrames(frames) :
                  /\ p[1] < p[2] /\ Complete(frames, p[1]) /\ Complete(frames, p[2])
                  /\ \A t \in NFrames(frames) : ~(p[1] < t /\ t < p[2])}
  IN IF Cardinality(NFrames(frames)) > 3 /\ pairs # {}
     THEN {t \in NFrames(frames) : \A p \in pairs : t < p[1]}
     ELSE {}

\* The complete nframes before the first incomplete one.
Ready(frames) ==
  {t \in NFrames(frames) : \A u \in NFrames(frames) : u <= t => Complete(frames, u)}

Work ==
  /\ crash = "none"
  /\ jobs # <<>>
  /\ LET all == processing \cup {Head(jobs)}
         kept == {f \in all : f[1] \notin GivenUp(all)}
     IN /\ completed' = completed \cup Ready(kept)
        /\ processing' = {f \in kept : f[1] \notin Ready(kept)}
  /\ jobs' = Tail(jobs)
  /\ UNCHANGED <<sensorVars, release, previous_nframe, queues, builderVars, crash>>
-----------------------------------------------------------------------------
(* The feature tracker. *)

TrackFrame ==
  /\ crash = "none"
  /\ synced # <<>>
  /\ synced' = Tail(synced)
  /\ LET t == Head(synced)
         follows == previous_synced = None \/ t > previous_synced
         rotation == follows /\ previous_synced # None
                       /\ ImuData(previous_synced, t) = "Available"
     IN /\ crash' = IF follows THEN "none" ELSE "order"
        /\ previous_synced' = IF previous_synced = None \/ rotation THEN t ELSE previous_synced
        /\ tracked' = IF rotation THEN Append(tracked, t) ELSE tracked
  /\ UNCHANGED <<sensorVars, release, pipelineVars, previous_nframe, updates, last_received,
                 vertices, saved, mapping>>
-----------------------------------------------------------------------------
(* Map updates, the map, and the calls that save it. *)

\* The CHECK of processTrackedNFrame that fails, if one does.
UpdateCheck(t) ==
  CASE t <= last_received -> "order"
    [] t > last_received /\ Odometry(t) = "Never" -> "stale"
    [] t > last_received /\ Odometry(t) = "NotYet" -> "premature"
    [] /\ t > last_received /\ Odometry(t) = "Available"
       /\ last_received # None /\ ImuData(last_received, t) = "NotYet" -> "premature"
    [] OTHER -> "none"

\* processTrackedNFrame.  The IMU data of an update start at the nframe before, and when
\* they are gone there is no update.
BuildUpdate ==
  /\ crash = "none"
  /\ tracked # <<>>
  /\ tracked' = Tail(tracked)
  /\ IF mapping.terminated \/ UpdateCheck(Head(tracked)) # "none"
     THEN /\ crash' = IF mapping.terminated THEN "none" ELSE UpdateCheck(Head(tracked))
          /\ UNCHANGED <<last_received, updates>>
     ELSE /\ last_received' = Head(tracked)
          /\ updates' = IF last_received # None
                           /\ ImuData(last_received, Head(tracked)) = "Never"
                        THEN updates
                        ELSE Append(updates, [tick |-> Head(tracked), from |-> last_received])
          /\ UNCHANGED crash
  /\ UNCHANGED <<sensorVars, release, pipelineVars, previous_nframe, synced,
                 previous_synced, vertices, saved, mapping>>

\* An edge continues the IMU data of the edge before it, if there is one.
Continues(update) == Len(vertices) > 1 => update.from = Last(vertices).tick

ApplyUpdate ==
  /\ crash = "none"
  /\ updates # <<>>
  /\ updates' = Tail(updates)
  /\ LET applied == ~mapping.terminated /\ Continues(Head(updates))
     IN /\ vertices' = IF applied THEN Append(vertices, Head(updates)) ELSE vertices
        /\ crash' = IF applied \/ mapping.terminated THEN "none" ELSE "gap"
  /\ UNCHANGED <<sensorVars, release, pipelineVars, previous_nframe, synced, tracked,
                 previous_synced, last_received, saved, mapping>>

\* dropMapDataBeforeVertex with the last vertex
RemainingNone == <<>>
Remaining == <<Last(vertices)>>

SaveMap ==
  /\ crash = "none"
  /\ mapping.saves < MaxSaves
  /\ \E stop \in BOOLEAN :
       mapping' = [terminated |-> mapping.terminated \/ stop, saves |-> mapping.saves + 1]
  /\ \/ Len(vertices) < 3 /\ UNCHANGED <<vertices, saved>>
     \/ /\ Len(vertices) >= 3
        /\ saved' = Append(saved, vertices)
        /\ vertices' = Remaining
     \/ Len(vertices) >= 3 /\ UNCHANGED <<vertices, saved>>     \* saveMapToFolder failed
  /\ UNCHANGED <<sensorVars, release, pipelineVars, previous_nframe, queues,
                 previous_synced, last_received, crash>>
-----------------------------------------------------------------------------
Next ==
  \/ ProcessImu \/ ProcessImage \/ ProcessOdometry
  \/ SubmitImage \/ GetNext \/ Publish \/ Work
  \/ TrackFrame \/ BuildUpdate \/ ApplyUpdate \/ SaveMap

Spec == Init /\ [][Next]_vars

\* Handlers that run go on, as do the threads of the pools.
FairSpec ==
  /\ Spec
  /\ WF_vars(SubmitImage \/ GetNext \/ Publish) /\ WF_vars(Work)
  /\ WF_vars(TrackFrame) /\ WF_vars(BuildUpdate) /\ WF_vars(ApplyUpdate)
-----------------------------------------------------------------------------
NodeTypeOK ==
  /\ imu \in 0 .. LastTick /\ odometry \subseteq Ticks
  /\ image_buffer \in [Cameras -> SUBSET Ticks]
  /\ arrived \in [Cameras -> 0 .. LastTick]
  /\ release \in [pc : {"idle", "submit", "publish"}, submit : SUBSET (Ticks \X Cameras),
                  finished : Seq(Ticks)]
  /\ jobs \in Seq(Ticks \X Cameras)
  /\ processing \subseteq Ticks \X Cameras
  /\ completed \subseteq Ticks
  /\ previous_nframe \in 0 .. LastTick
  /\ synced \in Seq(Ticks) /\ tracked \in Seq(Ticks)
  /\ updates \in Seq([tick : Ticks, from : 0 .. LastTick])
  /\ previous_synced \in 0 .. LastTick /\ last_received \in 0 .. LastTick
  /\ vertices \in Seq([tick : Ticks, from : 0 .. LastTick])
  /\ saved \in Seq(Seq([tick : Ticks, from : 0 .. LastTick]))
  /\ mapping \in [terminated : BOOLEAN, saves : 0 .. MaxSaves]
  /\ crash \in {"none", "order", "premature", "stale", "gap"}

\* The throttle lets `later` pass after `earlier`.
After(earlier, later) ==
  earlier = None \/ (earlier < later /\ later - earlier >= MinGap)
InOrder(previous, frames) ==
  /\ \A i \in DOMAIN frames : After(previous, frames[i])
  /\ \A i, j \in DOMAIN frames : i < j => After(frames[i], frames[j])

\* The tracker and the builder of map updates get nframes in their order and no faster than
\* the throttle says, and the IMU and odometry data up to them are there: "The synchronizer
\* should never allow this!" (pose-lookup-buffer.cc:62), "This should never happen, as it is
\* ensure by the synchronizer" (map-update-builder.cc:54).  Images of the cameras come one by
\* one, some are lost, and others complete an nframe that later ones have overtaken.
FramesReady ==
  /\ NodeTypeOK
  /\ \A t \in ToSet(synced) \cup ToSet(tracked) :
       t <= imu /\ \E u \in odometry : t <= u
  /\ InOrder(previous_synced, synced)
  /\ InOrder(last_received, tracked)
  /\ crash \notin {"order", "premature"}

\* Submaps saved one after the other, and the map in memory after them, share one vertex, the
\* last of the one and the first of the other: the server appends a submap there.  A save may
\* fail, and updates arrive between any two.
SubmapsConnect ==
  LET maps == Append(saved, vertices)
  IN /\ \A m \in DOMAIN maps : \A i, j \in DOMAIN maps[m] :
          i < j => maps[m][i].tick < maps[m][j].tick
     /\ \A m \in DOMAIN saved :
          saved[m] # <<>> /\ maps[m + 1] # <<>> /\ maps[m + 1][1].tick = Last(saved[m]).tick

\* The handler that releases images never waits for space in the queue, which nobody but
\* itself empties, and it does so later.
ReleaseReturns == ~(release.submit # {} /\ Full)

\* What the tracker or the builder of updates has needed of the IMU is gone.
Lags ==
  \/ previous_synced # None /\ previous_synced < ImuOldest
  \/ last_received # None /\ last_received < ImuOldest

Mapped == {v.tick : v \in UNION {ToSet(map) : map \in ToSet(saved) \cup {vertices}}}

\* An nframe that is handed out gets into the map: only the first is for the tracker alone,
\* unless the node lags, has stopped mapping, or ends.
FramesArrive ==
  \A t \in Ticks \ {1} :
    previous_synced # None /\ t \in ToSet(synced)
      ~> t \in Mapped \/ Lags \/ mapping.terminated \/ crash # "none"

\* What comes in gets through: no call of releaseCameraImages blocks itself, while the queue
\* holds all nframes of a release, and nframes arrive.
PipelineGoesOn == []ReleaseReturns /\ FramesArrive
-----------------------------------------------------------------------------
(* What does not hold, and is violated when a run checks it. *)

\* "drop all incomplete nframes" (visual-npipeline.cc:305): complete ones are kept.
CompleteKept ==
  [][\A t \in NFrames(processing) :
       Complete(processing, t) => t \in NFrames(processing') \cup completed']_processing

\* "This will only fail for the first frame." (feature-tracking-flow.h:43)
OnlyFirstFails ==
  [][previous_synced # None /\ synced # <<>> /\ synced' = Tail(synced)
       => tracked' # tracked]_<<synced, tracked>>

\* "This can happen if we are lagging behind ...  Skipping NFrame." (map-update-builder.cc:64):
\* to lag costs nframes, but does not end the process.
LagSurvived == crash = "none"

\* The IMU data of an edge cover the time between its vertices.
EdgesCovered ==
  \A map \in ToSet(saved) \cup {vertices} :
    \A i \in DOMAIN map \ {1} : map[i].from = map[i - 1].tick
=============================================================================
