--------------------------- MODULE MaplabNodeProofs ---------------------------
(***************************************************************************)
(* Theorems about MaplabNode, for any number of cameras, any history of    *)
(* the buffers, size of the queue, rate of the throttle and length of a    *)
(* run: what is handed out is ready and in order, and saved submaps        *)
(* connect.                                                                *)
(***************************************************************************)
EXTENDS MaplabNode, SequenceTheorems, TLAPS

-----------------------------------------------------------------------------
(* The inductive invariant. *)

\* IMU and odometry reach t.
Covered(t) == t <= imu /\ \E u \in odometry : t <= u

\* Everything that has left the buffers of images and is not in an update yet is covered.
OnTheWay ==
  NFrames(release.submit \cup ToSet(jobs) \cup processing)
    \cup completed \cup ToSet(release.finished) \cup ToSet(synced) \cup ToSet(tracked)

CoveredInv == \A t \in OnTheWay : Covered(t)

\* The images of a camera stay in their order: those in the nframes that are put together
\* come before those in the jobs, and so on up to the newest.
BeforeBuffer(f) == f[1] <= arrived[f[2]] /\ \A u \in image_buffer[f[2]] : f[1] < u
BeforeIn(frames, f) == \A g \in frames : g[2] = f[2] => f[1] < g[1]

CameraInv ==
  /\ \A c \in Cameras : \A u \in image_buffer[c] : u <= arrived[c]
  /\ \A f \in release.submit \cup ToSet(jobs) \cup processing : BeforeBuffer(f)
  /\ \A f \in ToSet(jobs) \cup processing : BeforeIn(release.submit, f)
  /\ \A f \in processing : BeforeIn(ToSet(jobs), f)
  /\ \A i, j \in DOMAIN jobs : i < j /\ jobs[j][2] = jobs[i][2] => jobs[i][1] < jobs[j][1]

\* An nframe that is complete comes before all images, of all cameras, that are not in a
\* complete one.
Ahead(t) ==
  /\ \A c \in Cameras : t <= arrived[c] /\ \A u \in image_buffer[c] : t < u
  /\ \A f \in release.submit \cup ToSet(jobs) \cup processing : t < f[1]

OutInv ==
  /\ Ahead(previous_nframe)
  /\ \A t \in completed \cup ToSet(release.finished) : Ahead(t) /\ previous_nframe < t
  /\ \A t \in completed, u \in ToSet(release.finished) : u < t
  /\ \A i, j \in DOMAIN release.finished :
       i < j => release.finished[i] < release.finished[j]

QueueInv ==
  /\ InOrder(previous_synced, synced)
  /\ InOrder(last_received, tracked)
  /\ \A t \in ToSet(synced) \cup {previous_synced} : t <= previous_nframe
  /\ \A t \in ToSet(tracked) \cup {last_received} : t <= previous_synced
  /\ crash \notin {"order", "premature"}

Ascending(map) == \A i, j \in DOMAIN map : i < j => map[i].tick < map[j].tick
Connected(earlier, later) ==
  earlier # <<>> /\ later # <<>> /\ later[1].tick = earlier[Len(earlier)].tick

MapInv ==
  /\ Ascending(updates) /\ Ascending(vertices)
  /\ \A v \in ToSet(updates) \cup ToSet(vertices) : v.tick <= last_received
  /\ \A v \in ToSet(vertices), u \in ToSet(updates) : v.tick < u.tick
  /\ \A m \in DOMAIN saved : Ascending(saved[m])
  /\ \A m \in 1 .. Len(saved) - 1 : Connected(saved[m], saved[m + 1])
  /\ saved # <<>> => Connected(saved[Len(saved)], vertices)

\* Nothing is published when nothing is finished.
TypeInv == NodeTypeOK /\ (release.pc = "publish" => release.finished # <<>>)

IInv == TypeInv /\ CoveredInv /\ CameraInv /\ OutInv /\ QueueInv /\ MapInv

-----------------------------------------------------------------------------
(* Lemmas about sequences. *)

\* A predicate that holds of all elements holds after Tail; the elements move down by one.
LEMMA TailElements ==
  ASSUME NEW S, NEW s \in Seq(S), s # <<>>
  PROVE  /\ Head(s) = s[1] /\ 1 \in DOMAIN s /\ Head(s) \in S
         /\ Tail(s) \in Seq(S)
         /\ \A i \in DOMAIN Tail(s) : i + 1 \in DOMAIN s /\ 1 < i + 1 /\ Tail(s)[i] = s[i + 1]
         /\ DOMAIN s \subseteq Int /\ DOMAIN Tail(s) \subseteq Int
<1>1. Head(s) = s[1] /\ Len(s) \in Nat \ {0} /\ DOMAIN s = 1 .. Len(s)
  BY EmptySeq, LenProperties
<1>2. /\ Head(s) \in S /\ Tail(s) \in Seq(S) /\ Len(Tail(s)) = Len(s) - 1
      /\ \A i \in 1 .. Len(Tail(s)) : Tail(s)[i] = s[i + 1]
  BY HeadTailProperties
<1>3. DOMAIN Tail(s) = 1 .. Len(Tail(s))
  BY <1>2, LenProperties
<1>4. QED
  BY <1>1, <1>2, <1>3

\* The elements of a sequence after Append are the old ones and, behind them, the new one.
LEMMA AppendElements ==
  ASSUME NEW S, NEW s \in Seq(S), NEW e \in S
  PROVE  /\ Append(s, e) \in Seq(S)
         /\ Append(s, e) # <<>>
         /\ DOMAIN s = 1 .. Len(s) /\ Len(s) \in Nat
         /\ DOMAIN Append(s, e) = 1 .. Len(s) + 1 /\ Len(Append(s, e)) = Len(s) + 1
         /\ \A i \in DOMAIN s : Append(s, e)[i] = s[i]
         /\ Append(s, e)[Len(s) + 1] = e
         /\ \A i \in DOMAIN Append(s, e) : i \in DOMAIN s \/ i = Len(s) + 1
<1>1. DOMAIN s = 1 .. Len(s) /\ Len(s) \in Nat
  BY LenProperties
<1>2. /\ Append(s, e) \in Seq(S) /\ Len(Append(s, e)) = Len(s) + 1
      /\ \A i \in 1 .. Len(s) : Append(s, e)[i] = s[i]
      /\ Append(s, e)[Len(s) + 1] = e
  BY AppendProperties
<1>3. DOMAIN Append(s, e) = 1 .. Len(s) + 1
  BY <1>2, LenProperties
<1>4. Append(s, e) # <<>>
  BY <1>1, <1>2, EmptySeq
<1>5. QED
  BY <1>1, <1>2, <1>3, <1>4

-----------------------------------------------------------------------------
(* Types. *)

LEMMA TickFacts ==
  /\ LastTick \in Nat /\ Ticks \subseteq Nat /\ Ticks \subseteq 0 .. LastTick
  /\ \A t \in Ticks : t > 0
  /\ \A t \in 0 .. LastTick : t \in Nat /\ (t # None => t \in Ticks)
  /\ Cameras \subseteq Nat
BY NodeAssumption DEF Ticks, None, Cameras

\* What a call of releaseCameraImages starts with.
Released(range) ==
  [pc |-> "submit", finished |-> <<>>,
   submit |-> {f \in range \X Cameras : f[1] \in image_buffer[f[2]]}]

\* What ProcessOdometry does: it changes the odometry, and starts a call or does not.
LEMMA OdometryStep ==
  ASSUME NodeTypeOK, ProcessOdometry
  PROVE  \E t \in Ticks :
           /\ \A u \in odometry : u < t
           /\ odometry' = {u \in odometry \cup {t} : u >= t - History}
           /\ \/ /\ release' = Released(PoseRange(odometry'))
                 /\ PoseRange(odometry') # {}
                 /\ image_buffer' = [c \in Cameras |->
                      {u \in image_buffer[c] : \A w \in PoseRange(odometry') : w < u}]
              \/ UNCHANGED <<release, image_buffer>>
BY DEF ProcessOdometry, Released

LEMMA NextType == TypeInv /\ Next => TypeInv'
<1> SUFFICES ASSUME NodeTypeOK, release.pc = "publish" => release.finished # <<>>, Next
             PROVE NodeTypeOK' /\ (release'.pc = "publish" => release'.finished # <<>>)
  BY DEF TypeInv
<1> USE TickFacts
<1>1. CASE ProcessImu
  BY <1>1 DEF ProcessImu, NodeTypeOK, pipelineVars, queues, builderVars
<1>2. CASE ProcessImage
  BY <1>2 DEF ProcessImage, NodeTypeOK, pipelineVars, queues, builderVars
<1>3. CASE ProcessOdometry
  <2>1. odometry' \subseteq Ticks
    BY <1>3, OdometryStep DEF NodeTypeOK
  <2>2. Released(PoseRange(odometry')) \in
          [pc : {"idle", "submit", "publish"}, submit : SUBSET (Ticks \X Cameras),
           finished : Seq(Ticks)]
    <3>1. PoseRange(odometry') \subseteq Ticks
      BY DEF PoseRange
    <3>2. {f \in PoseRange(odometry') \X Cameras : f[1] \in image_buffer[f[2]]}
            \in SUBSET (Ticks \X Cameras)
      BY <3>1
    <3>3. <<>> \in Seq(Ticks)
      OBVIOUS
    <3>4. QED
      BY <3>2, <3>3 DEF Released
  <2>3. /\ release' \in [pc : {"idle", "submit", "publish"}, submit : SUBSET (Ticks \X Cameras),
                         finished : Seq(Ticks)]
        /\ release'.pc = "publish" => release'.finished # <<>>
    BY <1>3, <2>2, OdometryStep DEF NodeTypeOK, Released
  <2>4. image_buffer' \in [Cameras -> SUBSET Ticks]
    BY <1>3, OdometryStep DEF NodeTypeOK
  <2>5. QED
    BY <1>3, <2>1, <2>3, <2>4
       DEF ProcessOdometry, NodeTypeOK, pipelineVars, queues, builderVars
<1>4. CASE SubmitImage
  <2> PICK image \in release.submit :
         /\ jobs' = Append(jobs, image)
         /\ release' = [release EXCEPT !.submit = @ \ {image}]
    BY <1>4 DEF SubmitImage
  <2>1. image \in Ticks \X Cameras
    BY DEF NodeTypeOK
  <2>2. jobs' \in Seq(Ticks \X Cameras)
    BY <2>1, AppendElements DEF NodeTypeOK
  <2>3. QED
    BY <1>4, <2>2
       DEF SubmitImage, NodeTypeOK, sensorVars, queues, builderVars
<1>5. CASE GetNext
  <2>1. CASE \E t \in completed :
               /\ release' = [release EXCEPT !.finished = Append(@, t)]
               /\ completed' = completed \ {t}
    <3> PICK t \in completed : /\ release' = [release EXCEPT !.finished = Append(@, t)]
                               /\ completed' = completed \ {t}
      BY <2>1
    <3>1. Append(release.finished, t) \in Seq(Ticks)
      BY AppendElements DEF NodeTypeOK
    <3>2. QED
      BY <1>5, <3>1 DEF GetNext, NodeTypeOK, sensorVars, queues, builderVars
  <2>2. CASE /\ release' = IF release.finished = <<>> THEN NoRelease
                           ELSE [release EXCEPT !.pc = "publish"]
             /\ UNCHANGED completed
    BY <1>5, <2>2 DEF GetNext, NodeTypeOK, NoRelease, sensorVars, queues, builderVars
  <2>3. QED
    BY <1>5, <2>1, <2>2 DEF GetNext
<1>6. CASE Publish
  <2> DEFINE t == Head(release.finished)
             rest == Tail(release.finished)
  <2>1. /\ release.finished # <<>>
        /\ IF TooClose(t) THEN UNCHANGED <<previous_nframe, synced>>
           ELSE previous_nframe' = t /\ synced' = Append(synced, t)
        /\ release' = IF Len(release.finished) = 1 THEN NoRelease
                      ELSE [release EXCEPT !.finished = rest]
    BY <1>6 DEF Publish
  <2>2. t \in Ticks /\ rest \in Seq(Ticks) /\ (Len(release.finished) # 1 => rest # <<>>)
    <3>1. release.finished \in Seq(Ticks)
      BY DEF NodeTypeOK
    <3>2. t \in Ticks /\ rest \in Seq(Ticks) /\ Len(rest) = Len(release.finished) - 1
          /\ Len(release.finished) \in Nat \ {0}
      BY <2>1, <3>1, HeadTailProperties, EmptySeq
    <3>3. Len(<<>>) = 0
      OBVIOUS
    <3>4. ASSUME Len(release.finished) # 1, rest = <<>> PROVE FALSE
      <4>1. Len(rest) = 0
        BY <3>3, <3>4
      <4>2. QED
        BY <3>2, <3>4, <4>1
    <3>5. QED
      BY <3>2, <3>4
  <2>3. Append(synced, t) \in Seq(Ticks)
    BY <2>2, AppendElements DEF NodeTypeOK
  <2> HIDE DEF t, rest
  <2>4. release' \in [pc : {"idle", "submit", "publish"}, submit : SUBSET (Ticks \X Cameras),
                      finished : Seq(Ticks)]
        /\ (release'.pc = "publish" => release'.finished # <<>>)
    <3>1. release \in [pc : {"idle", "submit", "publish"}, submit : SUBSET (Ticks \X Cameras),
                       finished : Seq(Ticks)]
      BY DEF NodeTypeOK
    <3>2. NoRelease \in [pc : {"idle", "submit", "publish"}, submit : SUBSET (Ticks \X Cameras),
                       finished : Seq(Ticks)] /\ NoRelease.pc = "idle"
      BY DEF NoRelease
    <3>3. CASE release' = NoRelease
      BY <3>2, <3>3
    <3>4. CASE Len(release.finished) # 1 /\ release' = [release EXCEPT !.finished = rest]
      BY <2>2, <3>1, <3>4
    <3>5. QED
      BY <2>1, <3>3, <3>4
  <2>5. previous_nframe' \in 0 .. LastTick /\ synced' \in Seq(Ticks)
    BY <2>1, <2>2, <2>3 DEF NodeTypeOK
  <2>6. QED
    BY <1>6, <2>4, <2>5 DEF Publish, NodeTypeOK, sensorVars, pipelineVars, builderVars
<1>7. CASE Work
  <2>1. jobs # <<>> /\ jobs \in Seq(Ticks \X Cameras)
    BY <1>7 DEF Work, NodeTypeOK
  <2>2. Head(jobs) \in Ticks \X Cameras /\ Tail(jobs) \in Seq(Ticks \X Cameras)
    BY <2>1, TailElements
  <2> DEFINE all == processing \cup {Head(jobs)}
  <2>3. all \subseteq Ticks \X Cameras
    BY <2>2 DEF NodeTypeOK
  <2>4. \A frames \in SUBSET (Ticks \X Cameras) : Ready(frames) \subseteq Ticks
    BY DEF Ready, NFrames
  <2>5. PICK kept : /\ kept \subseteq all
                    /\ completed' = completed \cup Ready(kept)
                    /\ processing' = {f \in kept : f[1] \notin Ready(kept)}
    BY <1>7 DEF Work
  <2>6. processing' \subseteq Ticks \X Cameras /\ completed' \subseteq Ticks
    BY <2>3, <2>4, <2>5 DEF NodeTypeOK
  <2>7. QED
    BY <1>7, <2>2, <2>6 DEF Work, NodeTypeOK, sensorVars, queues, builderVars
<1>8. CASE TrackFrame
  <2>1. synced # <<>> /\ synced \in Seq(Ticks)
    BY <1>8 DEF TrackFrame, NodeTypeOK
  <2>2. Head(synced) \in Ticks /\ Tail(synced) \in Seq(Ticks)
    BY <2>1, TailElements
  <2>3. Append(tracked, Head(synced)) \in Seq(Ticks)
    BY <2>2, AppendElements DEF NodeTypeOK
  <2>4. /\ crash' \in {"none", "order"} /\ previous_synced' \in {Head(synced), previous_synced}
        /\ tracked' \in {Append(tracked, Head(synced)), tracked}
    BY <1>8 DEF TrackFrame
  <2>5. QED
    BY <1>8, <2>2, <2>3, <2>4
       DEF TrackFrame, NodeTypeOK, sensorVars, pipelineVars
<1>9. CASE BuildUpdate
  <2>1. tracked # <<>> /\ tracked \in Seq(Ticks)
    BY <1>9 DEF BuildUpdate, NodeTypeOK
  <2>2. Head(tracked) \in Ticks /\ Tail(tracked) \in Seq(Ticks)
    BY <2>1, TailElements
  <2> DEFINE update == [tick |-> Head(tracked), from |-> last_received]
  <2>3. Append(updates, update) \in Seq([tick : Ticks, from : 0 .. LastTick])
    BY <2>2, AppendElements DEF NodeTypeOK
  <2>4. UpdateCheck(Head(tracked)) \in {"none", "order", "premature", "stale"}
    BY DEF UpdateCheck
  <2> HIDE DEF update
  <2>5. /\ crash' \in {"none", "order", "premature", "stale"}
        /\ last_received' \in {Head(tracked), last_received}
        /\ updates' \in {Append(updates, update), updates}
    BY <1>9, <2>4 DEF BuildUpdate, NodeTypeOK, update
  <2>6. QED
    BY <1>9, <2>2, <2>3, <2>5 DEF BuildUpdate, NodeTypeOK, sensorVars, pipelineVars
<1>10. CASE ApplyUpdate
  <2>1. updates # <<>> /\ updates \in Seq([tick : Ticks, from : 0 .. LastTick])
    BY <1>10 DEF ApplyUpdate, NodeTypeOK
  <2>2. /\ Head(updates) \in [tick : Ticks, from : 0 .. LastTick]
        /\ Tail(updates) \in Seq([tick : Ticks, from : 0 .. LastTick])
    BY <2>1, TailElements
  <2>3. Append(vertices, Head(updates)) \in Seq([tick : Ticks, from : 0 .. LastTick])
    BY <2>2, AppendElements DEF NodeTypeOK
  <2>4. crash' \in {"none", "gap"} /\ vertices' \in {Append(vertices, Head(updates)), vertices}
    BY <1>10 DEF ApplyUpdate
  <2>5. QED
    BY <1>10, <2>2, <2>3, <2>4 DEF ApplyUpdate, NodeTypeOK, sensorVars, pipelineVars
<1>11. CASE SaveMap
  <2>1. mapping' \in [terminated : BOOLEAN, saves : 0 .. MaxSaves]
    BY <1>11, NodeAssumption DEF SaveMap, NodeTypeOK
  <2>2. /\ vertices' \in Seq([tick : Ticks, from : 0 .. LastTick])
        /\ saved' \in Seq(Seq([tick : Ticks, from : 0 .. LastTick]))
    <3>1. CASE UNCHANGED <<vertices, saved>>
      BY <3>1 DEF NodeTypeOK
    <3>2. CASE /\ Len(vertices) >= 3
               /\ saved' = Append(saved, vertices) /\ vertices' = Remaining
      <4>1. vertices[Len(vertices)] \in [tick : Ticks, from : 0 .. LastTick]
        <5>1. vertices \in Seq([tick : Ticks, from : 0 .. LastTick])
          BY DEF NodeTypeOK
        <5>2. Len(vertices) \in 1 .. Len(vertices)
          BY <3>2, <5>1, LenProperties
        <5>3. QED
          BY <5>1, <5>2, ElementOfSeq
      <4>2. Remaining \in Seq([tick : Ticks, from : 0 .. LastTick])
        BY <4>1 DEF Remaining, Last
      <4>3. QED
        BY <3>2, <4>2, AppendElements DEF NodeTypeOK
    <3>3. QED
      BY <1>11, <3>1, <3>2 DEF SaveMap
  <2>3. QED
    BY <1>11, <2>1, <2>2 DEF SaveMap, NodeTypeOK, sensorVars, pipelineVars, queues
<1>12. QED
  BY <1>1, <1>2, <1>3, <1>4, <1>5, <1>6, <1>7, <1>8, <1>9, <1>10, <1>11 DEF Next

-----------------------------------------------------------------------------
(* What has left the buffers is covered by IMU and odometry. *)

\* The elements of a sequence, as a set.
LEMMA TailSet ==
  ASSUME NEW S, NEW s \in Seq(S), s # <<>>
  PROVE  /\ ToSet(s) \subseteq S /\ Head(s) \in ToSet(s)
         /\ ToSet(Tail(s)) \subseteq ToSet(s) /\ ToSet(s) = ToSet(Tail(s)) \cup {Head(s)}
<1>1. \A i \in DOMAIN s : s[i] \in S
  BY LenProperties, ElementOfSeq
<1>2. \A i \in DOMAIN s : i # 1 => i - 1 \in DOMAIN Tail(s) /\ i = (i - 1) + 1
  <2>1. DOMAIN s = 1 .. Len(s) /\ Len(s) \in Nat
    BY LenProperties
  <2>2. Tail(s) \in Seq(S) /\ Len(Tail(s)) = Len(s) - 1
    BY HeadTailProperties
  <2>3. DOMAIN Tail(s) = 1 .. Len(s) - 1
    BY <2>2, LenProperties
  <2>4. QED
    BY <2>1, <2>3
<1>3. \A i \in DOMAIN s : i = 1 \/ s[i] \in ToSet(Tail(s))
  BY <1>2, TailElements DEF ToSet
<1>4. QED
  BY <1>1, <1>3, TailElements DEF ToSet

LEMMA AppendSet ==
  ASSUME NEW S, NEW s \in Seq(S), NEW e \in S
  PROVE  ToSet(Append(s, e)) = ToSet(s) \cup {e} /\ ToSet(s) \subseteq S
<1>1. ToSet(Append(s, e)) \subseteq ToSet(s) \cup {e}
  BY AppendElements DEF ToSet
<1>2. \A i \in DOMAIN s : i \in DOMAIN Append(s, e) /\ Append(s, e)[i] = s[i]
  BY AppendElements
<1>3. Len(s) + 1 \in DOMAIN Append(s, e) /\ Append(s, e)[Len(s) + 1] = e
  BY AppendElements
<1>4. ToSet(s) \subseteq S
  BY LenProperties, ElementOfSeq DEF ToSet
<1>5. QED
  BY <1>1, <1>2, <1>3, <1>4 DEF ToSet

LEMMA EmptySet == ToSet(<<>>) = {}
BY DEF ToSet

LEMMA SetType ==
  ASSUME NEW S, NEW s \in Seq(S)
  PROVE  ToSet(s) \subseteq S
BY LenProperties, ElementOfSeq DEF ToSet

LEMMA OnTheWayType == NodeTypeOK => OnTheWay \subseteq Ticks
<1> SUFFICES ASSUME NodeTypeOK PROVE OnTheWay \subseteq Ticks
  OBVIOUS
<1>1. /\ ToSet(jobs) \subseteq Ticks \X Cameras /\ ToSet(release.finished) \subseteq Ticks
      /\ ToSet(synced) \subseteq Ticks /\ ToSet(tracked) \subseteq Ticks
  BY SetType DEF NodeTypeOK
<1>2. release.submit \subseteq Ticks \X Cameras /\ processing \subseteq Ticks \X Cameras
  BY DEF NodeTypeOK
<1>3. NFrames(release.submit \cup ToSet(jobs) \cup processing) \subseteq Ticks
  BY <1>1, <1>2 DEF NFrames
<1>4. QED
  BY <1>1, <1>3 DEF OnTheWay, NodeTypeOK

\* The newest odometry is never forgotten.
LEMMA CoveredKept ==
  ASSUME TypeInv, Next, NEW t \in Ticks, Covered(t)
  PROVE  Covered(t)'
<1> USE TickFacts DEF TypeInv
<1>1. CASE ProcessImu
  BY <1>1 DEF ProcessImu, NodeTypeOK, Covered
<1>2. CASE ProcessOdometry
  <2>1. PICK u \in Ticks : /\ \A w \in odometry : w < u
                           /\ odometry' = {w \in odometry \cup {u} : w >= u - History}
    BY <1>2, OdometryStep
  <2>2. u \in odometry'
    BY <2>1, NodeAssumption
  <2>3. t <= u
    BY <2>1 DEF Covered, NodeTypeOK
  <2>4. QED
    BY <1>2, <2>2, <2>3 DEF ProcessOdometry, Covered
<1>3. CASE ~ProcessImu /\ ~ProcessOdometry
  BY <1>3 DEF Next, ProcessImage, SubmitImage, GetNext, Publish, Work, TrackFrame,
              BuildUpdate, ApplyUpdate, SaveMap, sensorVars, Covered
<1>4. QED
  BY <1>1, <1>2, <1>3

\* Only a release takes something new from the buffers.
LEMMA OnTheWayStep ==
  ASSUME TypeInv, TypeInv', Next
  PROVE  OnTheWay' \subseteq OnTheWay \cup PoseRange(odometry')
<1>0. /\ jobs \in Seq(Ticks \X Cameras) /\ release.finished \in Seq(Ticks)
      /\ synced \in Seq(Ticks) /\ tracked \in Seq(Ticks)
      /\ release \in [pc : {"idle", "submit", "publish"}, submit : SUBSET (Ticks \X Cameras),
                      finished : Seq(Ticks)]
  BY DEF TypeInv, NodeTypeOK
<1>1. CASE ProcessImu \/ ProcessImage \/ ApplyUpdate \/ SaveMap
  BY <1>1 DEF ProcessImu, ProcessImage, ApplyUpdate, SaveMap, OnTheWay, pipelineVars, queues
<1>2. CASE ProcessOdometry
  <2>1. \/ UNCHANGED release
        \/ /\ release'.finished = <<>>
           /\ \A f \in release'.submit : f[1] \in PoseRange(odometry')
    BY <1>2, OdometryStep DEF TypeInv, Released
  <2>2. QED
    BY <1>2, <2>1, EmptySet DEF ProcessOdometry, OnTheWay, NFrames, pipelineVars, queues
<1>3. CASE SubmitImage
  <2>1. PICK image \in release.submit : /\ jobs' = Append(jobs, image)
                                        /\ release' = [release EXCEPT !.submit = @ \ {image}]
    BY <1>3 DEF SubmitImage
  <2>2. ToSet(jobs') = ToSet(jobs) \cup {image}
    BY <1>0, <2>1, AppendSet
  <2>3. release'.submit \cup ToSet(jobs') \subseteq release.submit \cup ToSet(jobs)
        /\ release'.finished = release.finished
    BY <1>0, <2>1, <2>2
  <2>4. QED
    BY <1>3, <2>3 DEF SubmitImage, OnTheWay, NFrames, queues
<1>4. CASE GetNext
  <2>1. /\ release'.submit \subseteq release.submit
        /\ completed' \cup ToSet(release'.finished)
             \subseteq completed \cup ToSet(release.finished)
    <3>1. ASSUME NEW t \in completed, completed' = completed \ {t},
                 release' = [release EXCEPT !.finished = Append(@, t)]
          PROVE  /\ release'.submit = release.submit
                 /\ completed' \cup ToSet(release'.finished)
                      = completed \cup ToSet(release.finished)
      <4>1. ToSet(Append(release.finished, t)) = ToSet(release.finished) \cup {t}
        <5>1. t \in Ticks
          BY DEF TypeInv, NodeTypeOK
        <5>2. QED
          BY <1>0, <5>1, AppendSet
      <4>2. QED
        BY <1>0, <3>1, <4>1
    <3>2. ASSUME UNCHANGED completed,
                 release' = NoRelease \/ release' = [release EXCEPT !.pc = "publish"]
          PROVE  /\ release'.submit \subseteq release.submit
                 /\ completed' \cup ToSet(release'.finished)
                      \subseteq completed \cup ToSet(release.finished)
      BY <1>0, <3>2, EmptySet DEF NoRelease
    <3>3. QED
      BY <1>4, <3>1, <3>2 DEF GetNext
  <2>2. QED
    BY <1>4, <2>1 DEF GetNext, OnTheWay, NFrames, queues
<1>5. CASE Publish
  <2>1. release.finished # <<>>
    BY <1>5 DEF Publish, TypeInv
  <2>2. /\ Head(release.finished) \in ToSet(release.finished)
        /\ ToSet(Tail(release.finished)) \subseteq ToSet(release.finished)
        /\ ToSet(release.finished) \subseteq Ticks
    BY <1>0, <2>1, TailSet
  <2>3. ToSet(synced') \subseteq ToSet(synced) \cup ToSet(release.finished)
    <3>1. ToSet(Append(synced, Head(release.finished)))
            = ToSet(synced) \cup {Head(release.finished)}
      BY <1>0, <2>2, AppendSet
    <3>2. QED
      BY <1>5, <2>2, <3>1 DEF Publish
  <2>4. /\ release'.submit \subseteq release.submit
        /\ ToSet(release'.finished) \subseteq ToSet(release.finished)
    BY <1>0, <1>5, <2>2, EmptySet DEF Publish, NoRelease
  <2>5. QED
    BY <1>5, <2>3, <2>4 DEF Publish, OnTheWay, NFrames, pipelineVars
<1>6. CASE Work
  <2>1. Head(jobs) \in ToSet(jobs) /\ ToSet(Tail(jobs)) \subseteq ToSet(jobs)
    BY <1>0, <1>6, TailSet DEF Work
  <2>2. PICK kept : /\ kept \subseteq processing \cup {Head(jobs)}
                    /\ completed' = completed \cup Ready(kept)
                    /\ processing' = {f \in kept : f[1] \notin Ready(kept)}
    BY <1>6 DEF Work
  <2>3. Ready(kept) \subseteq NFrames(kept)
    BY DEF Ready
  <2>4. processing' \cup ToSet(jobs') \subseteq processing \cup ToSet(jobs)
    BY <1>6, <2>1, <2>2 DEF Work
  <2>5. kept \subseteq processing \cup ToSet(jobs)
    BY <2>1, <2>2
  <2>6. completed' \subseteq completed \cup NFrames(processing \cup ToSet(jobs))
    BY <2>2, <2>3, <2>5 DEF NFrames
  <2>7. NFrames(release'.submit \cup ToSet(jobs') \cup processing')
          \subseteq NFrames(release.submit \cup ToSet(jobs) \cup processing)
    BY <1>6, <2>4 DEF Work, NFrames
  <2>8. completed' \subseteq completed
                      \cup NFrames(release.submit \cup ToSet(jobs) \cup processing)
    BY <2>6 DEF NFrames
  <2>9. UNCHANGED <<release, synced, tracked>>
    BY <1>6 DEF Work, queues
  <2>10. QED
    BY <2>7, <2>8, <2>9 DEF OnTheWay
<1>7. CASE TrackFrame
  <2>1. /\ Head(synced) \in ToSet(synced) /\ ToSet(Tail(synced)) \subseteq ToSet(synced)
        /\ ToSet(synced) \subseteq Ticks
    BY <1>0, <1>7, TailSet DEF TrackFrame
  <2>2. ToSet(Append(tracked, Head(synced))) = ToSet(tracked) \cup {Head(synced)}
    BY <1>0, <2>1, AppendSet
  <2>3. ToSet(synced') \cup ToSet(tracked') \subseteq ToSet(synced) \cup ToSet(tracked)
    BY <1>7, <2>1, <2>2 DEF TrackFrame
  <2>4. QED
    BY <1>7, <2>3 DEF TrackFrame, OnTheWay, pipelineVars
<1>8. CASE BuildUpdate
  <2>1. ToSet(Tail(tracked)) \subseteq ToSet(tracked)
    BY <1>0, <1>8, TailSet DEF BuildUpdate
  <2>2. QED
    BY <1>8, <2>1 DEF BuildUpdate, OnTheWay, pipelineVars
<1>9. QED
  BY <1>1, <1>2, <1>3, <1>4, <1>5, <1>6, <1>7, <1>8 DEF Next

LEMMA NextCovered == TypeInv /\ TypeInv' /\ CoveredInv /\ Next => CoveredInv'
<1> SUFFICES ASSUME TypeInv, TypeInv', CoveredInv, Next, NEW t \in OnTheWay'
             PROVE  Covered(t)'
  BY DEF CoveredInv
<1>1. CASE t \in OnTheWay
  BY <1>1, OnTheWayType, CoveredKept DEF CoveredInv, TypeInv
<1>2. CASE t \in PoseRange(odometry')
  <2>0. imu \in Int /\ imu' \in Int
    BY TickFacts DEF TypeInv, NodeTypeOK
  <2>1. imu <= imu'
    <3>1. ProcessImu \/ UNCHANGED imu
      BY DEF Next, ProcessImage, ProcessOdometry, SubmitImage, GetNext, Publish, Work,
             TrackFrame, BuildUpdate, ApplyUpdate, SaveMap, sensorVars
    <3>2. QED
      BY <2>0, <3>1 DEF ProcessImu
  <2>2. t \in Ticks /\ t <= imu /\ \E w \in odometry' : t <= w
    BY <1>2 DEF PoseRange
  <2>3. QED
    <3>1. t \in Int
      BY <2>2, TickFacts
    <3>2. t <= imu'
      BY <2>0, <2>1, <2>2, <3>1
    <3>3. QED
      BY <2>2, <3>2 DEF Covered
<1>3. QED
  BY <1>1, <1>2, OnTheWayStep

-----------------------------------------------------------------------------
(* The images of a camera stay in their order. *)

\* The types that the comparisons need.
LEMMA PairTypes ==
  \A f \in Ticks \X Cameras :
    f[1] \in Int /\ f[2] \in Int /\ f[2] \in Cameras /\ f = <<f[1], f[2]>>
BY NodeAssumption DEF Ticks, Cameras

LEMMA BufferTypes ==
  ASSUME NEW newest \in [Cameras -> 0 .. LastTick], NEW buffer \in [Cameras -> SUBSET Ticks],
         NEW c \in Cameras
  PROVE  newest[c] \in Int /\ buffer[c] \subseteq Int
<1>1. newest[c] \in 0 .. LastTick /\ buffer[c] \subseteq Ticks
  OBVIOUS
<1>2. QED
  BY <1>1, NodeAssumption DEF Ticks

LEMMA FrameTypes ==
  ASSUME NodeTypeOK
  PROVE  release.submit \cup ToSet(jobs) \cup processing \subseteq Ticks \X Cameras
<1>1. jobs \in Seq(Ticks \X Cameras)
  BY DEF NodeTypeOK
<1>2. ToSet(jobs) \subseteq Ticks \X Cameras
  BY <1>1, SetType
<1>3. QED
  BY <1>2 DEF NodeTypeOK

\* A step outside the worker and the releases leaves no image, or takes none but those that
\* are submitted.
LEMMA OtherSteps ==
  ASSUME TypeInv, Next, ~ProcessImage, ~ProcessOdometry, ~SubmitImage, ~Work
  PROVE  /\ release'.submit \subseteq release.submit
         /\ UNCHANGED <<arrived, image_buffer, jobs, processing>>
<1>0. release \in [pc : {"idle", "submit", "publish"}, submit : SUBSET (Ticks \X Cameras),
                   finished : Seq(Ticks)]
  BY DEF TypeInv, NodeTypeOK
<1>1. CASE GetNext
  <2>1. /\ UNCHANGED <<sensorVars, jobs, processing>>
        /\ \/ \E t \in completed : release' = [release EXCEPT !.finished = Append(@, t)]
           \/ release' = NoRelease
           \/ release' = [release EXCEPT !.pc = "publish"]
    BY <1>1 DEF GetNext
  <2>2. QED
    BY <1>0, <2>1 DEF NoRelease, sensorVars
<1>2. CASE Publish
  <2>1. /\ UNCHANGED <<sensorVars, pipelineVars>>
        /\ \/ release' = NoRelease
           \/ release' = [release EXCEPT !.finished = Tail(@)]
    BY <1>2 DEF Publish
  <2>2. QED
    BY <1>0, <2>1 DEF NoRelease, sensorVars, pipelineVars
<1>3. CASE ProcessImu \/ TrackFrame \/ BuildUpdate \/ ApplyUpdate \/ SaveMap
  BY <1>3 DEF ProcessImu, TrackFrame, BuildUpdate, ApplyUpdate, SaveMap, sensorVars,
              pipelineVars
<1>4. QED
  BY <1>1, <1>2, <1>3 DEF Next

\* The job that the worker takes comes before the jobs of its camera that are left.
LEMMA HeadBefore ==
  ASSUME NodeTypeOK, CameraInv, jobs # <<>>
  PROVE  BeforeIn(ToSet(Tail(jobs)), Head(jobs))
<1>0. jobs \in Seq(Ticks \X Cameras)
  BY DEF NodeTypeOK
<1>1. ASSUME NEW g \in ToSet(Tail(jobs)), g[2] = Head(jobs)[2] PROVE Head(jobs)[1] < g[1]
  <2>1. PICK i \in DOMAIN Tail(jobs) : g = Tail(jobs)[i]
    BY <1>1 DEF ToSet
  <2>2. i + 1 \in DOMAIN jobs /\ 1 \in DOMAIN jobs /\ 1 < i + 1
        /\ g = jobs[i + 1] /\ Head(jobs) = jobs[1]
    BY <1>0, <2>1, TailElements
  <2>3. QED
    BY <1>1, <2>2 DEF CameraInv
<1>2. QED
  BY <1>1 DEF BeforeIn

LEMMA NextCamera == TypeInv /\ TypeInv' /\ CameraInv /\ Next => CameraInv'
<1> SUFFICES ASSUME TypeInv, TypeInv', CameraInv, Next PROVE CameraInv'
  OBVIOUS
<1>0. NodeTypeOK /\ NodeTypeOK'
  BY DEF TypeInv
<1> DEFINE all == release.submit \cup ToSet(jobs) \cup processing
<1>1. CASE ProcessImage
  <2>1. PICK c \in Cameras, t \in Ticks :
          /\ t > arrived[c]
          /\ arrived' = [arrived EXCEPT ![c] = t]
          /\ image_buffer' = [image_buffer EXCEPT ![c] = @ \cup {t}]
    BY <1>1 DEF ProcessImage
  <2>2. UNCHANGED <<release, jobs, processing>>
    BY <1>1 DEF ProcessImage, pipelineVars
  <2>3. \A d \in Cameras :
          /\ arrived[d] <= arrived'[d]
          /\ \A u \in image_buffer'[d] : u <= arrived'[d]
          /\ \A u \in image_buffer'[d] : u \in image_buffer[d] \/ arrived[d] < u
    <3>1. SUFFICES ASSUME NEW d \in Cameras
                   PROVE  /\ arrived[d] <= arrived'[d]
                          /\ \A u \in image_buffer'[d] : u <= arrived'[d]
                          /\ \A u \in image_buffer'[d] : u \in image_buffer[d] \/ arrived[d] < u
      OBVIOUS
    <3>2. arrived[d] \in Int /\ image_buffer[d] \subseteq Int /\ t \in Int /\ arrived[c] \in Int
      <4>1. t \in Int
        BY NodeAssumption DEF Ticks
      <4>2. QED
        BY <1>0, <4>1, BufferTypes DEF NodeTypeOK
    <3>3. /\ arrived'[d] = IF d = c THEN t ELSE arrived[d]
          /\ image_buffer'[d] = IF d = c THEN image_buffer[d] \cup {t} ELSE image_buffer[d]
      BY <1>0, <2>1 DEF NodeTypeOK
    <3>4. \A u \in image_buffer[d] : u <= arrived[d]
      BY DEF CameraInv
    <3>5. QED
      BY <2>1, <3>2, <3>3, <3>4
  <2>4. ASSUME NEW f \in Ticks \X Cameras, BeforeBuffer(f) PROVE BeforeBuffer(f)'
    <3>1. f[1] \in Int /\ f[2] \in Cameras /\ arrived[f[2]] \in Int /\ arrived'[f[2]] \in Int
          /\ image_buffer'[f[2]] \subseteq Int
      BY <1>0, PairTypes, BufferTypes DEF NodeTypeOK
    <3>2. f[1] <= arrived[f[2]] /\ \A u \in image_buffer[f[2]] : f[1] < u
      BY <2>4 DEF BeforeBuffer
    <3>3. f[1] <= arrived'[f[2]]
      BY <2>3, <3>1, <3>2
    <3>4. \A u \in image_buffer'[f[2]] : f[1] < u
      BY <2>3, <3>1, <3>2
    <3>5. QED
      BY <3>3, <3>4 DEF BeforeBuffer
  <2>5. \A f \in all : BeforeBuffer(f)'
    BY <1>0, <2>4, FrameTypes DEF CameraInv
  <2>6. QED
    BY <2>2, <2>3, <2>5 DEF CameraInv, BeforeIn
<1>2. CASE ProcessOdometry
  <2>1. UNCHANGED <<arrived, jobs, processing>>
    BY <1>2 DEF ProcessOdometry, pipelineVars
  <2>2. CASE UNCHANGED <<release, image_buffer>>
    BY <2>1, <2>2 DEF CameraInv, BeforeBuffer, BeforeIn
  <2>3. CASE /\ release' = Released(PoseRange(odometry'))
             /\ image_buffer' = [c \in Cameras |->
                  {u \in image_buffer[c] : \A w \in PoseRange(odometry') : w < u}]
    <3>1. \A f \in release'.submit : /\ f \in Ticks \X Cameras
                                     /\ f[1] \in image_buffer[f[2]]
                                     /\ f[1] \in PoseRange(odometry')
      BY <2>3 DEF Released, PoseRange
    <3>2. \A c \in Cameras : \A u \in image_buffer'[c] :
            u \in image_buffer[c] /\ \A w \in PoseRange(odometry') : w < u
      BY <2>3
    <3>3. \A f \in release'.submit : BeforeBuffer(f)'
      BY <2>1, <3>1, <3>2, PairTypes DEF CameraInv, BeforeBuffer
    <3>4. \A f \in ToSet(jobs) \cup processing : BeforeBuffer(f)' /\ BeforeIn(release'.submit, f)
      BY <1>0, <2>1, <3>1, <3>2, FrameTypes DEF CameraInv, BeforeBuffer, BeforeIn
    <3>5. \A c \in Cameras : \A u \in image_buffer'[c] : u <= arrived'[c]
      BY <2>1, <3>2 DEF CameraInv
    <3>6. QED
      BY <2>1, <3>3, <3>4, <3>5 DEF CameraInv
  <2>4. QED
    BY <1>0, <1>2, <2>2, <2>3, OdometryStep
<1>3. CASE SubmitImage
  <2>1. PICK image \in release.submit :
          /\ \A f \in release.submit :
               image[2] < f[2] \/ (image[2] = f[2] /\ image[1] <= f[1])
          /\ jobs' = Append(jobs, image)
          /\ release' = [release EXCEPT !.submit = @ \ {image}]
    BY <1>3 DEF SubmitImage
  <2>2. UNCHANGED <<arrived, image_buffer, processing>>
    BY <1>3 DEF SubmitImage, sensorVars
  <2>3. image \in Ticks \X Cameras /\ jobs \in Seq(Ticks \X Cameras)
    BY <1>0 DEF NodeTypeOK
  <2>4. ToSet(jobs') = ToSet(jobs) \cup {image} /\ release'.submit = release.submit \ {image}
    <3>1. ToSet(jobs') = ToSet(jobs) \cup {image}
      BY <2>1, <2>3, AppendSet
    <3>2. QED
      BY <1>0, <2>1, <3>1 DEF NodeTypeOK
  <2>5. BeforeIn(release'.submit, image)
    <3>1. SUFFICES ASSUME NEW g \in release.submit, g # image, g[2] = image[2]
                   PROVE  image[1] < g[1]
      BY <2>4 DEF BeforeIn
    <3>2. g \in Ticks \X Cameras /\ image[1] \in Int /\ g[1] \in Int /\ image[2] \in Int
      BY <1>0, <2>3, <3>1, PairTypes DEF NodeTypeOK
    <3>3. image[1] <= g[1]
      BY <2>1, <3>1, <3>2
    <3>4. image[1] # g[1]
      BY <2>3, <3>1, <3>2, PairTypes
    <3>5. QED
      BY <3>2, <3>3, <3>4
  <2>6. \A f \in ToSet(jobs) \cup processing : BeforeIn(release'.submit, f)
    BY <2>4 DEF CameraInv, BeforeIn
  <2>7. \A f \in processing : BeforeIn(ToSet(jobs'), f)
    BY <2>4 DEF CameraInv, BeforeIn
  <2>8. ASSUME NEW i \in DOMAIN jobs', NEW j \in DOMAIN jobs', i < j, jobs'[j][2] = jobs'[i][2]
        PROVE  jobs'[i][1] < jobs'[j][1]
    <3>1. i \in DOMAIN jobs /\ jobs'[i] = jobs[i]
      BY <2>1, <2>3, <2>8, AppendElements
    <3>2. CASE j \in DOMAIN jobs
      BY <2>1, <2>3, <2>8, <3>1, <3>2, AppendElements DEF CameraInv
    <3>3. CASE jobs'[j] = image
      <4>1. BeforeIn(release.submit, jobs[i])
        BY <3>1 DEF CameraInv, ToSet
      <4>2. QED
        BY <2>8, <3>1, <3>3, <4>1 DEF BeforeIn
    <3>4. QED
      BY <2>1, <2>3, <2>8, <3>2, <3>3, AppendElements
  <2>9. \A f \in release'.submit \cup ToSet(jobs') \cup processing' : BeforeBuffer(f)'
    BY <2>2, <2>4 DEF CameraInv, BeforeBuffer
  <2>10. QED
    BY <2>2, <2>4, <2>5, <2>6, <2>7, <2>8, <2>9 DEF CameraInv
<1>4. CASE Work
  <2>1. jobs # <<>> /\ jobs' = Tail(jobs) /\ jobs \in Seq(Ticks \X Cameras)
    BY <1>0, <1>4 DEF Work, NodeTypeOK
  <2>2. UNCHANGED <<arrived, image_buffer, release>>
    BY <1>4 DEF Work, sensorVars
  <2>3. processing' \subseteq processing \cup {Head(jobs)}
    BY <1>4 DEF Work
  <2>4. ToSet(jobs') \subseteq ToSet(jobs) /\ Head(jobs) \in ToSet(jobs)
    BY <2>1, TailSet
  <2>5. BeforeIn(ToSet(jobs'), Head(jobs))
    BY <1>0, <2>1, HeadBefore
  <2>6. \A f \in processing' : BeforeIn(ToSet(jobs'), f)
    BY <2>3, <2>4, <2>5 DEF CameraInv, BeforeIn
  <2>7. ASSUME NEW i \in DOMAIN jobs', NEW j \in DOMAIN jobs', i < j, jobs'[j][2] = jobs'[i][2]
        PROVE  jobs'[i][1] < jobs'[j][1]
    <3>1. /\ i + 1 \in DOMAIN jobs /\ j + 1 \in DOMAIN jobs /\ i + 1 < j + 1
          /\ jobs'[i] = jobs[i + 1] /\ jobs'[j] = jobs[j + 1]
      BY <2>1, <2>7, TailElements
    <3>2. QED
      BY <2>7, <3>1 DEF CameraInv
  <2>8. \A f \in release'.submit \cup ToSet(jobs') \cup processing' : BeforeBuffer(f)'
    BY <2>2, <2>3, <2>4 DEF CameraInv, BeforeBuffer
  <2>9. \A f \in ToSet(jobs') \cup processing' : BeforeIn(release'.submit, f)
    BY <2>2, <2>3, <2>4 DEF CameraInv
  <2>10. QED
    BY <2>2, <2>6, <2>7, <2>8, <2>9 DEF CameraInv
<1>5. CASE ~ProcessImage /\ ~ProcessOdometry /\ ~SubmitImage /\ ~Work
  <2>1. /\ release'.submit \subseteq release.submit
        /\ UNCHANGED <<arrived, image_buffer, jobs, processing>>
    BY <1>5, OtherSteps
  <2>2. QED
    BY <2>1 DEF CameraInv, BeforeBuffer, BeforeIn
<1>6. QED
  BY <1>1, <1>2, <1>3, <1>4, <1>5

-----------------------------------------------------------------------------
(* Complete nframes come in their order, before everything that is not complete. *)

\* What is ahead of all images stays ahead: new ones are newer than all of their camera.
LEMMA AheadKept ==
  ASSUME TypeInv, TypeInv', Next, NEW t \in 0 .. LastTick, Ahead(t)
  PROVE  Ahead(t)'
<1>0. NodeTypeOK /\ NodeTypeOK' /\ t \in Int
  BY NodeAssumption DEF TypeInv
<1> DEFINE all == release.submit \cup ToSet(jobs) \cup processing
<1>1. CASE ProcessImage
  <2>1. PICK c \in Cameras, n \in Ticks :
          /\ n > arrived[c]
          /\ arrived' = [arrived EXCEPT ![c] = n]
          /\ image_buffer' = [image_buffer EXCEPT ![c] = @ \cup {n}]
    BY <1>1 DEF ProcessImage
  <2>2. UNCHANGED <<release, jobs, processing>>
    BY <1>1 DEF ProcessImage, pipelineVars
  <2>3. ASSUME NEW d \in Cameras
        PROVE  t <= arrived'[d] /\ \A u \in image_buffer'[d] : t < u
    <3>1. arrived[d] \in Int /\ image_buffer[d] \subseteq Int /\ n \in Int
      <4>1. n \in Int
        BY NodeAssumption DEF Ticks
      <4>2. QED
        BY <1>0, <4>1, BufferTypes DEF NodeTypeOK
    <3>2. /\ arrived'[d] = IF d = c THEN n ELSE arrived[d]
          /\ image_buffer'[d] = IF d = c THEN image_buffer[d] \cup {n} ELSE image_buffer[d]
      BY <1>0, <2>1 DEF NodeTypeOK
    <3>3. t <= arrived[d] /\ \A u \in image_buffer[d] : t < u
      BY DEF Ahead
    <3>4. QED
      BY <1>0, <2>1, <3>1, <3>2, <3>3
  <2>4. QED
    BY <2>2, <2>3 DEF Ahead
<1>2. CASE ProcessOdometry
  <2>1. UNCHANGED <<arrived, jobs, processing>>
    BY <1>2 DEF ProcessOdometry, pipelineVars
  <2>2. CASE UNCHANGED <<release, image_buffer>>
    BY <2>1, <2>2 DEF Ahead
  <2>3. CASE /\ release' = Released(PoseRange(odometry'))
             /\ image_buffer' = [c \in Cameras |->
                  {u \in image_buffer[c] : \A w \in PoseRange(odometry') : w < u}]
    <3>1. \A f \in release'.submit : f[2] \in Cameras /\ f[1] \in image_buffer[f[2]]
      BY <2>3 DEF Released
    <3>2. \A c \in Cameras : image_buffer'[c] \subseteq image_buffer[c]
      BY <2>3
    <3>3. QED
      BY <2>1, <3>1, <3>2 DEF Ahead
  <2>4. QED
    BY <1>0, <1>2, <2>2, <2>3, OdometryStep
<1>3. CASE SubmitImage
  <2>1. PICK image \in release.submit : /\ jobs' = Append(jobs, image)
                                        /\ release' = [release EXCEPT !.submit = @ \ {image}]
    BY <1>3 DEF SubmitImage
  <2>2. UNCHANGED <<arrived, image_buffer, processing>>
    BY <1>3 DEF SubmitImage, sensorVars
  <2>3. image \in Ticks \X Cameras /\ jobs \in Seq(Ticks \X Cameras)
    BY <1>0 DEF NodeTypeOK
  <2>4. ToSet(jobs') = ToSet(jobs) \cup {image}
    BY <2>1, <2>3, AppendSet
  <2>5. release'.submit = release.submit \ {image}
    BY <1>0, <2>1 DEF NodeTypeOK
  <2>6. QED
    BY <2>2, <2>4, <2>5 DEF Ahead
<1>4. CASE Work
  <2>1. jobs # <<>> /\ jobs' = Tail(jobs) /\ jobs \in Seq(Ticks \X Cameras)
    BY <1>0, <1>4 DEF Work, NodeTypeOK
  <2>2. UNCHANGED <<arrived, image_buffer, release>>
    BY <1>4 DEF Work, sensorVars
  <2>3. processing' \subseteq processing \cup {Head(jobs)}
    BY <1>4 DEF Work
  <2>4. ToSet(jobs') \subseteq ToSet(jobs) /\ Head(jobs) \in ToSet(jobs)
    BY <2>1, TailSet
  <2>5. QED
    BY <2>2, <2>3, <2>4 DEF Ahead
<1>5. CASE ~ProcessImage /\ ~ProcessOdometry /\ ~SubmitImage /\ ~Work
  <2>1. /\ release'.submit \subseteq release.submit
        /\ UNCHANGED <<arrived, image_buffer, jobs, processing>>
    BY <1>5, OtherSteps
  <2>2. QED
    BY <2>1 DEF Ahead
<1>6. QED
  BY <1>1, <1>2, <1>3, <1>4, <1>5

\* An nframe of which the worker has all frames is ahead of what is left: of each camera it has
\* a frame, which comes before the others, and no incomplete nframe comes before it.
LEMMA ReadyAhead ==
  ASSUME TypeInv, CameraInv, Work, NEW t \in completed' \ completed
  PROVE  Ahead(t)' /\ t \in Ticks
         /\ \E f \in release.submit \cup ToSet(jobs) \cup processing : f[1] = t
<1>0. NodeTypeOK
  BY DEF TypeInv
<1>1. jobs # <<>> /\ jobs' = Tail(jobs) /\ jobs \in Seq(Ticks \X Cameras)
  BY <1>0 DEF Work, NodeTypeOK
<1>2. UNCHANGED <<arrived, image_buffer, release>>
  BY DEF Work, sensorVars
<1>3. ToSet(jobs') \subseteq ToSet(jobs) /\ Head(jobs) \in ToSet(jobs)
  BY <1>1, TailSet
<1>4. PICK kept : /\ kept \subseteq processing \cup {Head(jobs)}
                  /\ completed' = completed \cup Ready(kept)
                  /\ processing' = {f \in kept : f[1] \notin Ready(kept)}
  BY DEF Work
<1>5. kept \subseteq processing \cup ToSet(jobs) /\ kept \subseteq Ticks \X Cameras
  BY <1>0, <1>3, <1>4, FrameTypes
<1>6. /\ t \in NFrames(kept)
      /\ \A u \in NFrames(kept) : u <= t => Complete(kept, u)
  BY <1>4 DEF Ready
<1>7. t \in Ticks /\ \E f \in kept : f[1] = t
  BY <1>5, <1>6, PairTypes DEF NFrames
<1>8. t \in Int
  BY <1>7, NodeAssumption DEF Ticks
<1>9. \A c \in Cameras : <<t, c>> \in kept
  BY <1>6, <1>8 DEF Complete
<1>10. ASSUME NEW c \in Cameras
       PROVE  /\ BeforeBuffer(<<t, c>>) /\ BeforeIn(release.submit, <<t, c>>)
              /\ BeforeIn(ToSet(jobs'), <<t, c>>)
  <2>1. <<t, c>> \in ToSet(jobs) \cup processing
    BY <1>5, <1>9
  <2>2. CASE <<t, c>> = Head(jobs)
    BY <1>0, <1>1, <2>1, <2>2, HeadBefore DEF CameraInv
  <2>3. CASE <<t, c>> \in processing
    BY <1>3, <2>1, <2>3 DEF CameraInv, BeforeIn
  <2>4. QED
    BY <1>4, <1>9, <2>2, <2>3
<1>11. \A c \in Cameras : t <= arrived'[c] /\ \A u \in image_buffer'[c] : t < u
  BY <1>2, <1>10 DEF BeforeBuffer
<1>12. \A f \in release'.submit \cup ToSet(jobs') : t < f[1]
  <2>1. release'.submit \cup ToSet(jobs') \subseteq Ticks \X Cameras
    BY <1>0, <1>2, <1>3, FrameTypes
  <2>2. QED
    BY <1>2, <1>10, <2>1, PairTypes DEF BeforeIn
<1>13. ASSUME NEW f \in processing' PROVE t < f[1]
  <2>1. f \in kept /\ f[1] \in NFrames(kept) /\ f[1] \notin Ready(kept)
    BY <1>4 DEF NFrames
  <2>2. PICK u \in NFrames(kept) : u <= f[1] /\ ~Complete(kept, u)
    BY <2>1 DEF Ready
  <2>3. u \in Int /\ f[1] \in Int
    BY <1>5, <2>1, <2>2, PairTypes DEF NFrames
  <2>4. QED
    BY <1>6, <1>8, <2>2, <2>3
<1>14. QED
  BY <1>5, <1>7, <1>11, <1>12, <1>13 DEF Ahead

LEMMA NextOut == TypeInv /\ TypeInv' /\ CameraInv /\ OutInv /\ Next => OutInv'
<1> SUFFICES ASSUME TypeInv, TypeInv', CameraInv, OutInv, Next PROVE OutInv'
  OBVIOUS
<1>0. /\ NodeTypeOK /\ release.finished \in Seq(Ticks)
      /\ release \in [pc : {"idle", "submit", "publish"}, submit : SUBSET (Ticks \X Cameras),
                      finished : Seq(Ticks)]
  BY DEF TypeInv, NodeTypeOK
<1>1. /\ ToSet(release.finished) \subseteq Ticks /\ completed \subseteq Ticks
      /\ previous_nframe \in 0 .. LastTick
      /\ Ticks \subseteq 0 .. LastTick /\ 0 .. LastTick \subseteq Int
  BY <1>0, SetType, NodeAssumption DEF NodeTypeOK, Ticks
<1>2. \A t \in completed \cup ToSet(release.finished) \cup {previous_nframe} : Ahead(t)'
  BY <1>1, AheadKept DEF OutInv
<1>3. CASE UNCHANGED <<completed, previous_nframe, release>>
  BY <1>2, <1>3 DEF OutInv
<1>4. CASE ProcessOdometry
  <2>1. /\ UNCHANGED <<completed, previous_nframe>>
        /\ UNCHANGED release \/ release'.finished = <<>>
    BY <1>0, <1>4, OdometryStep DEF ProcessOdometry, pipelineVars, Released
  <2>2. CASE release'.finished = <<>>
    BY <1>2, <2>1, <2>2, EmptySet DEF OutInv
  <2>3. QED
    BY <1>3, <2>1, <2>2
<1>5. CASE SubmitImage
  <2>1. release'.finished = release.finished /\ UNCHANGED <<completed, previous_nframe>>
    BY <1>0, <1>5 DEF SubmitImage
  <2>2. QED
    BY <1>2, <2>1 DEF OutInv
<1>6. CASE GetNext
  <2>1. UNCHANGED previous_nframe
    BY <1>6 DEF GetNext
  <2>2. ASSUME NEW t \in completed, \A u \in completed : t <= u, completed' = completed \ {t},
               release' = [release EXCEPT !.finished = Append(@, t)]
        PROVE  OutInv'
    <3>1. t \in Ticks
      BY <1>1
    <3>2. release'.finished = Append(release.finished, t)
      BY <1>0, <2>2
    <3>3. ToSet(release'.finished) = ToSet(release.finished) \cup {t}
      BY <1>0, <3>1, <3>2, AppendSet
    <3>4. \A u \in completed' : t < u
      BY <1>1, <2>2, <3>1
    <3>5. ASSUME NEW i \in DOMAIN release'.finished, NEW j \in DOMAIN release'.finished, i < j
          PROVE  release'.finished[i] < release'.finished[j]
      <4>1. i \in DOMAIN release.finished /\ release'.finished[i] = release.finished[i]
        BY <1>0, <3>1, <3>2, <3>5, AppendElements
      <4>2. CASE j \in DOMAIN release.finished
        BY <1>0, <3>1, <3>2, <3>5, <4>1, <4>2, AppendElements DEF OutInv
      <4>3. CASE release'.finished[j] = t
        <5>1. release.finished[i] \in ToSet(release.finished)
          BY <4>1 DEF ToSet
        <5>2. QED
          BY <2>2, <4>1, <4>3, <5>1 DEF OutInv
      <4>4. QED
        BY <1>0, <3>1, <3>2, <3>5, <4>2, <4>3, AppendElements
    <3>6. \A u \in completed' \cup ToSet(release'.finished) : previous_nframe' < u
      BY <2>1, <2>2, <3>3 DEF OutInv
    <3>7. \A u \in completed', w \in ToSet(release'.finished) : w < u
      BY <2>2, <3>3, <3>4 DEF OutInv
    <3>8. QED
      BY <1>2, <2>1, <2>2, <3>3, <3>5, <3>6, <3>7 DEF OutInv
  <2>3. ASSUME UNCHANGED completed,
               release' = NoRelease \/ release' = [release EXCEPT !.pc = "publish"]
        PROVE  OutInv'
    <3>1. release'.finished = <<>> \/ release'.finished = release.finished
      BY <1>0, <2>3 DEF NoRelease
    <3>2. CASE release'.finished = <<>>
      BY <1>2, <2>1, <2>3, <3>2, EmptySet DEF OutInv
    <3>3. CASE release'.finished = release.finished
      BY <1>2, <2>1, <2>3, <3>3 DEF OutInv
    <3>4. QED
      BY <3>1, <3>2, <3>3
  <2>4. QED
    BY <1>6, <2>2, <2>3 DEF GetNext
<1>7. CASE Publish
  <2>1. release.finished # <<>> /\ UNCHANGED completed
    BY <1>7 DEF Publish, TypeInv, pipelineVars
  <2>2. /\ Head(release.finished) \in ToSet(release.finished)
        /\ ToSet(Tail(release.finished)) \subseteq ToSet(release.finished)
        /\ Head(release.finished) \in Ticks
    BY <1>0, <2>1, TailSet
  <2>3. \A t \in ToSet(Tail(release.finished)) : Head(release.finished) < t
    BY <1>0, <2>1, TailElements DEF OutInv, ToSet
  <2>4. \A i, j \in DOMAIN Tail(release.finished) :
          i < j => Tail(release.finished)[i] < Tail(release.finished)[j]
    BY <1>0, <2>1, TailElements DEF OutInv
  <2>5. previous_nframe' \in {previous_nframe, Head(release.finished)}
    BY <1>7 DEF Publish
  <2>6. release'.finished = <<>> \/ release'.finished = Tail(release.finished)
    BY <1>0, <1>7 DEF Publish, NoRelease
  <2>7. /\ ToSet(release'.finished) \subseteq ToSet(Tail(release.finished))
        /\ \A i, j \in DOMAIN release'.finished :
             i < j => release'.finished[i] < release'.finished[j]
    <3>1. CASE release'.finished = <<>>
      BY <3>1, EmptySet
    <3>2. CASE release'.finished = Tail(release.finished)
      BY <2>4, <3>2
    <3>3. QED
      BY <2>6, <3>1, <3>2
  <2>8. \A t \in completed \cup ToSet(release'.finished) : previous_nframe' < t
    BY <2>2, <2>3, <2>5, <2>7 DEF OutInv
  <2>9. QED
    BY <1>2, <2>1, <2>2, <2>5, <2>7, <2>8 DEF OutInv
<1>8. CASE Work
  <2>1. UNCHANGED <<release, previous_nframe>>
    BY <1>8 DEF Work
  <2>2. \A t \in completed' :
          /\ Ahead(t)' /\ previous_nframe < t
          /\ \A u \in ToSet(release.finished) : u < t
    <3>1. ASSUME NEW t \in completed' \ completed
          PROVE  /\ Ahead(t)' /\ previous_nframe < t
                 /\ \A u \in ToSet(release.finished) : u < t
      <4>1. PICK f \in release.submit \cup ToSet(jobs) \cup processing : f[1] = t
        BY <1>8, <3>1, ReadyAhead
      <4>2. QED
        BY <1>8, <3>1, <4>1, ReadyAhead DEF OutInv, Ahead
    <3>2. QED
      BY <1>2, <3>1 DEF OutInv
  <2>3. QED
    BY <1>2, <2>1, <2>2 DEF OutInv
<1>9. CASE ProcessImu \/ ProcessImage \/ TrackFrame \/ BuildUpdate \/ ApplyUpdate \/ SaveMap
  BY <1>3, <1>9 DEF ProcessImu, ProcessImage, TrackFrame, BuildUpdate, ApplyUpdate, SaveMap,
                    pipelineVars
<1>10. QED
  BY <1>4, <1>5, <1>6, <1>7, <1>8, <1>9 DEF Next

-----------------------------------------------------------------------------
(* The queues hold nframes in their order, no faster than the throttle says. *)

\* What follows on a nframe that follows on an earlier one, or is that one, follows on it.
LEMMA AfterTransitive ==
  ASSUME NEW a \in 0 .. LastTick, NEW b \in 0 .. LastTick, NEW c \in Ticks,
         a <= b, After(b, c)
  PROVE  After(a, c)
BY NodeAssumption DEF After, Ticks, None

LEMMA InOrderAppend ==
  ASSUME NEW p \in 0 .. LastTick, NEW s \in Seq(Ticks), NEW e \in Ticks, NEW top \in 0 .. LastTick,
         InOrder(p, s), p <= top, \A t \in ToSet(s) : t <= top, After(top, e)
  PROVE  InOrder(p, Append(s, e))
<1>1. \A t \in ToSet(s) \cup {p} : After(t, e)
  <2>1. ToSet(s) \subseteq 0 .. LastTick
    BY SetType, NodeAssumption DEF Ticks
  <2>2. QED
    BY <2>1, AfterTransitive
<1>2. \A i \in DOMAIN s : s[i] \in ToSet(s)
  BY DEF ToSet
<1>3. \A i \in DOMAIN Append(s, e) : After(p, Append(s, e)[i])
  BY <1>1, AppendElements DEF InOrder
<1>4. ASSUME NEW i \in DOMAIN Append(s, e), NEW j \in DOMAIN Append(s, e), i < j
      PROVE  After(Append(s, e)[i], Append(s, e)[j])
  <2>1. i \in DOMAIN s /\ Append(s, e)[i] = s[i]
    BY <1>4, AppendElements
  <2>2. CASE j \in DOMAIN s
    BY <1>4, <2>1, <2>2, AppendElements DEF InOrder
  <2>3. CASE j = Len(s) + 1
    BY <1>1, <1>2, <2>1, <2>3, AppendElements
  <2>4. QED
    BY <1>4, <2>2, <2>3, AppendElements
<1>5. QED
  BY <1>3, <1>4 DEF InOrder

LEMMA InOrderTail ==
  ASSUME NEW p, NEW s \in Seq(Ticks), s # <<>>, InOrder(p, s)
  PROVE  InOrder(p, Tail(s)) /\ InOrder(Head(s), Tail(s)) /\ After(p, Head(s))
BY TailElements DEF InOrder

LEMMA NextQueue ==
  TypeInv /\ TypeInv' /\ CoveredInv /\ OutInv /\ QueueInv /\ Next => QueueInv'
<1> SUFFICES ASSUME TypeInv, TypeInv', CoveredInv, OutInv, QueueInv, Next PROVE QueueInv'
  OBVIOUS
<1>0. /\ release.finished \in Seq(Ticks) /\ synced \in Seq(Ticks) /\ tracked \in Seq(Ticks)
      /\ previous_nframe \in 0 .. LastTick /\ previous_synced \in 0 .. LastTick
      /\ last_received \in 0 .. LastTick
      /\ Ticks \subseteq 0 .. LastTick /\ 0 .. LastTick \subseteq Int
  BY NodeAssumption DEF TypeInv, NodeTypeOK, Ticks
<1>1. CASE Publish
  <2> DEFINE t == Head(release.finished)
  <2>1. release.finished # <<>>
    BY <1>1 DEF Publish, TypeInv
  <2>2. t \in Ticks /\ previous_nframe < t
    BY <1>0, <2>1, TailSet DEF OutInv
  <2>3. UNCHANGED <<tracked, previous_synced, last_received, crash>>
    BY <1>1 DEF Publish, builderVars
  <2>0. t \in Int /\ previous_nframe \in Int /\ previous_synced \in Int
    BY <1>0, <2>2, NodeAssumption DEF Ticks
  <2>4. CASE UNCHANGED <<previous_nframe, synced>>
    BY <2>3, <2>4 DEF QueueInv
  <2>5. CASE ~TooClose(t) /\ previous_nframe' = t /\ synced' = Append(synced, t)
    <3>1. After(previous_nframe, t)
      BY <2>0, <2>2, <2>5, NodeAssumption DEF TooClose, After
    <3>2. InOrder(previous_synced, synced')
      BY <1>0, <2>2, <2>5, <3>1, InOrderAppend DEF QueueInv
    <3>3. ToSet(synced') = ToSet(synced) \cup {t} /\ ToSet(synced) \subseteq Ticks
      BY <1>0, <2>2, <2>5, AppendSet
    <3>4. \A u \in ToSet(synced') \cup {previous_synced} : u <= previous_nframe'
      <4>1. \A u \in ToSet(synced) \cup {previous_synced} : u <= previous_nframe /\ u \in Int
        BY <2>0, <3>3, NodeAssumption DEF QueueInv, Ticks
      <4>2. \A u \in ToSet(synced) \cup {previous_synced} : u <= t
        BY <2>0, <2>2, <4>1
      <4>3. QED
        BY <2>0, <2>5, <3>3, <4>2
    <3>5. QED
      BY <2>3, <3>2, <3>4 DEF QueueInv
  <2>6. QED
    BY <1>1, <2>4, <2>5 DEF Publish
<1>2. CASE TrackFrame
  <2> DEFINE t == Head(synced)
  <2>1. synced # <<>> /\ synced' = Tail(synced) /\ UNCHANGED <<previous_nframe, last_received>>
    BY <1>2 DEF TrackFrame
  <2>2. /\ InOrder(previous_synced, synced') /\ InOrder(t, synced')
        /\ After(previous_synced, t)
    BY <1>0, <2>1, InOrderTail DEF QueueInv
  <2>3. t \in Ticks /\ t \in ToSet(synced) /\ ToSet(synced') \subseteq ToSet(synced)
    BY <1>0, <2>1, TailSet
  <2>4. previous_synced = None \/ t > previous_synced
    BY <1>0, <2>2, <2>3 DEF After
  <2>5. /\ crash' = "none"
        /\ \/ previous_synced' = t /\ UNCHANGED tracked /\ previous_synced = None
           \/ previous_synced' = t /\ tracked' = Append(tracked, t)
           \/ UNCHANGED <<previous_synced, tracked>>
    BY <1>2, <2>4 DEF TrackFrame
  <2>6. previous_synced <= t
    BY <1>0, <2>3, <2>4, NodeAssumption DEF Ticks, None
  <2>7. InOrder(previous_synced', synced')
    BY <2>2, <2>5
  <2>8. \A u \in ToSet(synced') \cup {previous_synced'} : u <= previous_nframe'
    BY <2>1, <2>3, <2>5 DEF QueueInv
  <2>9. \A u \in ToSet(tracked) \cup {last_received} : u <= previous_synced /\ u \in Int /\ u <= t
    <3>1. \A u \in ToSet(tracked) \cup {last_received} : u \in Int
      <4>1. ToSet(tracked) \subseteq Ticks
        BY <1>0, SetType
      <4>2. QED
        BY <1>0, <4>1, NodeAssumption DEF Ticks
    <3>2. t \in Int /\ previous_synced \in Int
      BY <1>0, <2>3, NodeAssumption DEF Ticks
    <3>3. QED
      BY <2>6, <3>1, <3>2 DEF QueueInv
  <2>10. ToSet(Append(tracked, t)) = ToSet(tracked) \cup {t}
    BY <1>0, <2>3, AppendSet
  <2>11. \A u \in ToSet(tracked') \cup {last_received'} : u <= previous_synced'
    <3>1. t \in Int
      BY <2>3, NodeAssumption DEF Ticks
    <3>2. CASE previous_synced' = t /\ tracked' \in {tracked, Append(tracked, t)}
      <4>1. ToSet(tracked') \subseteq ToSet(tracked) \cup {t}
        BY <2>10, <3>2
      <4>2. QED
        BY <2>1, <2>9, <3>1, <3>2, <4>1
    <3>3. CASE UNCHANGED <<previous_synced, tracked>>
      BY <2>1, <2>9, <3>3
    <3>4. QED
      BY <2>5, <3>2, <3>3
  <2>12. InOrder(last_received', tracked')
    <3>1. InOrder(last_received, Append(tracked, t))
      BY <1>0, <2>2, <2>3, InOrderAppend DEF QueueInv
    <3>2. QED
      BY <2>1, <2>5, <3>1 DEF QueueInv
  <2>13. QED
    BY <2>5, <2>7, <2>8, <2>11, <2>12 DEF QueueInv
<1>3. CASE BuildUpdate
  <2> DEFINE t == Head(tracked)
  <2>1. /\ tracked # <<>> /\ tracked' = Tail(tracked)
        /\ UNCHANGED <<synced, previous_nframe, previous_synced>>
    BY <1>3 DEF BuildUpdate
  <2>2. /\ InOrder(last_received, tracked') /\ InOrder(t, tracked')
        /\ After(last_received, t)
    BY <1>0, <2>1, InOrderTail DEF QueueInv
  <2>3. t \in Ticks /\ t \in ToSet(tracked) /\ ToSet(tracked') \subseteq ToSet(tracked)
    BY <1>0, <2>1, TailSet
  <2>4. last_received' \in {last_received, t}
    BY <1>3 DEF BuildUpdate
  <2>5. UpdateCheck(t) \in {"none", "stale"}
    <3>1. t > last_received
      BY <1>0, <2>2, <2>3, NodeAssumption DEF After, None, Ticks
    <3>2. t <= imu /\ \E u \in odometry : t <= u
      BY <2>3 DEF CoveredInv, Covered, OnTheWay
    <3>3. imu \in Int /\ odometry \subseteq Int /\ t \in Int /\ t > 0
      <4>1. imu \in 0 .. LastTick /\ odometry \subseteq Ticks
        BY DEF TypeInv, NodeTypeOK
      <4>2. QED
        BY <2>3, <4>1, NodeAssumption DEF Ticks
    <3>4. Odometry(t) # "NotYet"
      BY <3>2, <3>3 DEF Odometry
    <3>5. ImuData(last_received, t) # "NotYet"
      BY <3>2, <3>3 DEF ImuData, None
    <3>6. ~(t <= last_received)
      BY <1>0, <3>1, <3>3
    <3>7. QED
      BY <3>4, <3>5, <3>6 DEF UpdateCheck
  <2>6. crash' \in {"none", "stale", crash}
    BY <1>3, <2>5 DEF BuildUpdate
  <2>7. \A u \in ToSet(tracked') \cup {last_received'} : u <= previous_synced
    BY <2>3, <2>4 DEF QueueInv
  <2>8. QED
    BY <2>1, <2>2, <2>4, <2>6, <2>7 DEF QueueInv
<1>4. CASE UNCHANGED <<synced, tracked, previous_nframe, previous_synced, last_received>>
           /\ crash' \in {crash, "none", "gap"}
  BY <1>4 DEF QueueInv
<1>5. QED
  BY <1>1, <1>2, <1>3, <1>4 DEF Next, ProcessImu, ProcessImage, ProcessOdometry, SubmitImage,
     GetNext, Work, ApplyUpdate, SaveMap, queues, builderVars

-----------------------------------------------------------------------------
(* Vertices come in their order, and saved submaps connect. *)

LEMMA AscendingAppend ==
  ASSUME NEW S, NEW s \in Seq(S), NEW e \in S, Ascending(s), \A v \in ToSet(s) : v.tick < e.tick
  PROVE  Ascending(Append(s, e))
<1>1. ASSUME NEW i \in DOMAIN Append(s, e), NEW j \in DOMAIN Append(s, e), i < j
      PROVE  Append(s, e)[i].tick < Append(s, e)[j].tick
  <2>1. i \in DOMAIN s /\ Append(s, e)[i] = s[i] /\ s[i] \in ToSet(s)
    BY <1>1, AppendElements DEF ToSet
  <2>2. CASE j \in DOMAIN s
    BY <1>1, <2>1, <2>2, AppendElements DEF Ascending
  <2>3. CASE j = Len(s) + 1
    BY <2>1, <2>3, AppendElements
  <2>4. QED
    BY <1>1, <2>2, <2>3, AppendElements
<1>2. QED
  BY <1>1 DEF Ascending

LEMMA AscendingTail ==
  ASSUME NEW S, NEW s \in Seq(S), s # <<>>, Ascending(s)
  PROVE  Ascending(Tail(s)) /\ \A v \in ToSet(Tail(s)) : Head(s).tick < v.tick
BY TailElements DEF Ascending, ToSet

\* A map that grows keeps its first vertex.
LEMMA ConnectedAppend ==
  ASSUME NEW S, NEW s \in Seq(S), NEW e \in S, NEW m, Connected(m, s)
  PROVE  Connected(m, Append(s, e))
<1>1. s # <<>> /\ s[1].tick = m[Len(m)].tick /\ m # <<>>
  BY DEF Connected
<1>2. 1 \in DOMAIN s
  BY <1>1, EmptySeq, LenProperties
<1>3. QED
  BY <1>1, <1>2, AppendElements DEF Connected

LEMMA NextMap == TypeInv /\ TypeInv' /\ QueueInv /\ MapInv /\ Next => MapInv'
<1> SUFFICES ASSUME TypeInv, TypeInv', QueueInv, MapInv, Next PROVE MapInv'
  OBVIOUS
<1> DEFINE V == [tick : Ticks, from : 0 .. LastTick]
<1>0. /\ updates \in Seq(V) /\ vertices \in Seq(V) /\ saved \in Seq(Seq(V))
      /\ tracked \in Seq(Ticks) /\ last_received \in 0 .. LastTick /\ last_received \in Int
  BY NodeAssumption DEF TypeInv, NodeTypeOK
<1>1. ToSet(updates) \subseteq V /\ ToSet(vertices) \subseteq V
  BY <1>0, SetType
<1>2. \A v \in V : v.tick \in Int
  BY NodeAssumption DEF Ticks
<1>3. CASE BuildUpdate
  <2> DEFINE t == Head(tracked)
             update == [tick |-> t, from |-> last_received]
  <2>1. tracked # <<>> /\ UNCHANGED <<vertices, saved>>
    BY <1>3 DEF BuildUpdate
  <2>2. CASE UNCHANGED <<last_received, updates>>
    BY <2>1, <2>2 DEF MapInv
  <2>3. CASE last_received' = t /\ updates' \in {updates, Append(updates, update)}
    <3>1. t \in Ticks /\ t \in Int /\ After(last_received, t)
      <4>1. t \in Ticks /\ After(last_received, t)
        BY <1>0, <2>1, InOrderTail, TailSet DEF QueueInv
      <4>2. QED
        BY <4>1, NodeAssumption DEF Ticks
    <3>2. last_received < t
      BY <1>0, <3>1, NodeAssumption DEF After, None, Ticks
    <3>3. update \in V
      BY <1>0, <3>1
    <3>4. \A v \in ToSet(updates) \cup ToSet(vertices) : v.tick < t /\ v.tick \in Int
      BY <1>0, <1>1, <1>2, <3>1, <3>2 DEF MapInv
    <3>5. ToSet(updates') \subseteq ToSet(updates) \cup {update}
      <4> HIDE DEF update, V
      <4>1. ToSet(Append(updates, update)) = ToSet(updates) \cup {update}
        BY <1>0, <3>3, AppendSet
      <4>2. QED
        BY <2>3, <4>1
    <3>6. Ascending(updates')
      <4>1. update.tick = t
        OBVIOUS
      <4> HIDE DEF update, V
      <4>2. Ascending(Append(updates, update))
        BY <1>0, <3>3, <3>4, <4>1, AscendingAppend DEF MapInv
      <4>3. QED
        BY <2>3, <4>2 DEF MapInv
    <3>7. \A v \in ToSet(updates') \cup ToSet(vertices') : v.tick <= last_received'
      BY <2>1, <2>3, <3>1, <3>4, <3>5
    <3>8. \A v \in ToSet(vertices'), u \in ToSet(updates') : v.tick < u.tick
      BY <2>1, <3>4, <3>5 DEF MapInv
    <3>9. QED
      BY <2>1, <3>6, <3>7, <3>8 DEF MapInv
  <2>4. QED
    BY <1>3, <2>2, <2>3 DEF BuildUpdate
<1>4. CASE ApplyUpdate
  <2> DEFINE u == Head(updates)
  <2>1. /\ updates # <<>> /\ updates' = Tail(updates) /\ UNCHANGED <<last_received, saved>>
        /\ vertices' \in {vertices, Append(vertices, u)}
    BY <1>4 DEF ApplyUpdate
  <2>2. /\ u \in V /\ u \in ToSet(updates) /\ ToSet(updates') \subseteq ToSet(updates)
    BY <1>0, <2>1, TailSet
  <2>3. Ascending(updates') /\ \A w \in ToSet(updates') : u.tick < w.tick
    BY <1>0, <2>1, AscendingTail DEF MapInv
  <2> HIDE DEF u, V
  <2>4. ToSet(vertices') \subseteq ToSet(vertices) \cup {u}
    <3>1. ToSet(Append(vertices, u)) = ToSet(vertices) \cup {u}
      BY <1>0, <2>2, AppendSet
    <3>2. QED
      BY <2>1, <3>1
  <2>5. Ascending(vertices')
    <3>1. \A v \in ToSet(vertices) : v.tick < u.tick
      BY <2>2 DEF MapInv
    <3>2. Ascending(Append(vertices, u))
      BY <1>0, <2>2, <3>1, AscendingAppend DEF MapInv
    <3>3. QED
      BY <2>1, <3>2 DEF MapInv
  <2>6. \A v \in ToSet(updates') \cup ToSet(vertices') : v.tick <= last_received'
    BY <2>1, <2>2, <2>4 DEF MapInv
  <2>7. \A v \in ToSet(vertices'), w \in ToSet(updates') : v.tick < w.tick
    BY <2>2, <2>3, <2>4 DEF MapInv
  <2>8. saved' # <<>> => Connected(saved'[Len(saved')], vertices')
    BY <1>0, <2>1, <2>2, ConnectedAppend DEF MapInv
  <2>9. QED
    BY <2>1, <2>3, <2>5, <2>6, <2>7, <2>8 DEF MapInv
<1>5. CASE SaveMap
  <2>1. UNCHANGED <<updates, last_received>>
    BY <1>5 DEF SaveMap, queues
  <2>2. CASE UNCHANGED <<vertices, saved>>
    BY <2>1, <2>2 DEF MapInv
  <2>3. CASE /\ Len(vertices) >= 3
             /\ saved' = Append(saved, vertices) /\ vertices' = Remaining
    <3> DEFINE last == vertices[Len(vertices)]
    <3>1. Len(vertices) \in DOMAIN vertices /\ vertices # <<>> /\ last \in ToSet(vertices)
      <4>1. Len(vertices) \in Nat /\ DOMAIN vertices = 1 .. Len(vertices)
        BY <1>0, LenProperties
      <4>2. QED
        BY <2>3, <4>1 DEF ToSet
    <3>2. vertices' = <<last>>
      BY <2>3 DEF Remaining, Last
    <3> HIDE DEF last, V
    <3>3. Ascending(vertices') /\ ToSet(vertices') = {last} /\ vertices' # <<>>
          /\ vertices'[1] = last
      BY <3>2 DEF Ascending, ToSet
    <3>4. Connected(vertices, vertices')
      BY <3>1, <3>3 DEF Connected, last
    <3>5. /\ DOMAIN saved = 1 .. Len(saved) /\ Len(saved) \in Nat
          /\ DOMAIN saved' = 1 .. Len(saved) + 1 /\ Len(saved') = Len(saved) + 1
          /\ \A m \in 1 .. Len(saved) : saved'[m] = saved[m]
          /\ saved'[Len(saved) + 1] = vertices
      BY <1>0, <2>3, AppendElements
    <3>6. \A m \in DOMAIN saved' : Ascending(saved'[m])
      BY <3>5 DEF MapInv
    <3>7. ASSUME NEW m \in 1 .. Len(saved) PROVE Connected(saved'[m], saved'[m + 1])
      <4>1. CASE m = Len(saved)
        <5>1. saved # <<>>
          BY <3>5, <3>7, <4>1
        <5>2. QED
          BY <3>5, <3>7, <4>1, <5>1 DEF MapInv
      <4>2. CASE m \in 1 .. Len(saved) - 1
        BY <3>5, <4>2 DEF MapInv
      <4>3. Len(saved) \in Nat
        BY <3>5
      <4>4. m = Len(saved) \/ m \in 1 .. Len(saved) - 1
        BY <3>7, <4>3
      <4>5. QED
        BY <4>1, <4>2, <4>4
    <3>8. Connected(saved'[Len(saved')], vertices')
      BY <3>4, <3>5
    <3>9. \A v \in ToSet(updates') \cup ToSet(vertices') : v.tick <= last_received'
      BY <2>1, <3>1, <3>3 DEF MapInv
    <3>10. \A v \in ToSet(vertices'), u \in ToSet(updates') : v.tick < u.tick
      BY <2>1, <3>1, <3>3 DEF MapInv
    <3>11. \A m \in 1 .. Len(saved') - 1 : Connected(saved'[m], saved'[m + 1])
      BY <3>5, <3>7
    <3>12. QED
      BY <2>1, <3>3, <3>6, <3>8, <3>9, <3>10, <3>11 DEF MapInv
  <2>4. QED
    BY <1>5, <2>2, <2>3 DEF SaveMap
<1>6. CASE UNCHANGED <<updates, last_received, vertices, saved>>
  BY <1>6 DEF MapInv
<1>7. QED
  BY <1>3, <1>4, <1>5, <1>6 DEF Next, ProcessImu, ProcessImage, ProcessOdometry, SubmitImage,
     GetNext, Publish, Work, TrackFrame, queues, builderVars

-----------------------------------------------------------------------------
(* The theorems. *)

LEMMA InitIInv == Init => IInv
<1> SUFFICES ASSUME Init PROVE IInv
  OBVIOUS
<1>1. TypeInv
  <2>1. \A S : <<>> \in Seq(S)
    BY EmptySeq
  <2>2. NoRelease \in [pc : {"idle", "submit", "publish"}, submit : SUBSET (Ticks \X Cameras),
                       finished : Seq(Ticks)]
    BY <2>1 DEF NoRelease
  <2>3. QED
    BY <2>1, <2>2, NodeAssumption DEF Init, TypeInv, NodeTypeOK, NoRelease, None
<1>2. CoveredInv
  BY EmptySet DEF Init, NoRelease, CoveredInv, OnTheWay, NFrames
<1>3. CameraInv
  BY EmptySet DEF Init, NoRelease, CameraInv
<1>4. OutInv
  BY EmptySet DEF Init, NoRelease, OutInv, Ahead, None
<1>5. QueueInv
  BY EmptySet DEF Init, QueueInv, InOrder, None
<1>6. MapInv
  BY EmptySet DEF Init, MapInv, Ascending
<1>7. QED
  BY <1>1, <1>2, <1>3, <1>4, <1>5, <1>6 DEF IInv

LEMMA NextIInv == IInv /\ [Next]_vars => IInv'
<1> SUFFICES ASSUME IInv, [Next]_vars PROVE IInv'
  OBVIOUS
<1>1. CASE Next
  BY <1>1, NextType, NextCovered, NextCamera, NextOut, NextQueue, NextMap DEF IInv
<1>2. CASE UNCHANGED vars
  BY <1>2 DEF IInv, TypeInv, NodeTypeOK, CoveredInv, Covered, OnTheWay, CameraInv, BeforeBuffer,
              BeforeIn, OutInv, Ahead, QueueInv, MapInv, vars, sensorVars, pipelineVars,
              builderVars, queues
<1>3. QED
  BY <1>1, <1>2

\* What IInv says of the queues and the map is what the properties say.
LEMMA IInvImplies == IInv => FramesReady /\ SubmapsConnect
<1> SUFFICES ASSUME IInv PROVE FramesReady /\ SubmapsConnect
  OBVIOUS
<1>1. FramesReady
  BY DEF IInv, TypeInv, CoveredInv, Covered, OnTheWay, QueueInv, FramesReady
<1>2. SubmapsConnect
  <2> DEFINE V == [tick : Ticks, from : 0 .. LastTick]
             maps == Append(saved, vertices)
  <2>0. saved \in Seq(Seq(V)) /\ vertices \in Seq(V)
    BY DEF IInv, TypeInv, NodeTypeOK
  <2>1. /\ DOMAIN saved = 1 .. Len(saved) /\ Len(saved) \in Nat
        /\ DOMAIN maps = 1 .. Len(saved) + 1
        /\ \A m \in 1 .. Len(saved) : maps[m] = saved[m]
        /\ maps[Len(saved) + 1] = vertices
    BY <2>0, AppendElements
  <2> HIDE DEF V, maps
  <2>2. \A m \in DOMAIN maps : Ascending(maps[m])
    BY <2>1 DEF IInv, MapInv
  <2>3. ASSUME NEW m \in DOMAIN saved
        PROVE  Connected(saved[m], maps[m + 1])
    <3>1. CASE m = Len(saved)
      <4>1. saved # <<>>
        BY <2>1, <2>3
      <4>2. QED
        BY <2>1, <3>1, <4>1 DEF IInv, MapInv
    <3>2. CASE m \in 1 .. Len(saved) - 1
      BY <2>1, <3>2 DEF IInv, MapInv
    <3>3. QED
      BY <2>1, <2>3, <3>1, <3>2
  <2>4. QED
    BY <2>2, <2>3 DEF SubmapsConnect, Ascending, Connected, Last, maps
<1>3. QED
  BY <1>1, <1>2

LEMMA IInvCorrect == Spec => []IInv
BY InitIInv, NextIInv, PTL DEF Spec

\* What the tracker and the builder of map updates get is covered by IMU and odometry, in its
\* order and as slow as the throttle demands: the CHECKs of synchronizer, tracker and builder
\* that "should never" fail do not, whichever images are lost or late.
THEOREM FramesAreReady == Spec => []FramesReady
<1>1. IInv => FramesReady
  BY IInvImplies
<1>2. QED
  BY <1>1, IInvCorrect, PTL

\* Saved submaps, and the map in memory after the last, share one vertex each, whenever they
\* are saved and whichever saves fail.
THEOREM SubmapsAreConnected == Spec => []SubmapsConnect
<1>1. IInv => SubmapsConnect
  BY IInvImplies
<1>2. QED
  BY <1>1, IInvCorrect, PTL
=============================================================================
