------------------------------- MODULE VIMap -------------------------------
(***************************************************************************)
(* The VI map: the missions of vi_map::VIMap, the pose graph that links    *)
(* their vertices, and the landmarks the vertices store and observe.       *)
(*                                                                         *)
(* A landmark is recorded in four places.  The landmark index tells which  *)
(* vertex stores it; the landmark store of that vertex holds it; the       *)
(* stored object lists the keypoints that observe it (backlinks); and each *)
(* of these keypoints carries its id (observed).  Every operation has to   *)
(* keep the four together, across vertices and missions that come and go.  *)
(*                                                                         *)
(* A call runs to its end with the map to itself (the map manager hands    *)
(* out one write access), so a call is one step.  A failed CHECK ends the  *)
(* process: the map is lost, and aborted says so.                          *)
(*                                                                         *)
(* The images of a vertex that are kept as resources count only in so far  *)
(* as there are any: some operations refuse a vertex that has them.        *)
(*                                                                         *)
(* The list of backlinks is a set here.  Its callers only associate        *)
(* keypoints without a landmark, so no keypoint gets listed twice, except  *)
(* in duplicateMission, whose own consistency check then ends the process. *)
(***************************************************************************)
EXTENDS Naturals, FiniteSets

CONSTANTS
    Missions,       \* ids of missions
    Vertices,       \* ids of vertices
    Keypoints,      \* the keypoints of a vertex, over all its frames
    Landmarks,      \* ids of landmarks
    None            \* an invalid id

ASSUME VIMapAssumption ==
    /\ None \notin Missions
    /\ None \notin Vertices
    /\ None \notin Landmarks

VARIABLES
    mission,        \* the mission of a vertex, None: the vertex is not in the map
    root,           \* the root vertex of a mission, None: no such mission
    backbone,       \* the edges of the type the mission is traversed by
    loops,          \* the loop-closure edges
    resources,      \* the vertices whose frames have resources
    index,          \* landmark_index: the vertex that stores a landmark
    stored,         \* the landmark store of a vertex
    backlinks,      \* the keypoints listed by a stored landmark
    observed,       \* the landmark a keypoint observes
    aborted         \* a CHECK has ended the process

vars == <<mission, root, backbone, loops, resources, index, stored, backlinks,
          observed, aborted>>
graphVars    == <<mission, root, backbone, loops, resources>>
landmarkVars == <<index, stored, backlinks, observed>>

AllKeypoints == Vertices \X Keypoints

TypeOK ==
    /\ mission \in [Vertices -> Missions \cup {None}]
    /\ root \in [Missions -> Vertices \cup {None}]
    /\ backbone \in SUBSET (Vertices \X Vertices)
    /\ loops \in SUBSET (Vertices \X Vertices)
    /\ resources \in SUBSET Vertices
    /\ index \in [Landmarks -> Vertices \cup {None}]
    /\ stored \in [Vertices -> SUBSET Landmarks]
    /\ backlinks \in [Landmarks -> SUBSET AllKeypoints]
    /\ observed \in [AllKeypoints -> Landmarks \cup {None}]
    /\ aborted \in BOOLEAN

Init ==
    /\ mission = [v \in Vertices |-> None]
    /\ root = [m \in Missions |-> None]
    /\ backbone = {}
    /\ loops = {}
    /\ resources = {}
    /\ index = [l \in Landmarks |-> None]
    /\ stored = [v \in Vertices |-> {}]
    /\ backlinks = [l \in Landmarks |-> {}]
    /\ observed = [k \in AllKeypoints |-> None]
    /\ aborted = FALSE

-----------------------------------------------------------------------------
(* What the operations ask of the map.                                     *)

InMap         == {v \in Vertices : mission[v] # None}
Present       == {m \in Missions : root[m] # None}
VerticesOf(m) == {v \in Vertices : mission[v] = m}
InIndex       == {l \in Landmarks : index[l] # None}

Touches(edge, S) == edge[1] \in S \/ edge[2] \in S

NextVertex(v) ==
    IF \E w \in Vertices : <<v, w>> \in backbone
    THEN CHOOSE w \in Vertices : <<v, w>> \in backbone
    ELSE None

\* The vertices of a mission in the order of the traversal.
Chain(m) ==
    LET c[i \in 1 .. Cardinality(VerticesOf(m))] ==
            IF i = 1 THEN root[m] ELSE NextVertex(c[i - 1])
    IN c

OnChain(m)   == {v \in Vertices : \E i \in DOMAIN Chain(m) : Chain(m)[i] = v}
Before(m, v) == {u \in Vertices :
                    \E i, j \in DOMAIN Chain(m) :
                        i < j /\ Chain(m)[i] = u /\ Chain(m)[j] = v}

Observers(l) == {k[1] : k \in backlinks[l]}
Looks(v, l)  == {k \in backlinks[l] : k[1] = v}
StoredIn(S)  == UNION {stored[v] : v \in S}

Survives == ~aborted /\ aborted' = FALSE
Abort    == ~aborted /\ aborted' = TRUE /\ UNCHANGED <<graphVars, landmarkVars>>

-----------------------------------------------------------------------------
(* The pose graph grows.                                                   *)

\* A vertex without landmarks at the end of its mission, or the first one.
AddVertex(m, v) ==
    /\ mission[v] = None
    /\ mission' = [mission EXCEPT ![v] = m]
    /\ \/ /\ root[m] = None
          /\ root' = [root EXCEPT ![m] = v]
          /\ backbone' = backbone
       \/ /\ \E last \in VerticesOf(m) :
                /\ NextVertex(last) = None
                /\ backbone' = backbone \cup {<<last, v>>}
          /\ root' = root
    /\ Survives
    /\ UNCHANGED <<loops, resources, landmarkVars>>

\* An image of the vertex becomes a resource of its frame.
StoreFrameResource(v) ==
    /\ v \in InMap
    /\ resources' = resources \cup {v}
    /\ Survives
    /\ UNCHANGED <<mission, root, backbone, loops, landmarkVars>>

AddLoopClosureEdge(v, w) ==
    /\ {v, w} \subseteq InMap
    /\ v # w
    /\ loops' = loops \cup {<<v, w>>}
    /\ Survives
    /\ UNCHANGED <<mission, root, backbone, resources, landmarkVars>>

RemoveLoopClosureEdges ==
    /\ loops # {}
    /\ loops' = {}
    /\ Survives
    /\ UNCHANGED <<mission, root, backbone, resources, landmarkVars>>

-----------------------------------------------------------------------------
(* Landmarks.                                                              *)

AddNewLandmark(l, k) ==
    /\ index[l] = None
    /\ k[1] \in InMap
    /\ observed[k] = None
    /\ index' = [index EXCEPT ![l] = k[1]]
    /\ stored' = [stored EXCEPT ![k[1]] = @ \cup {l}]
    /\ backlinks' = [backlinks EXCEPT ![l] = {k}]
    /\ observed' = [observed EXCEPT ![k] = l]
    /\ Survives
    /\ UNCHANGED <<graphVars>>

Associate(k, l) ==
    /\ l \in InIndex
    /\ k[1] \in InMap
    /\ observed[k] = None
    /\ observed' = [observed EXCEPT ![k] = l]
    /\ backlinks' = [backlinks EXCEPT ![l] = @ \cup {k}]
    /\ Survives
    /\ UNCHANGED <<graphVars, index, stored>>

MergeLandmarks(from, into) ==
    /\ {from, into} \subseteq InIndex
    /\ from # into
    /\ observed' = [k \in AllKeypoints |->
                       IF k \in backlinks[from] THEN into ELSE observed[k]]
    /\ backlinks' = [backlinks EXCEPT ![into] = @ \cup backlinks[from],
                                      ![from] = {}]
    /\ stored' = [stored EXCEPT ![index[from]] = @ \ {from}]
    /\ index' = [index EXCEPT ![from] = None]
    /\ Survives
    /\ UNCHANGED <<graphVars>>

MoveLandmarkToOtherVertex(l, v) ==
    /\ l \in InIndex
    /\ v \in InMap
    /\ v # index[l]
    /\ stored' = [stored EXCEPT ![v] = @ \cup {l}, ![index[l]] = @ \ {l}]
    /\ index' = [index EXCEPT ![l] = v]
    /\ Survives
    /\ UNCHANGED <<graphVars, backlinks, observed>>

\* The landmarks D leave the map, and so does what the vertices S observe and
\* store: their keypoints, and those that observe D, lose their landmark.
ForgetMap(D, S) ==
    /\ index' = [l \in Landmarks |-> IF l \in D THEN None ELSE index[l]]
    /\ stored' = [v \in Vertices |-> IF v \in S THEN {} ELSE stored[v] \ D]
    /\ backlinks' = [l \in Landmarks |->
                        IF l \in D THEN {}
                                   ELSE {k \in backlinks[l] : k[1] \notin S}]
    /\ observed' = [k \in AllKeypoints |->
                       IF k[1] \in S THEN None ELSE observed[k]]
Forget(D, S) ==
    /\ index' = [l \in Landmarks |-> IF l \in D THEN None ELSE index[l]]
    /\ stored' = [v \in Vertices |-> IF v \in S THEN {} ELSE stored[v] \ D]
    /\ backlinks' = [l \in Landmarks |->
                        IF l \in D THEN {}
                                   ELSE {k \in backlinks[l] : k[1] \notin S}]
    /\ observed' = [k \in AllKeypoints |->
                       IF k[1] \in S \/ \E l \in D : k \in backlinks[l]
                       THEN None ELSE observed[k]]

RemoveLandmark(l) ==
    /\ l \in InIndex
    /\ Forget({l}, {})
    /\ Survives
    /\ UNCHANGED <<graphVars>>

-----------------------------------------------------------------------------
(* Vertices and missions go.                                               *)

\* The landmarks a merged vertex takes with it.  They are looked at once for
\* every keypoint of the vertex that observes them, and the first look already
\* removes all its backlinks.
OrphanedByMergeAlone(v) ==
  {l \in InIndex : /\ Cardinality(backlinks[l]) = 1
                   /\ Cardinality(Looks(v, l)) = Cardinality(backlinks[l])}
OrphanedByMerge(v) ==
    {l \in InIndex :
        /\ Looks(v, l) # {}
        /\ LET others == Observers(l) \ {v}
           IN \/ others = {}
              \/ Cardinality(others) = 1 /\ Cardinality(Looks(v, l)) > 1}

\* The edge into v and the edge out of it become one.
BridgedToNext(into, v) == {<<into, NextVertex(v)>>}
BridgedByHand(into, v) == {}
Bridged(into, v) ==
    {e \in Vertices \X Vertices : e[1] = into /\ <<v, e[2]>> \in backbone}

MergeNeighboringVertices(into, v) ==
    LET D == OrphanedByMerge(v)
    IN /\ {into, v} \subseteq InMap
       /\ into # v
       /\ <<into, v>> \in backbone
       /\ backbone' = {e \in backbone : ~Touches(e, {v})}
                        \cup Bridged(into, v)
       /\ loops' = {e \in loops : ~Touches(e, {v})}
       /\ mission' = [mission EXCEPT ![v] = None]
       /\ resources' = resources \ {v}
       /\ index' = [l \in Landmarks |->
                       CASE l \in D       -> None
                         [] l \in stored[v] \ D -> into
                         [] OTHER         -> index[l]]
       /\ stored' = [u \in Vertices |->
                       CASE u = v    -> {}
                         [] u = into -> (stored[into] \cup stored[v]) \ D
                         [] OTHER    -> stored[u] \ D]
       /\ backlinks' = [l \in Landmarks |->
                           IF l \in D THEN {} ELSE backlinks[l] \ Looks(v, l)]
       /\ observed' = [k \in AllKeypoints |->
                          IF k[1] = v \/ \E l \in D : k \in backlinks[l]
                          THEN None ELSE observed[k]]
       /\ Survives
       /\ UNCHANGED root

\* Landmarks of other missions that only vertices of S observe.
OrphanedByAny(m, S) ==
    {l \in InIndex : Observers(l) # {} /\ Observers(l) \subseteq S}
OrphanedBy(m, S) ==
    {l \in InIndex : /\ mission[index[l]] # m
                     /\ Observers(l) # {}
                     /\ Observers(l) \subseteq S}

\* The last vertex to go that observes an orphaned landmark removes it at its
\* first keypoint, and looks it up again at the second.
LooksTwice(m, S) ==
    \E l \in OrphanedBy(m, S) : \E v \in Observers(l) :
        /\ \A u \in Observers(l) \ {v} : u \in Before(m, v)
        /\ Cardinality(Looks(v, l)) > 1

\* The vertices S of m go, with their edges and landmarks.  A vertex that still
\* has frame resources is not removed; left are those nobody has deleted.
RemoveVertices(m, S, newRoot, left) ==
    \/ LooksTwice(m, S) /\ Abort
    \/ S \cap left # {} /\ Abort
    \/ /\ ~LooksTwice(m, S)
       /\ S \cap left = {}
       /\ resources' = left
       /\ mission' = [v \in Vertices |-> IF v \in S THEN None ELSE mission[v]]
       /\ root' = [root EXCEPT ![m] = newRoot]
       /\ backbone' = {e \in backbone : ~Touches(e, S)}
       /\ loops' = {e \in loops : ~Touches(e, S)}
       /\ Forget(StoredIn(S) \cup OrphanedBy(m, S), S)
       /\ Survives

RemoveMission(m) ==
    /\ m \in Present
    /\ RemoveVertices(m, OnChain(m), None, resources)

\* The frame resources of the vertices that go are deleted first.
DropMapDataBeforeVertex(m, v) ==
    /\ m \in Present
    /\ v \in OnChain(m) \ {root[m]}
    /\ RemoveVertices(m, Before(m, v), v, resources \ Before(m, v))

-----------------------------------------------------------------------------
(* A mission is copied into the same map.                                  *)

\* Observed from the vertices S and from nowhere else.
IsPrivate(l, S) == Observers(l) # {} /\ Observers(l) \subseteq S

\* The root or an end of an edge has no copy, or a landmark the mission stores
\* is observed from another one (and gets every new backlink twice) or from
\* nowhere, or a frame has resources, which the copy then shares ("Resource ...
\* is not unique!").
CannotDuplicate(m, S) ==
    \/ root[m] \notin S
    \/ S \cap resources # {}
    \/ \E e \in backbone \cup loops : (e[1] \in S) # (e[2] \in S)
    \/ \E l \in StoredIn(S) : ~IsPrivate(l, S)

Injections(A, B) == {f \in [A -> B] : \A a, b \in A : f[a] = f[b] => a = b}

\* twin and copy are the new ids of the vertices and of the private landmarks.
\* A twin is linked, stores and observes as its source does.
DuplicateAs(m, n, twin, copy) ==
    LET S      == OnChain(m)
        twins  == {twin[v] : v \in S}
        copies == {copy[l] : l \in DOMAIN copy}
        source(w)   == CHOOSE v \in S : twin[v] = w
        original(l) == CHOOSE o \in DOMAIN copy : copy[o] = l
        Renamed(l)  == IF l \in DOMAIN copy THEN copy[l] ELSE l
        Edges(E) == {e \in twins \X twins : <<source(e[1]), source(e[2])>> \in E}
        Links(l) == {k \in AllKeypoints :
                        k[1] \in twins /\ <<source(k[1]), k[2]>> \in backlinks[l]}
    IN /\ mission' = [v \in Vertices |-> IF v \in twins THEN n ELSE mission[v]]
       /\ root' = [root EXCEPT ![n] = twin[root[m]]]
       /\ backbone' = backbone \cup Edges(backbone)
       /\ loops' = loops \cup Edges(loops)
       /\ index' = [l \in Landmarks |-> IF l \in copies
                                        THEN twin[index[original(l)]]
                                        ELSE index[l]]
       /\ stored' = [v \in Vertices |-> IF v \in twins
                                        THEN {copy[l] : l \in stored[source(v)]}
                                        ELSE stored[v]]
       /\ backlinks' = [l \in Landmarks |->
                           CASE l \in copies      -> Links(original(l))
                             [] l \in DOMAIN copy -> backlinks[l]
                             [] OTHER             -> backlinks[l] \cup Links(l)]
       /\ observed' = [k \in AllKeypoints |->
                          IF k[1] \in twins
                          THEN Renamed(observed[<<source(k[1]), k[2]>>])
                          ELSE observed[k]]
       /\ Survives
       /\ UNCHANGED resources

DuplicateMission(m, n) ==
    /\ m \in Present
    /\ n \in Missions \ Present
    /\ \/ CannotDuplicate(m, OnChain(m)) /\ Abort
       \/ /\ ~CannotDuplicate(m, OnChain(m))
          /\ \E twin \in Injections(OnChain(m), Vertices \ InMap),
                copy \in Injections(StoredIn(OnChain(m)), Landmarks \ InIndex) :
                    DuplicateAs(m, n, twin, copy)

-----------------------------------------------------------------------------
Next ==
    \/ \E m \in Missions, v \in Vertices : AddVertex(m, v)
    \/ \E v \in Vertices : StoreFrameResource(v)
    \/ \E v, w \in Vertices : AddLoopClosureEdge(v, w)
    \/ RemoveLoopClosureEdges
    \/ \E l \in Landmarks, k \in AllKeypoints : AddNewLandmark(l, k)
    \/ \E k \in AllKeypoints, l \in Landmarks : Associate(k, l)
    \/ \E from, into \in Landmarks : MergeLandmarks(from, into)
    \/ \E l \in Landmarks, v \in Vertices : MoveLandmarkToOtherVertex(l, v)
    \/ \E l \in Landmarks : RemoveLandmark(l)
    \/ \E into, v \in Vertices : MergeNeighboringVertices(into, v)
    \/ \E m \in Missions : RemoveMission(m)
    \/ \E m \in Missions, v \in Vertices : DropMapDataBeforeVertex(m, v)
    \/ \E m, n \in Missions : DuplicateMission(m, n)

Spec == Init /\ [][Next]_vars

-----------------------------------------------------------------------------
(* checkMapConsistency, first for the landmarks: index and stores agree,   *)
(* backlinks and keypoints agree, and nothing refers to what is gone.      *)
StoresAgree ==
    \A v \in Vertices, l \in Landmarks : l \in stored[v] <=> index[l] = v

LinksAgree ==
    \A k \in AllKeypoints, l \in Landmarks :
        k \in backlinks[l] <=> observed[k] = l

NothingDangles ==
    /\ \A l \in Landmarks : index[l] # None => mission[index[l]] # None
    /\ \A k \in AllKeypoints :
           observed[k] # None => /\ index[observed[k]] # None
                                 /\ mission[k[1]] # None

Consistent == StoresAgree /\ LinksAgree /\ NothingDangles

\* checkPosegraphConsistency and checkForOrphanedPosegraphItems, edge by edge:
\* an edge ends at vertices of the map, and the backbone stays in one mission
\* and never forks or joins, so that the next vertex is unique.
EdgesWellFormed ==
    /\ \A e \in backbone \cup loops : {e[1], e[2]} \subseteq InMap
    /\ \A e \in backbone : mission[e[1]] = mission[e[2]]
    /\ \A d, e \in backbone : (d[1] = e[1] \/ d[2] = e[2]) => d = e

\* And along the graph: the traversal of a mission visits its vertices, all of
\* them and each once.
BackboneIsChain ==
    /\ EdgesWellFormed
    /\ \A m \in Missions : OnChain(m) = VerticesOf(m)
    /\ \A e \in backbone : e[2] # root[mission[e[2]]]
    /\ \A v \in InMap : root[mission[v]] # None

\* Whether missions share a landmark or an edge.
MissionsLinked ==
    \/ \E e \in loops : mission[e[1]] # mission[e[2]]
    \/ \E l \in InIndex : \E v \in Observers(l) : mission[v] # mission[index[l]]

Unobserved == {l \in InIndex : backlinks[l] = {}}

\* On a map whose missions share nothing and whose landmarks are all observed,
\* frame resources alone make an operation end the process: those of a mission
\* that is removed or copied, and never those that dropMapDataBeforeVertex meets.
AbortNeedsLink ==
    [][aborted' # aborted =>
          \/ MissionsLinked
          \/ Unobserved # {}
          \/ /\ \E m \in Present : OnChain(m) \cap resources # {}
             /\ \A m \in Missions, v \in Vertices :
                    ~DropMapDataBeforeVertex(m, v)]_vars

\* Landmarks nobody observes are removed with their last observer ("Check for
\* orphaned landmarks", "we should remove this orphaned landmark").  The one
\* exception is dropMapDataBeforeVertex, which keeps those of its own mission.
OrphansRemoved ==
    [][\/ Unobserved' \subseteq Unobserved
       \/ \E m \in Missions, v \in Vertices : DropMapDataBeforeVertex(m, v)]_vars

\* "Our merged vertex is the only vertex seeing this landmark."
\* (mergeNeighboringVertices): a landmark another vertex sees survives a merge.
SeenElsewhereSurvives ==
    [][\A into, v \in Vertices : MergeNeighboringVertices(into, v) =>
          \A l \in InIndex : Observers(l) \ {v} # {} => index'[l] # None]_vars
=============================================================================
