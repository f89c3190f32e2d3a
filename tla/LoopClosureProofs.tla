------------------------- MODULE LoopClosureProofs -------------------------
(***************************************************************************)
(* What holds of the VI map for any number of missions, vertices,          *)
(* keypoints and landmarks: the four places that record a landmark agree,  *)
(* the edges of the pose graph are well formed, the traversal of a mission *)
(* visits all of it, and operations neither abort nor leave a landmark     *)
(* without observers unless they have a reason to.                         *)
(*                                                                         *)
(* And what queries of the loop closure do to it, for any number of        *)
(* queries and matches.  They change it by operations of VIMap alone, so   *)
(* that it stays consistent, even where a racing read returns a torn id.   *)
(* Where none does, the table of past merges leads to the map, no CHECK    *)
(* fails, and a match is given up for another one only.                    *)
(***************************************************************************)
EXTENDS LoopClosure, FiniteSetTheorems, FunctionTheorems, SequenceTheorems,
        WellFoundedInduction, TLAPS

-----------------------------------------------------------------------------
(* The VI map: its invariant, and what its operations leave alone.         *)

IInv == TypeOK /\ Consistent /\ EdgesWellFormed

\* What the actions that change no edge and no mission leave to be shown.
GraphKept == mission' = mission /\ backbone' = backbone /\ loops' = loops

-----------------------------------------------------------------------------
(* Lemmas.                                                                 *)

\* A vertex without a next vertex has no outgoing edge of the backbone.
LEMMA NoNextNoEdge ==
    ASSUME NEW v \in Vertices, NextVertex(v) = None
    PROVE  \A w \in Vertices : <<v, w>> \notin backbone
<1>1. SUFFICES ASSUME \E w \in Vertices : <<v, w>> \in backbone PROVE FALSE
  OBVIOUS
<1>2. (CHOOSE w \in Vertices : <<v, w>> \in backbone) \in Vertices
  BY <1>1
<1>3. QED
  BY <1>1, <1>2, VIMapAssumption DEF NextVertex

\* Where no edge and no mission changes, the edges stay well formed.
LEMMA EdgesKept ==
    ASSUME EdgesWellFormed, GraphKept
    PROVE  EdgesWellFormed'
BY DEF EdgesWellFormed, GraphKept, InMap

\* Every keypoint of the map is a pair of a vertex and a keypoint.
LEMMA KeypointVertex ==
    ASSUME NEW k \in AllKeypoints
    PROVE  k[1] \in Vertices /\ k[2] \in Keypoints /\ k = <<k[1], k[2]>>
BY DEF AllKeypoints

LEMMA InitCorrect == Init => IInv
<1>1. Init => TypeOK
  BY DEF Init, TypeOK
<1>2. Init => Consistent
  BY VIMapAssumption, KeypointVertex
  DEF Init, Consistent, StoresAgree, LinksAgree, NothingDangles
<1>3. Init => EdgesWellFormed
  BY DEF Init, EdgesWellFormed
<1>4. QED
  BY <1>1, <1>2, <1>3 DEF IInv

-----------------------------------------------------------------------------
(* The pose graph grows.                                                   *)

LEMMA AddVertexCorrect ==
    ASSUME IInv, NEW m \in Missions, NEW v \in Vertices, AddVertex(m, v)
    PROVE  IInv'
<1> USE DEF IInv
<1>1. TypeOK'
  <2>1. mission' \in [Vertices -> Missions \cup {None}]
    BY DEF AddVertex, TypeOK
  <2>2. root' \in [Missions -> Vertices \cup {None}]
    BY DEF AddVertex, TypeOK
  <2>3. backbone' \in SUBSET (Vertices \X Vertices)
    BY DEF AddVertex, TypeOK, VerticesOf
  <2>4. QED
    BY <2>1, <2>2, <2>3 DEF AddVertex, TypeOK, Survives, landmarkVars
<1>2. \A u \in Vertices : mission[u] # None => mission'[u] # None
  BY VIMapAssumption DEF AddVertex, TypeOK
<1>3. Consistent'
  <2>1. UNCHANGED landmarkVars
    BY DEF AddVertex
  <2>2. StoresAgree' /\ LinksAgree'
    BY <2>1 DEF Consistent, StoresAgree, LinksAgree, landmarkVars
  <2>3. NothingDangles'
    <3>1. ASSUME NEW l \in Landmarks, index'[l] # None
          PROVE  mission'[index'[l]] # None
      BY <1>2, <2>1, <3>1 DEF Consistent, NothingDangles, landmarkVars, TypeOK
    <3>2. ASSUME NEW k \in AllKeypoints, observed'[k] # None
          PROVE  index'[observed'[k]] # None /\ mission'[k[1]] # None
      BY <1>2, <2>1, <3>2, KeypointVertex
      DEF Consistent, NothingDangles, landmarkVars
    <3>3. QED
      BY <3>1, <3>2 DEF NothingDangles
  <2>4. QED
    BY <2>2, <2>3 DEF Consistent
<1>4. EdgesWellFormed'
  <2>1. \A u \in Vertices : u # v => mission'[u] = mission[u]
    BY DEF AddVertex, TypeOK
  <2>2. mission'[v] = m /\ m # None /\ v \notin InMap
    BY VIMapAssumption DEF AddVertex, TypeOK, InMap
  <2>3. CASE backbone' = backbone
    BY <1>2, <2>1, <2>2, <2>3 DEF AddVertex, EdgesWellFormed, InMap, TypeOK
  <2>4. ASSUME NEW last \in VerticesOf(m), NextVertex(last) = None,
               backbone' = backbone \cup {<<last, v>>}
        PROVE  EdgesWellFormed'
    <3>1. last \in Vertices /\ last \in InMap /\ last # v /\ mission[last] = m
      BY <2>2 DEF VerticesOf, InMap, AddVertex
    <3>2. \A e \in backbone : e[1] # last
      BY <2>4, <3>1, NoNextNoEdge DEF TypeOK
    <3>3. \A e \in backbone : e[1] # v /\ e[2] # v
      BY <2>2 DEF EdgesWellFormed
    <3>4. QED
      BY <1>2, <2>1, <2>2, <2>4, <3>1, <3>2, <3>3
      DEF AddVertex, EdgesWellFormed, InMap, TypeOK
  <2>5. QED
    BY <2>3, <2>4 DEF AddVertex
<1>5. QED
  BY <1>1, <1>3, <1>4

LEMMA StoreFrameResourceCorrect ==
    ASSUME IInv, NEW v \in Vertices, StoreFrameResource(v)
    PROVE  IInv'
<1> USE DEF IInv, StoreFrameResource, landmarkVars
<1>1. TypeOK'
  BY DEF TypeOK, Survives
<1>2. Consistent'
  BY DEF Consistent, StoresAgree, LinksAgree, NothingDangles
<1>3. EdgesWellFormed'
  BY EdgesKept DEF GraphKept
<1>4. QED
  BY <1>1, <1>2, <1>3

LEMMA AddLoopClosureEdgeCorrect ==
    ASSUME IInv, NEW v \in Vertices, NEW w \in Vertices,
           AddLoopClosureEdge(v, w)
    PROVE  IInv'
<1> USE DEF IInv, AddLoopClosureEdge, landmarkVars
<1>1. TypeOK'
  <2>1. loops' \in SUBSET (Vertices \X Vertices)
    BY DEF TypeOK
  <2>2. QED
    BY <2>1 DEF TypeOK, Survives
<1>2. Consistent'
  BY DEF Consistent, StoresAgree, LinksAgree, NothingDangles
<1>3. EdgesWellFormed'
  BY DEF EdgesWellFormed, InMap, TypeOK
<1>4. QED
  BY <1>1, <1>2, <1>3

LEMMA RemoveLoopClosureEdgesCorrect ==
    ASSUME IInv, RemoveLoopClosureEdges
    PROVE  IInv'
<1> USE DEF IInv, RemoveLoopClosureEdges, landmarkVars
<1>1. TypeOK'
  BY DEF TypeOK, Survives
<1>2. Consistent'
  BY DEF Consistent, StoresAgree, LinksAgree, NothingDangles
<1>3. EdgesWellFormed'
  BY DEF EdgesWellFormed, InMap, TypeOK
<1>4. QED
  BY <1>1, <1>2, <1>3

-----------------------------------------------------------------------------
(* Landmarks.                                                              *)

LEMMA AddNewLandmarkCorrect ==
    ASSUME IInv, NEW l \in Landmarks, NEW k \in AllKeypoints,
           AddNewLandmark(l, k)
    PROVE  IInv'
<1> USE DEF IInv, AddNewLandmark, graphVars
<1>1. k[1] \in Vertices /\ mission[k[1]] # None
  BY KeypointVertex DEF InMap
<1>2. TypeOK'
  BY <1>1 DEF TypeOK, Survives
<1>3. StoresAgree'
  BY <1>1, VIMapAssumption DEF Consistent, StoresAgree, TypeOK
<1>4. LinksAgree'
  <2>1. backlinks[l] = {}
    BY VIMapAssumption DEF Consistent, LinksAgree, NothingDangles, TypeOK
  <2>2. QED
    BY <2>1, VIMapAssumption DEF Consistent, LinksAgree, TypeOK
<1>5. NothingDangles'
  BY <1>1, VIMapAssumption DEF Consistent, NothingDangles, TypeOK
<1>6. EdgesWellFormed'
  BY EdgesKept DEF GraphKept
<1>7. QED
  BY <1>2, <1>3, <1>4, <1>5, <1>6 DEF Consistent

LEMMA AssociateCorrect ==
    ASSUME IInv, NEW k \in AllKeypoints, NEW l \in Landmarks, Associate(k, l)
    PROVE  IInv'
<1> USE DEF IInv, Associate, graphVars
<1>1. k[1] \in Vertices /\ mission[k[1]] # None /\ index[l] # None
  BY KeypointVertex DEF InMap, InIndex
<1>2. TypeOK'
  BY DEF TypeOK, Survives
<1>3. StoresAgree'
  BY DEF Consistent, StoresAgree
<1>4. LinksAgree'
  BY VIMapAssumption DEF Consistent, LinksAgree, TypeOK
<1>5. NothingDangles'
  BY <1>1 DEF Consistent, NothingDangles, TypeOK
<1>6. EdgesWellFormed'
  BY EdgesKept DEF GraphKept
<1>7. QED
  BY <1>2, <1>3, <1>4, <1>5, <1>6 DEF Consistent

LEMMA MergeLandmarksCorrect ==
    ASSUME IInv, NEW from \in Landmarks, NEW into \in Landmarks,
           MergeLandmarks(from, into)
    PROVE  IInv'
<1> USE DEF IInv, MergeLandmarks, graphVars
<1>1. index[from] \in Vertices /\ index[into] \in Vertices
  BY DEF TypeOK, InIndex
<1>2. TypeOK'
  <2>1. observed' \in [AllKeypoints -> Landmarks \cup {None}]
    BY DEF TypeOK
  <2>2. backlinks' \in [Landmarks -> SUBSET AllKeypoints]
    BY DEF TypeOK
  <2>3. stored' \in [Vertices -> SUBSET Landmarks]
    BY <1>1 DEF TypeOK
  <2>4. QED
    BY <2>1, <2>2, <2>3 DEF TypeOK, Survives
<1>3. StoresAgree'
  BY <1>1, VIMapAssumption DEF Consistent, StoresAgree, TypeOK
<1>4. LinksAgree'
  BY VIMapAssumption DEF Consistent, LinksAgree, TypeOK
<1>5. NothingDangles'
  <2>1. \A x \in Landmarks : index'[x] # None => mission'[index'[x]] # None
    BY DEF Consistent, NothingDangles, TypeOK
  <2>2. ASSUME NEW k \in AllKeypoints, observed'[k] # None
        PROVE  index'[observed'[k]] # None /\ mission'[k[1]] # None
    <3>1. CASE k \in backlinks[from]
      BY <3>1, <1>1, VIMapAssumption
      DEF Consistent, LinksAgree, NothingDangles, TypeOK
    <3>2. CASE k \notin backlinks[from]
      BY <2>2, <3>2 DEF Consistent, LinksAgree, NothingDangles, TypeOK
    <3>3. QED
      BY <3>1, <3>2
  <2>3. QED
    BY <2>1, <2>2 DEF NothingDangles
<1>6. EdgesWellFormed'
  BY EdgesKept DEF GraphKept
<1>7. QED
  BY <1>2, <1>3, <1>4, <1>5, <1>6 DEF Consistent

LEMMA MoveLandmarkCorrect ==
    ASSUME IInv, NEW l \in Landmarks, NEW v \in Vertices,
           MoveLandmarkToOtherVertex(l, v)
    PROVE  IInv'
<1> USE DEF IInv, MoveLandmarkToOtherVertex, graphVars
<1>1. index[l] \in Vertices /\ mission[v] # None
  BY DEF TypeOK, InIndex, InMap
<1>2. TypeOK'
  BY <1>1 DEF TypeOK, Survives
<1>3. StoresAgree'
  BY <1>1 DEF Consistent, StoresAgree, TypeOK
<1>4. LinksAgree'
  BY DEF Consistent, LinksAgree
<1>5. NothingDangles'
  BY <1>1, VIMapAssumption DEF Consistent, NothingDangles, TypeOK
<1>6. EdgesWellFormed'
  BY EdgesKept DEF GraphKept
<1>7. QED
  BY <1>2, <1>3, <1>4, <1>5, <1>6 DEF Consistent

-----------------------------------------------------------------------------
(* Landmarks and vertices go.                                              *)

\* When everything the vertices S store is among the landmarks D that go, the
\* places that record a landmark agree afterwards.
LEMMA ForgetCorrect ==
    ASSUME TypeOK, Consistent,
           NEW S \in SUBSET Vertices, NEW D \in SUBSET Landmarks,
           StoredIn(S) \subseteq D,
           \A v \in Vertices \ S : mission'[v] = mission[v],
           Forget(D, S)
    PROVE  /\ Consistent'
           /\ index' \in [Landmarks -> Vertices \cup {None}]
           /\ stored' \in [Vertices -> SUBSET Landmarks]
           /\ backlinks' \in [Landmarks -> SUBSET AllKeypoints]
           /\ observed' \in [AllKeypoints -> Landmarks \cup {None}]
<1> USE DEF Forget
<1>1. \A v \in S, l \in Landmarks : l \in stored[v] => l \in D
  BY DEF StoredIn
<1>2. /\ index' \in [Landmarks -> Vertices \cup {None}]
      /\ stored' \in [Vertices -> SUBSET Landmarks]
      /\ backlinks' \in [Landmarks -> SUBSET AllKeypoints]
      /\ observed' \in [AllKeypoints -> Landmarks \cup {None}]
  BY DEF TypeOK
<1>3. StoresAgree'
  <2>1. ASSUME NEW v \in Vertices, NEW l \in Landmarks
        PROVE  l \in stored'[v] <=> index'[l] = v
    <3>1. l \in stored[v] <=> index[l] = v
      BY DEF Consistent, StoresAgree
    <3>2. QED
      BY <1>1, <3>1, VIMapAssumption
  <2>2. QED
    BY <2>1 DEF StoresAgree
<1>4. LinksAgree'
  <2>1. ASSUME NEW k \in AllKeypoints, NEW l \in Landmarks
        PROVE  k \in backlinks'[l] <=> observed'[k] = l
    <3>1. /\ k \in backlinks[l] <=> observed[k] = l
          /\ \A d \in D : k \in backlinks[d] <=> observed[k] = d
      BY DEF Consistent, LinksAgree
    <3>2. QED
      BY <3>1, VIMapAssumption
  <2>2. QED
    BY <2>1 DEF LinksAgree
<1>5. NothingDangles'
  <2>1. ASSUME NEW l \in Landmarks, index'[l] # None
        PROVE  mission'[index'[l]] # None
    <3>1. l \notin D /\ index'[l] = index[l] /\ index[l] \in Vertices
      BY <2>1 DEF TypeOK
    <3>2. index[l] \notin S
      BY <1>1, <3>1 DEF Consistent, StoresAgree
    <3>3. mission'[index[l]] = mission[index[l]] /\ index[l] # None
      BY <3>1, <3>2, VIMapAssumption
    <3>4. QED
      BY <3>1, <3>3 DEF Consistent, NothingDangles
  <2>2. ASSUME NEW k \in AllKeypoints, observed'[k] # None
        PROVE  index'[observed'[k]] # None /\ mission'[k[1]] # None
    <3>1. /\ k[1] \notin S
          /\ \A l \in D : k \notin backlinks[l]
          /\ observed'[k] = observed[k]
          /\ observed[k] \in Landmarks
      BY <2>2 DEF TypeOK
    <3>2. observed[k] \notin D
      BY <3>1 DEF Consistent, LinksAgree
    <3>3. k[1] \in Vertices /\ mission'[k[1]] = mission[k[1]]
      BY <3>1, KeypointVertex
    <3>4. QED
      BY <2>2, <3>1, <3>2, <3>3 DEF Consistent, NothingDangles
  <2>3. QED
    BY <2>1, <2>2 DEF NothingDangles
<1>6. QED
  BY <1>2, <1>3, <1>4, <1>5 DEF Consistent

LEMMA RemoveLandmarkCorrect ==
    ASSUME IInv, NEW l \in Landmarks, RemoveLandmark(l)
    PROVE  IInv'
<1>1. StoredIn({}) \subseteq {l} /\ Forget({l}, {})
  BY DEF StoredIn, RemoveLandmark
<1>2. \A v \in Vertices \ {} : mission'[v] = mission[v]
  BY DEF RemoveLandmark, graphVars
<1>3. TypeOK' /\ Consistent'
  BY <1>1, <1>2, ForgetCorrect
  DEF IInv, TypeOK, RemoveLandmark, graphVars, Survives
<1>4. EdgesWellFormed'
  BY EdgesKept DEF IInv, GraphKept, RemoveLandmark, graphVars
<1>5. QED
  BY <1>3, <1>4 DEF IInv

LEMMA AbortCorrect ==
    ASSUME IInv, Abort
    PROVE  IInv'
<1> USE DEF IInv, Abort, graphVars, landmarkVars
<1>1. TypeOK'
  BY DEF TypeOK
<1>2. Consistent'
  BY DEF Consistent, StoresAgree, LinksAgree, NothingDangles
<1>3. EdgesWellFormed'
  BY EdgesKept DEF GraphKept
<1>4. QED
  BY <1>1, <1>2, <1>3

LEMMA RemoveVerticesCorrect ==
    ASSUME IInv, NEW m \in Missions, NEW S \in SUBSET Vertices,
           NEW newRoot \in Vertices \cup {None}, NEW left \in SUBSET Vertices,
           RemoveVertices(m, S, newRoot, left)
    PROVE  IInv'
<1>1. CASE Abort
  BY <1>1, AbortCorrect
<1>2. CASE ~Abort
  <2> DEFINE D == StoredIn(S) \cup OrphanedBy(m, S)
  <2>1. /\ mission' = [v \in Vertices |-> IF v \in S THEN None ELSE mission[v]]
        /\ root' = [root EXCEPT ![m] = newRoot]
        /\ backbone' = {e \in backbone : ~Touches(e, S)}
        /\ loops' = {e \in loops : ~Touches(e, S)}
        /\ Forget(D, S)
        /\ resources' = left
        /\ aborted' = FALSE
    BY <1>2 DEF RemoveVertices, Survives
  <2>2. D \in SUBSET Landmarks /\ StoredIn(S) \subseteq D
    BY DEF StoredIn, OrphanedBy, InIndex, IInv, TypeOK
  <2>3. \A v \in Vertices \ S : mission'[v] = mission[v]
    BY <2>1
  <2>4. /\ Consistent'
        /\ index' \in [Landmarks -> Vertices \cup {None}]
        /\ stored' \in [Vertices -> SUBSET Landmarks]
        /\ backlinks' \in [Landmarks -> SUBSET AllKeypoints]
        /\ observed' \in [AllKeypoints -> Landmarks \cup {None}]
    BY <2>1, <2>2, <2>3, ForgetCorrect DEF IInv
  <2>5. TypeOK'
    <3>1. mission' \in [Vertices -> Missions \cup {None}]
      BY <2>1 DEF IInv, TypeOK
    <3>2. root' \in [Missions -> Vertices \cup {None}]
      BY <2>1 DEF IInv, TypeOK
    <3>3. /\ backbone' \in SUBSET (Vertices \X Vertices)
          /\ loops' \in SUBSET (Vertices \X Vertices)
      BY <2>1 DEF IInv, TypeOK
    <3>4. QED
      BY <2>1, <2>4, <3>1, <3>2, <3>3 DEF TypeOK
  <2>6. EdgesWellFormed'
    <3>1. \A e \in backbone' \cup loops' :
              /\ e \in backbone \cup loops
              /\ e[1] \notin S /\ e[2] \notin S
      BY <2>1 DEF Touches
    <3>2. \A e \in backbone' : e \in backbone
      BY <2>1
    <3>3. \A e \in backbone' \cup loops' :
              /\ e[1] \in Vertices /\ e[2] \in Vertices
              /\ mission[e[1]] # None /\ mission[e[2]] # None
              /\ mission'[e[1]] = mission[e[1]]
              /\ mission'[e[2]] = mission[e[2]]
      BY <2>3, <3>1 DEF IInv, EdgesWellFormed, InMap
    <3>4. QED
      BY <3>2, <3>3 DEF IInv, EdgesWellFormed, InMap
  <2>7. QED
    BY <2>4, <2>5, <2>6 DEF IInv
<1>3. QED
  BY <1>1, <1>2

LEMMA RemoveMissionCorrect ==
    ASSUME IInv, NEW m \in Missions, RemoveMission(m)
    PROVE  IInv'
<1>1. OnChain(m) \in SUBSET Vertices /\ resources \in SUBSET Vertices
  BY DEF OnChain, IInv, TypeOK
<1>2. QED
  BY <1>1, RemoveVerticesCorrect DEF RemoveMission

LEMMA DropMapDataBeforeVertexCorrect ==
    ASSUME IInv, NEW m \in Missions, NEW v \in Vertices,
           DropMapDataBeforeVertex(m, v)
    PROVE  IInv'
<1>1. /\ Before(m, v) \in SUBSET Vertices
      /\ resources \ Before(m, v) \in SUBSET Vertices
  BY DEF Before, IInv, TypeOK
<1>2. QED
  BY <1>1, RemoveVerticesCorrect DEF DropMapDataBeforeVertex

LEMMA MergeNeighboringVerticesCorrect ==
    ASSUME IInv, NEW into \in Vertices, NEW v \in Vertices,
           MergeNeighboringVertices(into, v)
    PROVE  IInv'
<1> DEFINE D == OrphanedByMerge(v)
<1> USE DEF IInv
<1>1. /\ mission[into] # None
      /\ mission[v] # None
      /\ into # v
      /\ <<into, v>> \in backbone
      /\ backbone' = {e \in backbone : ~Touches(e, {v})} \cup Bridged(into, v)
      /\ loops' = {e \in loops : ~Touches(e, {v})}
      /\ mission' = [mission EXCEPT ![v] = None]
      /\ index' = [l \in Landmarks |->
                      CASE l \in D             -> None
                        [] l \in stored[v] \ D -> into
                        [] OTHER              -> index[l]]
      /\ stored' = [u \in Vertices |->
                      CASE u = v    -> {}
                        [] u = into -> (stored[into] \cup stored[v]) \ D
                        [] OTHER    -> stored[u] \ D]
      /\ backlinks' = [l \in Landmarks |->
                          IF l \in D THEN {} ELSE backlinks[l] \ Looks(v, l)]
      /\ observed' = [k \in AllKeypoints |->
                         IF k[1] = v \/ \E l \in D : k \in backlinks[l]
                         THEN None ELSE observed[k]]
      /\ root' = root
      /\ resources' = resources \ {v}
      /\ aborted' = FALSE
  BY DEF MergeNeighboringVertices, InMap, Survives
<1>2. D \subseteq Landmarks
  BY DEF OrphanedByMerge, InIndex
<1> HIDE DEF D
<1>3. \A l \in Landmarks :
          /\ l \in D => index'[l] = None
          /\ l \notin D /\ l \in stored[v] => index'[l] = into
          /\ l \notin D /\ l \notin stored[v] => index'[l] = index[l]
  BY <1>1
<1>4. TypeOK'
  <2>1. /\ index' \in [Landmarks -> Vertices \cup {None}]
        /\ stored' \in [Vertices -> SUBSET Landmarks]
    <3>1. index' \in [Landmarks -> Vertices \cup {None}]
      BY <1>1, <1>3 DEF TypeOK
    <3>2. \A u \in Vertices : stored'[u] \subseteq Landmarks
      BY <1>1 DEF TypeOK
    <3>3. QED
      BY <1>1, <3>1, <3>2
  <2>2. /\ backlinks' \in [Landmarks -> SUBSET AllKeypoints]
        /\ observed' \in [AllKeypoints -> Landmarks \cup {None}]
    BY <1>1 DEF TypeOK
  <2>3. /\ backbone' \in SUBSET (Vertices \X Vertices)
        /\ loops' \in SUBSET (Vertices \X Vertices)
    <3>1. Bridged(into, v) \subseteq Vertices \X Vertices
      BY DEF Bridged
    <3>2. /\ backbone \subseteq Vertices \X Vertices
          /\ loops \subseteq Vertices \X Vertices
      BY DEF TypeOK
    <3>3. QED
      BY <1>1, <3>1, <3>2
  <2>4. mission' \in [Vertices -> Missions \cup {None}]
    BY <1>1 DEF TypeOK
  <2>5. QED
    BY <1>1, <2>1, <2>2, <2>3, <2>4 DEF TypeOK
<1>5. StoresAgree'
  <2>1. ASSUME NEW u \in Vertices, NEW l \in Landmarks
        PROVE  l \in stored'[u] <=> index'[l] = u
    <3>1. /\ l \in stored[u] <=> index[l] = u
          /\ l \in stored[v] <=> index[l] = v
          /\ l \in stored[into] <=> index[l] = into
      BY DEF Consistent, StoresAgree
    <3>2. CASE u = v
      BY <1>1, <1>3, <3>1, <3>2, VIMapAssumption
    <3>3. CASE u = into
      BY <1>1, <1>3, <3>1, <3>3, VIMapAssumption
    <3>4. CASE u # v /\ u # into
      BY <1>1, <1>3, <3>1, <3>4, VIMapAssumption
    <3>5. QED
      BY <3>2, <3>3, <3>4
  <2>2. QED
    BY <2>1 DEF StoresAgree
<1>6. LinksAgree'
  <2>1. ASSUME NEW k \in AllKeypoints, NEW l \in Landmarks
        PROVE  k \in backlinks'[l] <=> observed'[k] = l
    <3>1. /\ k \in backlinks[l] <=> observed[k] = l
          /\ \A d \in D : k \in backlinks[d] <=> observed[k] = d
      BY <1>2 DEF Consistent, LinksAgree
    <3>2. QED
      BY <1>1, <3>1, VIMapAssumption DEF Looks
  <2>2. QED
    BY <2>1 DEF LinksAgree
<1>7. NothingDangles'
  <2>1. \A u \in Vertices : u # v => mission'[u] = mission[u]
    BY <1>1 DEF TypeOK
  <2>2. ASSUME NEW l \in Landmarks, index'[l] # None
        PROVE  mission'[index'[l]] # None
    <3>1. l \notin D
      BY <1>3, <2>2
    <3>2. CASE l \in stored[v]
      BY <1>1, <1>3, <2>1, <3>1, <3>2
    <3>3. CASE l \notin stored[v]
      <4>1. index'[l] = index[l] /\ index[l] # v /\ index[l] \in Vertices
        BY <1>3, <2>2, <3>1, <3>3 DEF Consistent, StoresAgree, TypeOK
      <4>2. QED
        BY <2>1, <2>2, <4>1 DEF Consistent, NothingDangles
    <3>4. QED
      BY <3>2, <3>3
  <2>3. ASSUME NEW k \in AllKeypoints, observed'[k] # None
        PROVE  index'[observed'[k]] # None /\ mission'[k[1]] # None
    <3>1. /\ k[1] # v
          /\ \A l \in D : k \notin backlinks[l]
          /\ observed'[k] = observed[k]
          /\ observed[k] \in Landmarks
      BY <1>1, <2>3 DEF TypeOK
    <3>2. observed[k] \notin D
      BY <3>1 DEF Consistent, LinksAgree
    <3>3. mission'[k[1]] # None
      BY <2>1, <2>3, <3>1, KeypointVertex DEF Consistent, NothingDangles
    <3>4. index[observed[k]] # None
      BY <2>3, <3>1 DEF Consistent, NothingDangles
    <3>5. QED
      BY <1>3, <3>1, <3>2, <3>3, <3>4, VIMapAssumption
  <2>4. QED
    BY <2>2, <2>3 DEF NothingDangles
<1>8. EdgesWellFormed'
  <2> DEFINE New == Bridged(into, v)
  <2>1. \A u \in Vertices : u # v => mission'[u] = mission[u]
    BY <1>1 DEF TypeOK
  <2>2. \A e \in New : /\ e[1] = into /\ e[2] \in Vertices
                       /\ e = <<into, e[2]>> /\ <<v, e[2]>> \in backbone
    BY DEF Bridged
  <2>3. \A e \in backbone' : \/ e \in New
                             \/ e \in backbone /\ e[1] # v /\ e[2] # v
    BY <1>1 DEF Touches
  <2>4. \A e \in loops' : e \in loops /\ e[1] # v /\ e[2] # v
    BY <1>1 DEF Touches
  <2> HIDE DEF New
  <2>5. /\ \A e \in backbone \cup loops :
              /\ e[1] \in Vertices /\ mission[e[1]] # None
              /\ e[2] \in Vertices /\ mission[e[2]] # None
        /\ \A e \in backbone : mission[e[1]] = mission[e[2]]
        /\ \A d, e \in backbone : (d[1] = e[1] \/ d[2] = e[2]) => d = e
    BY DEF EdgesWellFormed, InMap
  <2>6. /\ mission[into] = mission[v]
        /\ \A e \in backbone : e[1] = into => e[2] = v
    BY <1>1, <2>5
  <2>7. \A w \in Vertices : <<v, w>> \in backbone =>
            /\ w # v
            /\ mission[w] = mission[v]
            /\ \A e \in backbone : e[2] = w => e[1] = v
    <3>1. SUFFICES ASSUME NEW w \in Vertices, <<v, w>> \in backbone
                   PROVE  /\ w # v
                          /\ mission[w] = mission[v]
                          /\ \A e \in backbone : e[2] = w => e[1] = v
      OBVIOUS
    <3>2. w # v
      BY <1>1, <2>5, <3>1
    <3>3. QED
      BY <2>5, <3>1, <3>2
  <2>8. \A e \in New : e[2] # v /\ mission[e[2]] = mission[into]
    BY <2>2, <2>6, <2>7
  <2>9. \A e \in backbone' \cup loops' :
            /\ e[1] \in Vertices /\ mission'[e[1]] # None
            /\ e[2] \in Vertices /\ mission'[e[2]] # None
    <3>1. \A e \in New : /\ e[1] \in Vertices /\ mission'[e[1]] # None
                         /\ e[2] \in Vertices /\ mission'[e[2]] # None
      BY <1>1, <2>1, <2>2, <2>8
    <3>2. QED
      BY <2>1, <2>3, <2>4, <2>5, <3>1
  <2>10. \A e \in backbone' : mission'[e[1]] = mission'[e[2]]
    <3>1. \A e \in New : mission'[e[1]] = mission'[e[2]]
      BY <1>1, <2>1, <2>2, <2>8
    <3>2. QED
      BY <2>1, <2>3, <2>5, <3>1
  <2>11. \A d, e \in backbone' : (d[1] = e[1] \/ d[2] = e[2]) => d = e
    <3>1. SUFFICES ASSUME NEW d \in backbone', NEW e \in backbone',
                          d[1] = e[1] \/ d[2] = e[2]
                   PROVE  d = e
      OBVIOUS
    <3>2. CASE d \in New /\ e \in New
      <4>1. d[2] = e[2]
        BY <2>2, <2>5, <3>1, <3>2
      <4>2. QED
        BY <2>2, <3>2, <4>1
    <3>3. ASSUME NEW n \in New, NEW o \in backbone, o[1] # v, o[2] # v
          PROVE  n[1] # o[1] /\ n[2] # o[2]
      <4>1. n[1] # o[1]
        BY <2>2, <2>6, <3>3
      <4>2. n[2] # o[2]
        BY <2>2, <2>7, <3>3
      <4>3. QED
        BY <4>1, <4>2
    <3>4. CASE ~(d \in New /\ e \in New)
      BY <2>3, <2>5, <3>1, <3>3, <3>4
    <3>5. QED
      BY <3>2, <3>4
  <2>12. QED
    BY <2>9, <2>10, <2>11 DEF EdgesWellFormed, InMap
<1>9. QED
  BY <1>4, <1>5, <1>6, <1>7, <1>8 DEF Consistent

-----------------------------------------------------------------------------
(* A mission is copied into the same map.                                  *)

LEMMA DuplicateAsCorrect ==
    ASSUME IInv, NEW m \in Missions, NEW n \in Missions,
           NEW twin \in Injections(OnChain(m), Vertices \ InMap),
           NEW copy \in Injections(StoredIn(OnChain(m)), Landmarks \ InIndex),
           root[m] \in OnChain(m),
           DuplicateAs(m, n, twin, copy)
    PROVE  IInv'
<1> DEFINE S      == OnChain(m)
           twins  == {twin[v] : v \in S}
           copies == {copy[l] : l \in DOMAIN copy}
           source(w)   == CHOOSE v \in S : twin[v] = w
           original(l) == CHOOSE o \in DOMAIN copy : copy[o] = l
           Renamed(l)  == IF l \in DOMAIN copy THEN copy[l] ELSE l
           Edges(E) == {e \in twins \X twins :
                           <<source(e[1]), source(e[2])>> \in E}
           Links(l) == {k \in AllKeypoints :
                           /\ k[1] \in twins
                           /\ <<source(k[1]), k[2]>> \in backlinks[l]}
<1>1. /\ mission' = [v \in Vertices |-> IF v \in twins THEN n ELSE mission[v]]
      /\ root' = [root EXCEPT ![n] = twin[root[m]]]
      /\ backbone' = backbone \cup Edges(backbone)
      /\ loops' = loops \cup Edges(loops)
      /\ index' = [l \in Landmarks |-> IF l \in copies
                                       THEN twin[index[original(l)]]
                                       ELSE index[l]]
      /\ stored' = [v \in Vertices |-> IF v \in twins
                                       THEN {copy[l] : l \in stored[source(v)]}
                                       ELSE stored[v]]
      /\ backlinks' = [l \in Landmarks |->
                          CASE l \in copies      -> Links(original(l))
                            [] l \in DOMAIN copy -> backlinks[l]
                            [] OTHER             -> backlinks[l] \cup Links(l)]
      /\ observed' = [k \in AllKeypoints |->
                         IF k[1] \in twins
                         THEN Renamed(observed[<<source(k[1]), k[2]>>])
                         ELSE observed[k]]
      /\ aborted' = FALSE
      /\ resources' = resources
  BY DEF DuplicateAs, Survives
<1>2. /\ twin \in [S -> Vertices \ InMap]
      /\ \A a, b \in S : twin[a] = twin[b] => a = b
      /\ S \subseteq Vertices
  BY DEF Injections, OnChain
<1>3. /\ copy \in [StoredIn(S) -> Landmarks \ InIndex]
      /\ \A a, b \in StoredIn(S) : copy[a] = copy[b] => a = b
      /\ DOMAIN copy = StoredIn(S)
  BY DEF Injections
<1>4. \A w \in twins : /\ source(w) \in S /\ source(w) \in Vertices
                       /\ twin[source(w)] = w
                       /\ w \in Vertices /\ mission[w] = None
  BY <1>2 DEF InMap
<1>5. \A v \in S : twin[v] \in twins /\ source(twin[v]) = v
  BY <1>2
<1>6. \A l \in copies : /\ original(l) \in DOMAIN copy
                        /\ copy[original(l)] = l
                        /\ l \in Landmarks /\ index[l] = None
  BY <1>3 DEF InIndex
<1>7. \A o \in DOMAIN copy : /\ copy[o] \in copies /\ original(copy[o]) = o
                             /\ o \in Landmarks
                             /\ index[o] \in S
                             /\ index[o] # None
  <2>1. \A o \in DOMAIN copy : copy[o] \in copies /\ original(copy[o]) = o
    BY <1>3
  <2>2. \A o \in DOMAIN copy : o \in Landmarks /\ \E v \in S : o \in stored[v]
    BY <1>2, <1>3 DEF StoredIn, IInv, TypeOK
  <2>3. \A o \in DOMAIN copy : index[o] \in S
    BY <1>2, <2>2 DEF IInv, Consistent, StoresAgree
  <2>4. QED
    BY <1>2, <2>1, <2>2, <2>3, VIMapAssumption
<1>8. \A v \in S : \A l \in stored[v] : l \in DOMAIN copy
  BY <1>3 DEF StoredIn
<1>9. /\ \A k \in AllKeypoints : k[1] \in twins =>
            /\ <<source(k[1]), k[2]>> \in AllKeypoints
            /\ observed[k] = None
            /\ \A l \in Landmarks : k \notin backlinks[l]
      /\ \A k \in AllKeypoints, l \in copies :
            observed[k] # l /\ k \notin backlinks[l]
      /\ \A w \in twins, l \in Landmarks : index[l] # w
  <2>1. ASSUME NEW k \in AllKeypoints, k[1] \in twins
        PROVE  /\ <<source(k[1]), k[2]>> \in AllKeypoints
               /\ observed[k] = None
               /\ \A l \in Landmarks : k \notin backlinks[l]
    <3>1. observed[k] = None
      BY <1>4, <2>1 DEF IInv, Consistent, NothingDangles
    <3>2. \A l \in Landmarks : k \notin backlinks[l]
      BY <3>1, VIMapAssumption DEF IInv, Consistent, LinksAgree
    <3>3. <<source(k[1]), k[2]>> \in AllKeypoints
      BY <1>4, <2>1 DEF AllKeypoints
    <3>4. QED
      BY <3>1, <3>2, <3>3
  <2>2. ASSUME NEW k \in AllKeypoints, NEW l \in copies
        PROVE  observed[k] # l /\ k \notin backlinks[l]
    BY <1>6, VIMapAssumption
    DEF IInv, Consistent, LinksAgree, NothingDangles
  <2>3. ASSUME NEW w \in twins, NEW l \in Landmarks
        PROVE  index[l] # w
    BY <1>4, VIMapAssumption DEF IInv, Consistent, NothingDangles
  <2>4. QED
    BY <2>1, <2>2, <2>3
<1> HIDE DEF S, twins, copies, source, original
<1>10. TypeOK'
  <2>1. mission' \in [Vertices -> Missions \cup {None}]
    BY <1>1 DEF IInv, TypeOK
  <2>2. root' \in [Missions -> Vertices \cup {None}]
    <3>1. twin[root[m]] \in Vertices
      BY <1>2 DEF S
    <3>2. QED
      BY <1>1, <3>1 DEF IInv, TypeOK
  <2>3. /\ backbone' \in SUBSET (Vertices \X Vertices)
        /\ loops' \in SUBSET (Vertices \X Vertices)
    <3>1. twins \X twins \subseteq Vertices \X Vertices
      BY <1>4
    <3>2. /\ Edges(backbone) \subseteq twins \X twins
          /\ Edges(loops) \subseteq twins \X twins
      OBVIOUS
    <3>3. QED
      BY <1>1, <3>1, <3>2 DEF IInv, TypeOK
  <2>4. index' \in [Landmarks -> Vertices \cup {None}]
    <3>1. \A l \in copies : twin[index[original(l)]] \in Vertices
      BY <1>2, <1>6, <1>7
    <3>2. QED
      BY <1>1, <3>1 DEF IInv, TypeOK
  <2>5. stored' \in [Vertices -> SUBSET Landmarks]
    <3>1. \A v \in twins : {copy[l] : l \in stored[source(v)]} \subseteq Landmarks
      BY <1>4, <1>6, <1>7, <1>8
    <3>2. QED
      BY <1>1, <3>1 DEF IInv, TypeOK
  <2>6. backlinks' \in [Landmarks -> SUBSET AllKeypoints]
    <3>1. \A l \in Landmarks : backlinks'[l] \subseteq AllKeypoints
      BY <1>1 DEF IInv, TypeOK
    <3>2. QED
      BY <1>1, <3>1
  <2>7. observed' \in [AllKeypoints -> Landmarks \cup {None}]
    <3>1. \A k \in AllKeypoints : observed'[k] \in Landmarks \cup {None}
      BY <1>1, <1>6, <1>7, <1>9 DEF IInv, TypeOK
    <3>2. QED
      BY <1>1, <3>1
  <2>8. QED
    BY <1>1, <2>1, <2>2, <2>3, <2>4, <2>5, <2>6, <2>7 DEF TypeOK, IInv
<1>11. StoresAgree'
  <2>1. ASSUME NEW v \in Vertices, NEW l \in Landmarks
        PROVE  l \in stored'[v] <=> index'[l] = v
    <3>1. \A u \in Vertices, o \in Landmarks : o \in stored[u] <=> index[o] = u
      BY DEF IInv, Consistent, StoresAgree
    <3>2. CASE v \in twins /\ l \in copies
      <4>1. l \in stored'[v] <=> original(l) \in stored[source(v)]
        BY <1>1, <1>4, <1>6, <1>7, <1>8, <3>2
      <4>2. index'[l] = v <=> index[original(l)] = source(v)
        BY <1>1, <1>2, <1>4, <1>6, <1>7, <3>2
      <4>3. QED
        BY <1>4, <1>6, <1>7, <3>1, <3>2, <4>1, <4>2
    <3>3. CASE v \in twins /\ l \notin copies
      <4>1. l \notin stored'[v]
        BY <1>1, <1>4, <1>7, <1>8, <3>3
      <4>2. index'[l] # v
        BY <1>1, <1>9, <3>3
      <4>3. QED
        BY <4>1, <4>2
    <3>4. CASE v \notin twins
      <4>1. stored'[v] = stored[v]
        BY <1>1, <3>4
      <4>2. CASE l \in copies
        <5>1. index'[l] # v
          BY <1>1, <1>5, <1>6, <1>7, <3>4, <4>2
        <5>2. QED
          BY <1>6, <3>1, <4>1, <4>2, <5>1, VIMapAssumption
      <4>3. CASE l \notin copies
        BY <1>1, <3>1, <4>1, <4>3
      <4>4. QED
        BY <4>2, <4>3
    <3>5. QED
      BY <3>2, <3>3, <3>4
  <2>2. QED
    BY <2>1 DEF StoresAgree
<1>12. LinksAgree'
  <2>1. ASSUME NEW k \in AllKeypoints, NEW l \in Landmarks
        PROVE  k \in backlinks'[l] <=> observed'[k] = l
    <3>1. \A j \in AllKeypoints, o \in Landmarks :
              j \in backlinks[o] <=> observed[j] = o
      BY DEF IInv, Consistent, LinksAgree
    <3>2. CASE k[1] \in twins
      <4> DEFINE j == <<source(k[1]), k[2]>>
      <4>1. /\ j \in AllKeypoints
            /\ observed'[k] = Renamed(observed[j])
            /\ k \notin backlinks[l]
        BY <1>1, <1>9, <3>2
      <4>2. \A o \in Landmarks : k \in Links(o) <=> observed[j] = o
        BY <3>1, <3>2, <4>1
      <4>3. CASE l \in copies
        <5>1. k \in backlinks'[l] <=> observed[j] = original(l)
          BY <1>1, <1>6, <1>7, <4>2, <4>3
        <5>2. observed[j] # l
          BY <1>9, <4>1, <4>3
        <5>3. Renamed(observed[j]) = l <=> observed[j] = original(l)
          BY <1>6, <1>7, <4>3, <5>2
        <5>4. QED
          BY <4>1, <5>1, <5>3
      <4>4. CASE l \notin copies /\ l \in DOMAIN copy
        <5>1. k \notin backlinks'[l]
          BY <1>1, <4>1, <4>4
        <5>2. Renamed(observed[j]) # l
          BY <1>7, <4>4
        <5>3. QED
          BY <4>1, <5>1, <5>2
      <4>5. CASE l \notin copies /\ l \notin DOMAIN copy
        <5>1. k \in backlinks'[l] <=> observed[j] = l
          BY <1>1, <4>1, <4>2, <4>5
        <5>2. Renamed(observed[j]) = l <=> observed[j] = l
          BY <1>7, <4>5
        <5>3. QED
          BY <4>1, <5>1, <5>2
      <4>6. QED
        BY <4>3, <4>4, <4>5
    <3>3. CASE k[1] \notin twins
      <4>1. observed'[k] = observed[k] /\ \A o \in Landmarks : k \notin Links(o)
        BY <1>1, <3>3
      <4>2. CASE l \in copies
        BY <1>1, <1>6, <1>7, <1>9, <4>1, <4>2
      <4>3. CASE l \notin copies
        BY <1>1, <3>1, <4>1, <4>3
      <4>4. QED
        BY <4>2, <4>3
    <3>4. QED
      BY <3>2, <3>3
  <2>2. QED
    BY <2>1 DEF LinksAgree
<1>13. NothingDangles'
  <2>1. n # None /\ \A v \in Vertices : mission[v] # None => mission'[v] # None
    BY <1>1, VIMapAssumption
  <2>2. \A w \in twins : mission'[w] # None
    BY <1>1, <1>4, <2>1
  <2>3. ASSUME NEW l \in Landmarks, index'[l] # None
        PROVE  mission'[index'[l]] # None
    <3>1. CASE l \in copies
      BY <1>1, <1>5, <1>6, <1>7, <2>2, <3>1
    <3>2. CASE l \notin copies
      <4>1. index'[l] = index[l] /\ index[l] \in Vertices
        BY <1>1, <2>3, <3>2 DEF IInv, TypeOK
      <4>2. QED
        BY <2>1, <2>3, <4>1 DEF IInv, Consistent, NothingDangles
    <3>3. QED
      BY <3>1, <3>2
  <2>4. \A l \in Landmarks : index[l] # None => index'[l] # None
    BY <1>1, <1>6
  <2>5. \A l \in copies : index'[l] # None
    BY <1>1, <1>4, <1>5, <1>6, <1>7, VIMapAssumption
  <2>6. ASSUME NEW k \in AllKeypoints, observed'[k] # None
        PROVE  index'[observed'[k]] # None /\ mission'[k[1]] # None
    <3>1. CASE k[1] \in twins
      <4> DEFINE j == <<source(k[1]), k[2]>>
      <4>1. j \in AllKeypoints /\ observed'[k] = Renamed(observed[j])
        BY <1>1, <1>9, <3>1
      <4>2. CASE observed[j] \in DOMAIN copy
        BY <1>7, <2>2, <2>5, <3>1, <4>1, <4>2
      <4>3. CASE observed[j] \notin DOMAIN copy
        <5>1. observed'[k] = observed[j] /\ observed[j] \in Landmarks
          BY <2>6, <4>1, <4>3 DEF IInv, TypeOK
        <5>2. index[observed[j]] # None
          BY <2>6, <4>1, <5>1 DEF IInv, Consistent, NothingDangles
        <5>3. QED
          BY <2>2, <2>4, <3>1, <5>1, <5>2
      <4>4. QED
        BY <4>2, <4>3
    <3>2. CASE k[1] \notin twins
      <4>1. observed'[k] = observed[k] /\ observed[k] \in Landmarks
        BY <1>1, <2>6, <3>2 DEF IInv, TypeOK
      <4>2. index[observed[k]] # None /\ mission[k[1]] # None
        BY <2>6, <4>1 DEF IInv, Consistent, NothingDangles
      <4>3. QED
        BY <2>1, <2>4, <4>1, <4>2, KeypointVertex
    <3>3. QED
      BY <3>1, <3>2
  <2>7. QED
    BY <2>3, <2>6 DEF NothingDangles
<1>14. EdgesWellFormed'
  <2>1. /\ \A e \in backbone \cup loops :
              /\ e[1] \in Vertices /\ mission[e[1]] # None
              /\ e[2] \in Vertices /\ mission[e[2]] # None
        /\ \A e \in backbone : mission[e[1]] = mission[e[2]]
        /\ \A d, e \in backbone : (d[1] = e[1] \/ d[2] = e[2]) => d = e
    BY DEF IInv, EdgesWellFormed, InMap
  <2>2. \A e \in backbone \cup loops :
            /\ e[1] \notin twins /\ e[2] \notin twins
            /\ mission'[e[1]] = mission[e[1]]
            /\ mission'[e[2]] = mission[e[2]]
    BY <1>1, <1>4, <2>1
  <2>3. \A w \in twins : mission'[w] = n /\ n # None
    BY <1>1, <1>4, VIMapAssumption
  <2>4. /\ \A e \in Edges(backbone) : e[1] \in twins /\ e[2] \in twins
        /\ \A e \in Edges(loops) : e[1] \in twins /\ e[2] \in twins
    OBVIOUS
  <2>5. ASSUME NEW d \in Edges(backbone), NEW e \in Edges(backbone),
               d[1] = e[1] \/ d[2] = e[2]
        PROVE  d = e
    <3>1. /\ <<source(d[1]), source(d[2])>> \in backbone
          /\ <<source(e[1]), source(e[2])>> \in backbone
          /\ d = <<d[1], d[2]>> /\ e = <<e[1], e[2]>>
      OBVIOUS
    <3>2. source(d[1]) = source(e[1]) /\ source(d[2]) = source(e[2])
      BY <2>1, <2>5, <3>1
    <3>3. d[1] = e[1] /\ d[2] = e[2]
      BY <1>4, <2>4, <3>2
    <3>4. QED
      BY <3>1, <3>3
  <2>6. \A e \in backbone' \cup loops' :
            /\ e[1] \in Vertices /\ mission'[e[1]] # None
            /\ e[2] \in Vertices /\ mission'[e[2]] # None
    BY <1>1, <1>4, <2>1, <2>2, <2>3, <2>4
  <2>7. \A e \in backbone' : mission'[e[1]] = mission'[e[2]]
    BY <1>1, <2>1, <2>2, <2>3, <2>4
  <2>8. \A d, e \in backbone' : (d[1] = e[1] \/ d[2] = e[2]) => d = e
    BY <1>1, <2>1, <2>2, <2>4, <2>5
  <2>9. QED
    BY <2>6, <2>7, <2>8 DEF EdgesWellFormed, InMap
<1>15. QED
  BY <1>10, <1>11, <1>12, <1>13, <1>14 DEF IInv, Consistent

LEMMA DuplicateMissionCorrect ==
    ASSUME IInv, NEW m \in Missions, NEW n \in Missions,
           DuplicateMission(m, n)
    PROVE  IInv'
<1>1. CASE Abort
  BY <1>1, AbortCorrect
<1>2. CASE ~Abort
  <2>1. /\ root[m] \in OnChain(m)
        /\ \E twin \in Injections(OnChain(m), Vertices \ InMap),
              copy \in Injections(StoredIn(OnChain(m)), Landmarks \ InIndex) :
                  DuplicateAs(m, n, twin, copy)
    BY <1>2 DEF DuplicateMission, CannotDuplicate
  <2>2. QED
    BY <2>1, DuplicateAsCorrect
<1>3. QED
  BY <1>1, <1>2

-----------------------------------------------------------------------------
(* The order of the vertices of a mission.                                 *)

\* c lists the vertices of m from the root along the backbone to the last one.
IsOrder(m, c, n) ==
    /\ n \in Nat \ {0}
    /\ c \in [1 .. n -> Vertices]
    /\ \A i, j \in 1 .. n : c[i] = c[j] => i = j
    /\ c[1] = root[m]
    /\ \A v \in Vertices : mission[v] = m <=> \E i \in 1 .. n : c[i] = v
    /\ \A i \in 1 .. n - 1 : <<c[i], c[i + 1]>> \in backbone
    /\ \A w \in Vertices : <<c[n], w>> \notin backbone

HasOrder(m) ==
    IF root[m] = None THEN VerticesOf(m) = {}
                      ELSE \E n \in Nat : \E c \in [1 .. n -> Vertices] : IsOrder(m, c, n)

MissionsInOrder == \A m \in Missions : HasOrder(m)

\* A set of numbers that is not empty has a least element.
LEMMA LeastNumber ==
    ASSUME NEW T \in SUBSET Nat, T # {}
    PROVE  \E x \in T : \A y \in T : ~(y < x)
<1> DEFINE R == {p \in Nat \X Nat : p[1] < p[2]}
<1>1. IsWellFoundedOn(R, Nat)
  BY NatLessThanWellFounded DEF OpToRel
<1>2. PICK x \in T : \A y \in T : ~ (<<y, x>> \in R)
  <2> HIDE DEF R
  <2>1. QED
    BY <1>1, WFMin
<1>3. QED
  BY <1>2

\* A set of numbers that has 1, and with each number the next one, has all up to n.
LEMMA UpFromOne ==
    ASSUME NEW n \in Nat, NEW T, 1 \in T,
           \A i \in 1 .. n - 1 : i \in T => i + 1 \in T
    PROVE  \A i \in 1 .. n : i \in T
<1>1. SUFFICES ASSUME NEW j \in 1 .. n, j \notin T PROVE FALSE
  OBVIOUS
<1> DEFINE M == {i \in 1 .. n : i \notin T}
<1>2. PICK x \in M : \A y \in M : ~(y < x)
  <2>1. M \in SUBSET Nat /\ M # {}
    BY <1>1
  <2> HIDE DEF M
  <2>2. QED
    BY <2>1, LeastNumber
<1>3. x \in 1 .. n /\ x # 1 /\ x \notin T
  OBVIOUS
<1>4. x - 1 \in 1 .. n - 1 /\ x - 1 \in 1 .. n /\ x - 1 < x /\ (x - 1) + 1 = x
  BY <1>3
<1>5. x - 1 \in T
  BY <1>2, <1>4
<1>6. QED
  BY <1>3, <1>4, <1>5

\* An edge of the backbone leads to the next vertex.
LEMMA NextVertexIs ==
    ASSUME EdgesWellFormed, NEW v \in Vertices, NEW w \in Vertices, <<v, w>> \in backbone
    PROVE  NextVertex(v) = w
<1>1. \E u \in Vertices : <<v, u>> \in backbone
  OBVIOUS
<1> DEFINE next == CHOOSE u \in Vertices : <<v, u>> \in backbone
<1>2. next \in Vertices /\ <<v, next>> \in backbone
  BY <1>1
<1>3. <<v, next>> = <<v, w>>
  BY <1>2 DEF EdgesWellFormed
<1>4. QED
  BY <1>1, <1>3 DEF NextVertex

\* A mission has as many vertices as its order is long.
LEMMA OrderCounts ==
    ASSUME NEW m \in Missions, NEW n, NEW c, IsOrder(m, c, n)
    PROVE  Cardinality(VerticesOf(m)) = n
<1>1. n \in Nat /\ c \in [1 .. n -> VerticesOf(m)]
  BY DEF IsOrder, VerticesOf
<1>2. c \in Bijection(1 .. n, VerticesOf(m))
  <2>1. \A i, j \in 1 .. n : c[i] = c[j] => i = j
    BY DEF IsOrder
  <2>2. \A v \in VerticesOf(m) : \E i \in 1 .. n : c[i] = v
    BY DEF IsOrder, VerticesOf
  <2>3. QED
    BY <1>1, <2>1, <2>2, Fun_IsBij
<1>3. ExistsBijection(1 .. n, VerticesOf(m))
  BY <1>2, Fun_ExistsBij
<1>4. QED
  BY <1>1, <1>3, FS_CountingElements

\* The traversal of a mission yields its order.
LEMMA ChainIsOrder ==
    ASSUME EdgesWellFormed, NEW m \in Missions, NEW n, NEW c, IsOrder(m, c, n)
    PROVE  Chain(m) = c /\ DOMAIN Chain(m) = 1 .. n
<1> DEFINE F(f) == [i \in 1 .. n |-> IF i = 1 THEN root[m] ELSE NextVertex(f[i - 1])]
           d == CHOOSE f : f = F(f)
<1>1. /\ n \in Nat /\ n # 0 /\ c \in [1 .. n -> Vertices] /\ c[1] = root[m]
      /\ \A i \in 1 .. n - 1 : <<c[i], c[i + 1]>> \in backbone
  BY DEF IsOrder
<1>2. \A i \in 1 .. n - 1 : /\ i \in 1 .. n /\ i + 1 \in 1 .. n
                            /\ i + 1 # 1 /\ (i + 1) - 1 = i
  BY <1>1
<1>3. \A i \in 1 .. n : i # 1 => i - 1 \in 1 .. n - 1 /\ (i - 1) + 1 = i
  BY <1>1
<1>4. \A i \in 1 .. n - 1 : NextVertex(c[i]) = c[i + 1]
  BY <1>1, <1>2, NextVertexIs
<1>5. c = F(c)
  <2>1. \A i \in 1 .. n : c[i] = IF i = 1 THEN root[m] ELSE NextVertex(c[i - 1])
    BY <1>1, <1>3, <1>4
  <2>2. QED
    BY <1>1, <2>1
<1>6. d = F(d)
  BY <1>5
<1>7. DOMAIN d = 1 .. n /\ \A i \in 1 .. n : d[i] = F(d)[i]
  <2> HIDE DEF d
  <2>1. QED
    BY <1>6
<1>8. Chain(m) = d
  BY OrderCounts DEF Chain
<1> HIDE DEF d
<1>9. \A i \in 1 .. n : i \in {j \in 1 .. n : d[j] = c[j]}
  <2> DEFINE T == {j \in 1 .. n : d[j] = c[j]}
  <2>1. 1 \in T
    BY <1>1, <1>7
  <2>2. \A i \in 1 .. n - 1 : i \in T => i + 1 \in T
    BY <1>2, <1>4, <1>7
  <2> HIDE DEF T
  <2>3. \A i \in 1 .. n : i \in T
    BY <1>1, <2>1, <2>2, UpFromOne
  <2>4. QED
    BY <2>3 DEF T
<1>10. d = [i \in 1 .. n |-> d[i]]
  BY <1>6
<1>11. d = c
  BY <1>1, <1>9, <1>10
<1>12. QED
  BY <1>7, <1>8, <1>11

\* The vertices of a mission that the traversal visits, and those before one of them.
LEMMA ChainVisits ==
    ASSUME EdgesWellFormed, NEW m \in Missions, NEW n, NEW c, IsOrder(m, c, n)
    PROVE  /\ OnChain(m) = VerticesOf(m)
           /\ root[m] \in VerticesOf(m)
           /\ \A j \in 1 .. n : Before(m, c[j]) = {c[i] : i \in 1 .. j - 1}
<1>1. Chain(m) = c /\ DOMAIN Chain(m) = 1 .. n /\ DOMAIN c = 1 .. n
  BY ChainIsOrder
<1>2. OnChain(m) = VerticesOf(m)
  BY <1>1 DEF OnChain, VerticesOf, IsOrder
<1>3. n \in Nat /\ 1 \in 1 .. n /\ \A i \in 1 .. n : c[i] \in Vertices
  BY DEF IsOrder
<1>4. root[m] \in VerticesOf(m)
  BY <1>3 DEF VerticesOf, IsOrder
<1>5. ASSUME NEW j \in 1 .. n
      PROVE  Before(m, c[j]) = {c[i] : i \in 1 .. j - 1}
  <2>1. \A k \in 1 .. n : c[k] = c[j] => k = j
    BY DEF IsOrder
  <2>2. \A i \in 1 .. n : i < j <=> i \in 1 .. j - 1
    BY <1>3
  <2>3. \A i \in 1 .. j - 1 : i \in 1 .. n
    BY <1>3
  <2>4. Before(m, c[j]) = {u \in Vertices : \E i \in 1 .. n : i < j /\ c[i] = u}
    BY <1>1, <2>1 DEF Before
  <2>5. QED
    BY <1>3, <2>2, <2>3, <2>4
<1>6. QED
  BY <1>2, <1>4, <1>5

\* A mission without a root is not visited, and has no vertices.
LEMMA VisitsAll ==
    ASSUME EdgesWellFormed, NEW m \in Missions, HasOrder(m)
    PROVE  OnChain(m) = VerticesOf(m)
<1>1. CASE root[m] = None
  <2>1. VerticesOf(m) = {}
    BY <1>1 DEF HasOrder
  <2>2. Cardinality(VerticesOf(m)) = 0
    BY <2>1, FS_EmptySet
  <2>3. ASSUME NEW v \in OnChain(m) PROVE FALSE
    <3> DEFINE F(f) == [i \in 1 .. 0 |-> IF i = 1 THEN root[m] ELSE NextVertex(f[i - 1])]
    <3>1. Chain(m) = CHOOSE f : f = F(f)
      BY <2>2 DEF Chain
    <3>2. F(root) = F(F(root))
      OBVIOUS
    <3>3. Chain(m) = F(Chain(m))
      BY <3>1, <3>2
    <3>4. DOMAIN Chain(m) = 1 .. 0
      BY <3>3
    <3>5. QED
      BY <3>4 DEF OnChain
  <2>4. QED
    BY <2>1, <2>3
<1>2. CASE root[m] # None
  BY <1>2, ChainVisits DEF HasOrder
<1>3. QED
  BY <1>1, <1>2

\* Missions in order are what the traversal needs.
LEMMA OrderMakesChain == IInv /\ MissionsInOrder => BackboneIsChain
<1> SUFFICES ASSUME IInv, MissionsInOrder PROVE BackboneIsChain
  OBVIOUS
<1>1. EdgesWellFormed
  BY DEF IInv
<1>2. \A m \in Missions : OnChain(m) = VerticesOf(m)
  BY <1>1, VisitsAll DEF MissionsInOrder
<1>3. \A v \in InMap : mission[v] \in Missions /\ v \in VerticesOf(mission[v])
  BY DEF IInv, TypeOK, InMap, VerticesOf
<1>4. \A v \in InMap : root[mission[v]] # None
  BY <1>3 DEF MissionsInOrder, HasOrder
<1>5. ASSUME NEW e \in backbone PROVE e[2] # root[mission[e[2]]]
  <2> DEFINE m == mission[e[2]]
  <2>1. /\ e = <<e[1], e[2]>> /\ e[1] \in InMap /\ e[2] \in InMap
        /\ mission[e[1]] = m /\ e[1] \in Vertices /\ e[2] \in Vertices
    BY <1>1 DEF EdgesWellFormed, IInv, TypeOK
  <2>2. m \in Missions /\ root[m] # None
    BY <1>3, <1>4, <2>1
  <2>3. PICK n \in Nat : \E c \in [1 .. n -> Vertices] : IsOrder(m, c, n)
    BY <2>2 DEF MissionsInOrder, HasOrder
  <2>4. PICK c \in [1 .. n -> Vertices] : IsOrder(m, c, n)
    BY <2>3
  <2> HIDE DEF m
  <2>5. PICK i \in 1 .. n : c[i] = e[1]
    BY <2>1, <2>4 DEF IsOrder
  <2>6. i # n
    BY <2>1, <2>4, <2>5 DEF IsOrder
  <2>7. i \in 1 .. n - 1 /\ i + 1 \in 1 .. n /\ i + 1 # 1 /\ 1 \in 1 .. n
    BY <2>6
  <2>8. <<c[i], c[i + 1]>> \in backbone
    BY <2>4, <2>7 DEF IsOrder
  <2>9. c[i + 1] = e[2]
    BY <1>1, <2>1, <2>5, <2>8 DEF EdgesWellFormed
  <2>10. c[i + 1] # c[1]
    BY <2>4, <2>7 DEF IsOrder
  <2>11. QED
    BY <2>4, <2>9, <2>10 DEF IsOrder, m
<1>6. QED
  BY <1>1, <1>2, <1>4, <1>5 DEF BackboneIsChain

-----------------------------------------------------------------------------
(* The operations keep the missions in order.                              *)

\* The order of a mission stays while its vertices and their edges do.
LEMMA OrderKept ==
    ASSUME NEW m \in Missions, HasOrder(m), root'[m] = root[m],
           \A v \in Vertices : mission'[v] = m <=> mission[v] = m,
           \A v \in VerticesOf(m), w \in Vertices :
               <<v, w>> \in backbone' <=> <<v, w>> \in backbone
    PROVE  HasOrder(m)'
<1>1. CASE root[m] = None
  BY <1>1 DEF HasOrder, VerticesOf
<1>2. CASE root[m] # None
  <2>1. PICK n \in Nat : \E c \in [1 .. n -> Vertices] : IsOrder(m, c, n)
    BY <1>2 DEF HasOrder
  <2>2. PICK c \in [1 .. n -> Vertices] : IsOrder(m, c, n)
    BY <2>1
  <2>3. n \in 1 .. n /\ \A i \in 1 .. n - 1 : i \in 1 .. n /\ i + 1 \in 1 .. n
    BY <2>2 DEF IsOrder
  <2>4. \A i \in 1 .. n : c[i] \in VerticesOf(m)
    BY <2>2 DEF IsOrder, VerticesOf
  <2>5. IsOrder(m, c, n)'
    BY <2>2, <2>3, <2>4 DEF IsOrder
  <2>6. QED
    BY <1>2, <2>5 DEF HasOrder
<1>3. QED
  BY <1>1, <1>2

\* Of the vertices of other missions, operations on one mission change nothing.
LEMMA GraphKeepsOrder ==
    ASSUME MissionsInOrder, mission' = mission, root' = root, backbone' = backbone
    PROVE  MissionsInOrder'
BY OrderKept DEF MissionsInOrder

\* A mission has an order as soon as one is given.
LEMMA OrderGiven ==
    ASSUME TypeOK', NEW m \in Missions, NEW n \in Nat, NEW c \in [1 .. n -> Vertices],
           IsOrder(m, c, n)'
    PROVE  HasOrder(m)'
<1>1. root'[m] \in Vertices
  BY DEF IsOrder
<1>2. root'[m] # None
  BY <1>1, VIMapAssumption
<1>3. QED
  BY <1>2 DEF HasOrder

LEMMA AddVertexKeepsOrder ==
    ASSUME IInv, IInv', MissionsInOrder, NEW m \in Missions, NEW v \in Vertices, AddVertex(m, v)
    PROVE  MissionsInOrder'
<1>1. /\ mission \in [Vertices -> Missions \cup {None}] /\ mission[v] = None
      /\ root \in [Missions -> Vertices \cup {None}] /\ None \notin Missions
      /\ None \notin Vertices
  BY VIMapAssumption DEF IInv, TypeOK, AddVertex
<1>2. mission' = [mission EXCEPT ![v] = m]
  BY DEF AddVertex
<1>3. v \notin InMap
  BY <1>1 DEF InMap
<1>4. \A w \in Vertices : <<v, w>> \notin backbone
  BY <1>3 DEF IInv, EdgesWellFormed
<1>5. ASSUME NEW o \in Missions, o # m PROVE HasOrder(o)'
  <2>1. root'[o] = root[o]
    BY <1>1, <1>5 DEF AddVertex
  <2>2. \A u \in Vertices : mission'[u] = o <=> mission[u] = o
    BY <1>1, <1>2, <1>5
  <2>3. \A u \in VerticesOf(o), w \in Vertices :
            <<u, w>> \in backbone' <=> <<u, w>> \in backbone
    BY <1>5 DEF AddVertex, VerticesOf
  <2>4. QED
    BY <2>1, <2>2, <2>3, OrderKept DEF MissionsInOrder
<1>6. HasOrder(m)'
  <2>1. CASE root[m] = None
    <3> DEFINE c == [i \in 1 .. 1 |-> v]
    <3>1. VerticesOf(m) = {}
      BY <2>1 DEF MissionsInOrder, HasOrder
    <3>2. root'[m] = v /\ backbone' = backbone
      BY <1>1, <2>1, <3>1 DEF AddVertex
    <3>3. \A u \in Vertices : mission'[u] = m <=> u = v
      BY <1>1, <1>2, <3>1 DEF VerticesOf
    <3>4. \A i \in 1 .. 1 : i = 1
      OBVIOUS
    <3>5. 1 \in 1 .. 1 /\ 1 \in Nat \ {0} /\ \A i \in 1 .. 1 - 1 : FALSE
      OBVIOUS
    <3>6. c \in [1 .. 1 -> Vertices] /\ c[1] = v
      OBVIOUS
    <3> HIDE DEF c
    <3>7. IsOrder(m, c, 1)'
      BY <1>4, <3>2, <3>3, <3>4, <3>5, <3>6 DEF IsOrder
    <3>8. QED
      BY <3>5, <3>6, <3>7, OrderGiven DEF IInv
  <2>2. CASE root[m] # None
    <3>1. PICK n \in Nat : \E c \in [1 .. n -> Vertices] : IsOrder(m, c, n)
      BY <2>2 DEF MissionsInOrder, HasOrder
    <3>2. PICK c \in [1 .. n -> Vertices] : IsOrder(m, c, n)
      BY <3>1
    <3>3. PICK last \in VerticesOf(m) :
              NextVertex(last) = None /\ backbone' = backbone \cup {<<last, v>>}
      BY <2>2 DEF AddVertex
    <3>4. last \in Vertices /\ \A w \in Vertices : <<last, w>> \notin backbone
      BY <3>3, NoNextNoEdge DEF VerticesOf
    <3>5. n \in 1 .. n /\ 1 \in 1 .. n /\ \A i \in 1 .. n : i # n => i \in 1 .. n - 1
      BY <3>2 DEF IsOrder
    <3>6. \A i \in 1 .. n - 1 : i \in 1 .. n /\ i + 1 \in 1 .. n /\ i # n
      BY <3>5
    <3>7. last = c[n]
      <4>1. PICK i \in 1 .. n : c[i] = last
        BY <3>2, <3>3 DEF IsOrder, VerticesOf
      <4>2. i # n => i \in 1 .. n - 1 /\ c[i + 1] \in Vertices
        BY <3>5, <3>6
      <4>3. i # n => <<c[i], c[i + 1]>> \in backbone
        BY <3>2, <4>2 DEF IsOrder
      <4>4. QED
        BY <3>4, <4>1, <4>2, <4>3
    <3> DEFINE d == [i \in 1 .. n + 1 |-> IF i = n + 1 THEN v ELSE c[i]]
    <3>8. \A i \in 1 .. n + 1 : i = n + 1 \/ i \in 1 .. n
      BY <3>5
    <3>9. /\ n + 1 \in 1 .. n + 1 /\ n + 1 # n /\ n + 1 \in Nat \ {0} /\ n + 1 \in Nat
          /\ \A i \in 1 .. n : i \in 1 .. n + 1 /\ i # n + 1
          /\ (n + 1) - 1 = n
          /\ \A i \in 1 .. n - 1 : i + 1 # n + 1
      BY <3>5
    <3>10. /\ d \in [1 .. n + 1 -> Vertices] /\ d[n + 1] = v
           /\ \A i \in 1 .. n : d[i] = c[i]
      BY <3>8, <3>9
    <3> HIDE DEF d
    <3>11. \A i \in 1 .. n : mission[c[i]] = m /\ c[i] # v
      BY <1>1, <3>2 DEF IsOrder
    <3>12. \A i, j \in 1 .. n + 1 : d[i] = d[j] => i = j
      BY <3>2, <3>8, <3>10, <3>11 DEF IsOrder
    <3>13. d[1] = root'[m]
      <4>1. root' = root
        BY <2>2 DEF AddVertex
      <4>2. QED
        BY <3>2, <3>5, <3>10, <4>1 DEF IsOrder
    <3>14. \A u \in Vertices : mission'[u] = m <=> \E i \in 1 .. n + 1 : d[i] = u
      <4>1. \A u \in Vertices : mission'[u] = m <=> u = v \/ mission[u] = m
        BY <1>1, <1>2
      <4>2. \A u \in Vertices : mission[u] = m <=> \E i \in 1 .. n : d[i] = u
        BY <3>2, <3>10 DEF IsOrder
      <4>3. QED
        BY <3>8, <3>9, <3>10, <4>1, <4>2
    <3>15. \A i \in 1 .. n : <<d[i], d[i + 1]>> \in backbone'
      <4>1. \A i \in 1 .. n - 1 : <<d[i], d[i + 1]>> \in backbone
        BY <3>2, <3>6, <3>10 DEF IsOrder
      <4>2. <<d[n], d[n + 1]>> \in backbone'
        BY <3>3, <3>5, <3>7, <3>10
      <4>3. QED
        BY <3>3, <3>5, <4>1, <4>2
    <3>16. \A w \in Vertices : <<d[n + 1], w>> \notin backbone'
      BY <1>4, <3>3, <3>5, <3>7, <3>10, <3>11
    <3>17. IsOrder(m, d, n + 1)'
      BY <3>9, <3>10, <3>12, <3>13, <3>14, <3>15, <3>16 DEF IsOrder
    <3>18. QED
      BY <3>9, <3>10, <3>17, OrderGiven DEF IInv
  <2>3. QED
    BY <2>1, <2>2
<1>7. QED
  BY <1>5, <1>6 DEF MissionsInOrder

LEMMA MergeKeepsOrder ==
    ASSUME IInv, IInv', MissionsInOrder, NEW into \in Vertices, NEW v \in Vertices,
           MergeNeighboringVertices(into, v)
    PROVE  MissionsInOrder'
<1>0. PICK m \in Missions : m = mission[v]
  BY DEF MergeNeighboringVertices, IInv, TypeOK, InMap
<1>1. /\ mission[into] = m /\ mission[v] = m /\ into # v /\ <<into, v>> \in backbone
      /\ mission' = [mission EXCEPT ![v] = None] /\ root' = root
      /\ mission \in [Vertices -> Missions \cup {None}]
  BY <1>0 DEF MergeNeighboringVertices, IInv, TypeOK, EdgesWellFormed
<1>2. None \notin Missions
  BY VIMapAssumption
<1>3. \A u, w \in Vertices : <<u, w>> \in backbone' <=>
          \/ <<u, w>> \in backbone /\ u # v /\ w # v
          \/ u = into /\ <<v, w>> \in backbone
  BY DEF MergeNeighboringVertices, Touches, Bridged
<1>4. /\ \A d, e \in backbone : (d[1] = e[1] \/ d[2] = e[2]) => d = e
      /\ \A u, w \in Vertices : <<u, w>> \in backbone => mission[u] = mission[w]
  BY DEF IInv, EdgesWellFormed
<1>5. ASSUME NEW o \in Missions, o # m PROVE HasOrder(o)'
  <2>1. \A u \in Vertices : mission'[u] = o <=> mission[u] = o
    BY <1>1, <1>2, <1>5
  <2>2. \A u \in VerticesOf(o), w \in Vertices :
            <<u, w>> \in backbone' <=> <<u, w>> \in backbone
    BY <1>1, <1>3, <1>4, <1>5 DEF VerticesOf
  <2>3. QED
    BY <1>1, <2>1, <2>2, OrderKept DEF MissionsInOrder
<1>6. HasOrder(m)'
  <2>1. v \in VerticesOf(m)
    BY <1>1 DEF VerticesOf
  <2>2. PICK n \in Nat : \E c \in [1 .. n -> Vertices] : IsOrder(m, c, n)
    BY <1>1, <2>1 DEF MissionsInOrder, HasOrder
  <2>3. PICK c \in [1 .. n -> Vertices] : IsOrder(m, c, n)
    BY <2>2
  <2>4. /\ \A i, j \in 1 .. n : c[i] = c[j] => i = j
        /\ c[1] = root[m]
        /\ \A u \in Vertices : mission[u] = m <=> \E i \in 1 .. n : c[i] = u
        /\ \A i \in 1 .. n - 1 : <<c[i], c[i + 1]>> \in backbone
        /\ \A w \in Vertices : <<c[n], w>> \notin backbone
    BY <2>3 DEF IsOrder
  <2>5. PICK k \in 1 .. n : c[k] = into
    BY <1>1, <2>4
  <2>6. k # n
    BY <1>1, <2>4, <2>5
  <2>7. k \in 1 .. n - 1 /\ k + 1 \in 1 .. n /\ n - 1 \in Nat \ {0} /\ n - 1 \in Nat
    BY <2>6
  <2>8. c[k + 1] = v
    <3>1. <<into, c[k + 1]>> \in backbone
      BY <2>4, <2>5, <2>7
    <3>2. QED
      BY <1>1, <1>4, <3>1
  <2> DEFINE at(i) == IF i <= k THEN i ELSE i + 1
             d == [i \in 1 .. n - 1 |-> c[at(i)]]
  <2>9. \A i \in 1 .. n - 1 : at(i) \in 1 .. n /\ at(i) # k + 1
    BY <2>7
  <2>10. \A i, j \in 1 .. n - 1 : at(i) = at(j) => i = j
    BY <2>7
  <2>11. \A j \in 1 .. n : j # k + 1 => \E i \in 1 .. n - 1 : at(i) = j
    <3> TAKE j \in 1 .. n
    <3>1. CASE j <= k
      <4>1. j \in 1 .. n - 1 /\ at(j) = j
        BY <2>7, <3>1
      <4>2. QED
        BY <4>1
    <3>2. CASE j > k + 1
      <4>1. j - 1 \in 1 .. n - 1 /\ at(j - 1) = j
        BY <2>7, <3>2
      <4>2. QED
        BY <4>1
    <3>3. QED
      BY <2>7, <3>1, <3>2
  <2>12. 1 \in 1 .. n - 1 /\ at(1) = 1
    BY <2>7
  <2>13. \A i \in 1 .. (n - 1) - 1 :
             /\ i \in 1 .. n - 1 /\ i + 1 \in 1 .. n - 1
             /\ at(i) \in 1 .. n - 1 \/ i = k
             /\ i = k => at(i) = k /\ at(i + 1) = (k + 1) + 1 /\ k + 1 \in 1 .. n - 1
             /\ i # k => at(i) \in 1 .. n - 1 /\ at(i + 1) = at(i) + 1
    BY <2>7
  <2>14. d \in [1 .. n - 1 -> Vertices] /\ \A i \in 1 .. n - 1 : d[i] = c[at(i)]
    BY <2>9
  <2> HIDE DEF d
  <2>15. \A i, j \in 1 .. n - 1 : d[i] = d[j] => i = j
    BY <2>4, <2>9, <2>10, <2>14
  <2>16. d[1] = root'[m]
    BY <1>1, <2>4, <2>12, <2>14
  <2>17. \A u \in Vertices : mission'[u] = m <=> \E i \in 1 .. n - 1 : d[i] = u
    <3> TAKE u \in Vertices
    <3>1. mission'[u] = m <=> mission[u] = m /\ u # v
      BY <1>1, <1>2
    <3>2. (mission[u] = m /\ u # v) <=> \E j \in 1 .. n : j # k + 1 /\ c[j] = u
      BY <2>4, <2>7, <2>8
    <3>3. (\E j \in 1 .. n : j # k + 1 /\ c[j] = u) <=> \E i \in 1 .. n - 1 : d[i] = u
      BY <2>9, <2>11, <2>14
    <3>4. QED
      BY <3>1, <3>2, <3>3
  <2>18. \A j \in 1 .. n - 1 : c[j] \in Vertices /\ c[j + 1] \in Vertices /\ j \in 1 .. n
                               /\ j + 1 \in 1 .. n
    BY <2>7
  <2>19. \A i \in 1 .. (n - 1) - 1 : <<d[i], d[i + 1]>> \in backbone'
    <3> TAKE i \in 1 .. (n - 1) - 1
    <3>1. d[i] = c[at(i)] /\ d[i + 1] = c[at(i + 1)] /\ at(i) # k + 1 /\ at(i + 1) # k + 1
      BY <2>9, <2>13, <2>14
    <3>2. CASE i = k
      <4>1. d[i] = into /\ d[i + 1] = c[(k + 1) + 1] /\ k + 1 \in 1 .. n - 1
        BY <2>5, <2>13, <3>1, <3>2
      <4>2. <<v, c[(k + 1) + 1]>> \in backbone
        BY <2>4, <2>8, <4>1
      <4>3. QED
        BY <1>3, <2>18, <4>1, <4>2
    <3>3. CASE i # k
      <4>1. at(i) \in 1 .. n - 1 /\ at(i + 1) = at(i) + 1 /\ at(i) \in 1 .. n
            /\ at(i + 1) \in 1 .. n
        BY <2>9, <2>13, <3>3
      <4>2. <<d[i], d[i + 1]>> \in backbone
        BY <2>4, <3>1, <4>1
      <4>3. d[i] # v /\ d[i + 1] # v
        BY <2>4, <2>7, <2>8, <3>1, <4>1
      <4>4. d[i] \in Vertices /\ d[i + 1] \in Vertices
        BY <3>1, <4>1
      <4>5. QED
        BY <1>3, <4>2, <4>3, <4>4
    <3>4. QED
      BY <3>2, <3>3
  <2>20. \A w \in Vertices : <<d[n - 1], w>> \notin backbone'
    <3>1. n - 1 \in 1 .. n - 1 /\ (k = n - 1 => at(n - 1) = k /\ k + 1 = n)
          /\ (k # n - 1 => at(n - 1) = n)
      BY <2>7
    <3>2. CASE k = n - 1
      <4>1. d[n - 1] = into /\ v = c[n]
        BY <2>5, <2>8, <2>14, <3>1, <3>2
      <4>2. \A w \in Vertices : <<into, w>> \in backbone => w = v
        BY <1>1, <1>4
      <4>3. QED
        BY <1>3, <2>4, <4>1, <4>2
    <3>3. CASE k # n - 1
      <4>1. d[n - 1] = c[n] /\ n \in 1 .. n
        BY <2>7, <2>14, <3>1, <3>3
      <4>2. d[n - 1] # into /\ d[n - 1] \in Vertices
        BY <2>4, <2>5, <2>6, <4>1
      <4>3. QED
        BY <1>3, <2>4, <4>1, <4>2
    <3>4. QED
      BY <3>2, <3>3
  <2>21. IsOrder(m, d, n - 1)'
    BY <2>7, <2>14, <2>15, <2>16, <2>17, <2>19, <2>20 DEF IsOrder
  <2>22. QED
    BY <1>1, <2>7, <2>14, <2>21, OrderGiven DEF IInv
<1>7. QED
  BY <1>5, <1>6 DEF MissionsInOrder

\* Vertices of a mission that go leave the other missions in order.
LEMMA RemovalKeepsOthers ==
    ASSUME IInv, MissionsInOrder, NEW m \in Missions, NEW S \in SUBSET VerticesOf(m),
           NEW newRoot, NEW o \in Missions, o # m,
           mission' = [v \in Vertices |-> IF v \in S THEN None ELSE mission[v]],
           root' = [root EXCEPT ![m] = newRoot],
           backbone' = {e \in backbone : ~Touches(e, S)}
    PROVE  HasOrder(o)'
<1>1. root'[o] = root[o]
  BY DEF IInv, TypeOK
<1>2. \A u \in Vertices : mission'[u] = o <=> mission[u] = o
  BY VIMapAssumption DEF VerticesOf
<1>3. \A u \in VerticesOf(o), w \in Vertices :
          <<u, w>> \in backbone' <=> <<u, w>> \in backbone
  BY DEF VerticesOf, Touches, IInv, EdgesWellFormed
<1>4. QED
  BY <1>1, <1>2, <1>3, OrderKept DEF MissionsInOrder

LEMMA AbortKeepsOrder == MissionsInOrder /\ Abort => MissionsInOrder'
BY GraphKeepsOrder DEF Abort, graphVars

LEMMA RemoveMissionKeepsOrder ==
    ASSUME IInv, MissionsInOrder, NEW m \in Missions, RemoveMission(m)
    PROVE  MissionsInOrder'
<1>1. CASE Abort
  BY <1>1, AbortKeepsOrder
<1>2. CASE ~Abort
  <2>1. OnChain(m) = VerticesOf(m)
    BY VisitsAll DEF MissionsInOrder, IInv
  <2>2. /\ mission' = [v \in Vertices |-> IF v \in VerticesOf(m) THEN None ELSE mission[v]]
        /\ root' = [root EXCEPT ![m] = None]
        /\ backbone' = {e \in backbone : ~Touches(e, VerticesOf(m))}
    BY <1>2, <2>1 DEF RemoveMission, RemoveVertices
  <2>3. root'[m] = None
    BY <2>2 DEF IInv, TypeOK
  <2>4. \A v \in Vertices : mission'[v] # m
    BY <2>2, VIMapAssumption DEF VerticesOf
  <2>5. HasOrder(m)'
    BY <2>3, <2>4 DEF HasOrder, VerticesOf
  <2>6. QED
    BY <2>2, <2>5, RemovalKeepsOthers DEF MissionsInOrder
<1>3. QED
  BY <1>1, <1>2

LEMMA DropKeepsOrder ==
    ASSUME IInv, IInv', MissionsInOrder, NEW m \in Missions, NEW v \in Vertices,
           DropMapDataBeforeVertex(m, v)
    PROVE  MissionsInOrder'
<1>1. CASE Abort
  BY <1>1, AbortKeepsOrder
<1>2. CASE ~Abort
  <2>1. root[m] # None /\ OnChain(m) = VerticesOf(m) /\ EdgesWellFormed
    BY VisitsAll DEF MissionsInOrder, IInv, DropMapDataBeforeVertex, Present
  <2>2. PICK n \in Nat : \E c \in [1 .. n -> Vertices] : IsOrder(m, c, n)
    BY <2>1 DEF MissionsInOrder, HasOrder
  <2>3. PICK c \in [1 .. n -> Vertices] : IsOrder(m, c, n)
    BY <2>2
  <2>4. PICK k \in 1 .. n : c[k] = v
    BY <2>1, <2>3 DEF DropMapDataBeforeVertex, VerticesOf, IsOrder
  <2> DEFINE S == {c[i] : i \in 1 .. k - 1}
  <2>5. Before(m, v) = S
    BY <2>1, <2>3, <2>4, ChainVisits
  <2>6. \A i \in 1 .. k - 1 : i \in 1 .. n
    BY <2>4
  <2>7. S \in SUBSET VerticesOf(m)
    BY <2>3, <2>6 DEF VerticesOf, IsOrder
  <2>8. /\ mission' = [u \in Vertices |-> IF u \in S THEN None ELSE mission[u]]
        /\ root' = [root EXCEPT ![m] = v]
        /\ backbone' = {e \in backbone : ~Touches(e, S)}
    BY <1>2, <2>5 DEF DropMapDataBeforeVertex, RemoveVertices
  <2>9. \A i \in 1 .. n : c[i] \in S <=> i \in 1 .. k - 1
    BY <2>3, <2>6 DEF IsOrder
  <2> DEFINE l == n - k + 1
             at(i) == i + k - 1
             d == [i \in 1 .. l |-> c[at(i)]]
  <2>10. l \in Nat /\ l # 0 /\ 1 \in 1 .. l /\ l \in 1 .. l /\ at(1) = k /\ at(l) = n
    BY <2>4
  <2>11. \A i \in 1 .. l : at(i) \in 1 .. n /\ at(i) \notin 1 .. k - 1
    BY <2>4
  <2>12. \A i, j \in 1 .. l : at(i) = at(j) => i = j
    BY <2>4
  <2>13. \A j \in 1 .. n : j \notin 1 .. k - 1 => \E i \in 1 .. l : at(i) = j
    <3> TAKE j \in 1 .. n
    <3>1. j \notin 1 .. k - 1 => (j - k) + 1 \in 1 .. l /\ at((j - k) + 1) = j
      BY <2>4
    <3> HIDE DEF l, at
    <3>2. QED
      BY <3>1
  <2>14. \A i \in 1 .. l - 1 : /\ i \in 1 .. l /\ i + 1 \in 1 .. l
                               /\ at(i) \in 1 .. n - 1 /\ at(i + 1) = at(i) + 1
    BY <2>4
  <2>15. d \in [1 .. l -> Vertices] /\ \A i \in 1 .. l : d[i] = c[at(i)]
    BY <2>11
  <2>16. \A i \in 1 .. l : d[i] \notin S
    BY <2>9, <2>11, <2>15
  <2>17. /\ \A i, j \in 1 .. n : c[i] = c[j] => i = j
         /\ \A u \in Vertices : mission[u] = m <=> \E i \in 1 .. n : c[i] = u
         /\ \A i \in 1 .. n - 1 : <<c[i], c[i + 1]>> \in backbone
         /\ \A w \in Vertices : <<c[n], w>> \notin backbone
    BY <2>3 DEF IsOrder
  <2> HIDE DEF S, l, at, d
  <2>18. \A i, j \in 1 .. l : d[i] = d[j] => i = j
    BY <2>11, <2>12, <2>15, <2>17
  <2>19. d[1] = root'[m]
    BY <2>4, <2>8, <2>10, <2>15 DEF IInv, TypeOK
  <2>20. \A u \in Vertices : mission'[u] = m <=> \E i \in 1 .. l : d[i] = u
    <3> TAKE u \in Vertices
    <3>1. mission'[u] = m <=> mission[u] = m /\ u \notin S
      BY <2>8, VIMapAssumption
    <3>2. (mission[u] = m /\ u \notin S) <=> \E j \in 1 .. n : j \notin 1 .. k - 1 /\ c[j] = u
      BY <2>9, <2>17
    <3>3. (\E j \in 1 .. n : j \notin 1 .. k - 1 /\ c[j] = u) <=> \E i \in 1 .. l : d[i] = u
      BY <2>11, <2>13, <2>15
    <3>4. QED
      BY <3>1, <3>2, <3>3
  <2>21. \A i \in 1 .. l - 1 : <<d[i], d[i + 1]>> \in backbone'
    <3> TAKE i \in 1 .. l - 1
    <3>1. d[i] = c[at(i)] /\ d[i + 1] = c[at(i) + 1] /\ at(i) \in 1 .. n - 1
      BY <2>14, <2>15
    <3>2. <<d[i], d[i + 1]>> \in backbone /\ d[i] \notin S /\ d[i + 1] \notin S
      BY <2>14, <2>16, <2>17, <3>1
    <3>3. QED
      BY <2>8, <3>2 DEF Touches
  <2>22. \A w \in Vertices : <<d[l], w>> \notin backbone'
    BY <2>8, <2>10, <2>15, <2>17
  <2>23. IsOrder(m, d, l)'
    BY <2>10, <2>15, <2>18, <2>19, <2>20, <2>21, <2>22 DEF IsOrder
  <2>24. HasOrder(m)'
    BY <2>10, <2>15, <2>23, OrderGiven DEF IInv
  <2>25. QED
    BY <2>7, <2>8, <2>24, RemovalKeepsOthers DEF MissionsInOrder
<1>3. QED
  BY <1>1, <1>2

LEMMA DuplicateKeepsOrder ==
    ASSUME IInv, IInv', MissionsInOrder, NEW m \in Missions, NEW n \in Missions,
           DuplicateMission(m, n)
    PROVE  MissionsInOrder'
<1>1. CASE Abort
  BY <1>1, AbortKeepsOrder
<1>2. CASE ~Abort
  <2> DEFINE S == OnChain(m)
  <2>1. root[m] # None /\ root[n] = None /\ S = VerticesOf(m) /\ EdgesWellFormed
    BY VisitsAll DEF MissionsInOrder, IInv, DuplicateMission, Present
  <2>2. PICK twin \in Injections(S, Vertices \ InMap) :
          \E copy \in Injections(StoredIn(S), Landmarks \ InIndex) :
              DuplicateAs(m, n, twin, copy)
    BY <1>2 DEF DuplicateMission
  <2> DEFINE twins == {twin[v] : v \in S}
             source(w) == CHOOSE v \in S : twin[v] = w
             Edges == {e \in twins \X twins : <<source(e[1]), source(e[2])>> \in backbone}
  <2>3. /\ mission' = [v \in Vertices |-> IF v \in twins THEN n ELSE mission[v]]
        /\ root' = [root EXCEPT ![n] = twin[root[m]]]
        /\ backbone' = backbone \cup Edges
    BY <2>2 DEF DuplicateAs
  <2>4. /\ twin \in [S -> Vertices \ InMap]
        /\ \A v, w \in S : twin[v] = twin[w] => v = w
    BY <2>2 DEF Injections
  <2>5. \A v \in S : twin[v] \in twins /\ source(twin[v]) = v
    BY <2>4
  <2>6. \A w \in twins : w \in Vertices /\ w \notin InMap /\ mission[w] = None
    BY <2>4 DEF InMap
  <2>7. \A w \in twins : source(w) \in S /\ twin[source(w)] = w
    BY <2>4
  <2>8. \A u, w \in Vertices : <<u, w>> \in backbone => u \in InMap /\ w \in InMap
    BY <2>1 DEF EdgesWellFormed
  <2>9. \A u, w \in twins : <<u, w>> \in Edges <=> <<source(u), source(w)>> \in backbone
    OBVIOUS
  <2>10. \A u, w : <<u, w>> \in Edges => u \in twins /\ w \in twins
    OBVIOUS
  <2> HIDE DEF S, twins, source, Edges
  <2>11. ASSUME NEW o \in Missions, o # n PROVE HasOrder(o)'
    <3>1. root'[o] = root[o]
      BY <2>3, <2>11 DEF IInv, TypeOK
    <3>2. \A u \in Vertices : mission'[u] = o <=> mission[u] = o
      BY <2>3, <2>6, <2>11, VIMapAssumption
    <3>3. \A u \in VerticesOf(o), w \in Vertices :
              <<u, w>> \in backbone' <=> <<u, w>> \in backbone
      BY <2>3, <2>6, <2>10, VIMapAssumption DEF VerticesOf
    <3>4. QED
      BY <3>1, <3>2, <3>3, OrderKept DEF MissionsInOrder
  <2>12. HasOrder(n)'
    <3>1. PICK l \in Nat : \E c \in [1 .. l -> Vertices] : IsOrder(m, c, l)
      BY <2>1 DEF MissionsInOrder, HasOrder
    <3>2. PICK c \in [1 .. l -> Vertices] : IsOrder(m, c, l)
      BY <3>1
    <3>3. /\ l \in Nat \ {0} /\ 1 \in 1 .. l /\ l \in 1 .. l
          /\ \A i \in 1 .. l - 1 : i \in 1 .. l /\ i + 1 \in 1 .. l
      BY <3>2 DEF IsOrder
    <3>4. /\ \A i, j \in 1 .. l : c[i] = c[j] => i = j
          /\ c[1] = root[m]
          /\ \A u \in Vertices : u \in S <=> \E i \in 1 .. l : c[i] = u
          /\ \A i \in 1 .. l - 1 : <<c[i], c[i + 1]>> \in backbone
          /\ \A w \in Vertices : <<c[l], w>> \notin backbone
      BY <2>1, <3>2 DEF IsOrder, VerticesOf
    <3> DEFINE d == [i \in 1 .. l |-> twin[c[i]]]
    <3>5. \A i \in 1 .. l : c[i] \in S /\ c[i] \in Vertices
      BY <3>4
    <3>6. d \in [1 .. l -> Vertices] /\ \A i \in 1 .. l : d[i] = twin[c[i]]
      BY <2>4, <3>5
    <3> HIDE DEF d
    <3>7. \A i \in 1 .. l : d[i] \in twins /\ source(d[i]) = c[i]
      BY <2>5, <3>5, <3>6
    <3>8. \A i, j \in 1 .. l : d[i] = d[j] => i = j
      BY <3>4, <3>7
    <3>9. d[1] = root'[n]
      BY <2>3, <3>3, <3>4, <3>6 DEF IInv, TypeOK
    <3>10. \A u \in Vertices : mission'[u] = n <=> \E i \in 1 .. l : d[i] = u
      <4>1. \A u \in Vertices : mission[u] # n
        BY <2>1 DEF MissionsInOrder, HasOrder, VerticesOf
      <4>2. \A u \in Vertices : mission'[u] = n <=> u \in twins
        BY <2>3, <4>1
      <4>3. \A u \in twins : \E i \in 1 .. l : d[i] = u
        <5> TAKE u \in twins
        <5>1. source(u) \in S /\ source(u) \in Vertices /\ twin[source(u)] = u
          BY <2>1, <2>7 DEF VerticesOf
        <5>2. PICK i \in 1 .. l : c[i] = source(u)
          BY <3>4, <5>1
        <5>3. QED
          BY <3>6, <5>1, <5>2
      <4>4. QED
        BY <3>7, <4>2, <4>3
    <3>11. \A i \in 1 .. l - 1 : <<d[i], d[i + 1]>> \in backbone'
      <4> TAKE i \in 1 .. l - 1
      <4>1. <<source(d[i]), source(d[i + 1])>> \in backbone
        BY <3>3, <3>4, <3>7
      <4>2. QED
        BY <2>3, <2>9, <3>3, <3>7, <4>1
    <3>12. \A w \in Vertices : <<d[l], w>> \notin backbone'
      <4> SUFFICES ASSUME NEW w \in Vertices, <<d[l], w>> \in backbone' PROVE FALSE
        OBVIOUS
      <4>1. d[l] \in twins /\ source(d[l]) = c[l]
        BY <3>3, <3>7
      <4>2. <<d[l], w>> \in Edges /\ w \in twins
        BY <2>3, <2>6, <2>8, <2>10, <4>1
      <4>3. <<c[l], source(w)>> \in backbone /\ source(w) \in Vertices
        BY <2>1, <2>7, <2>9, <4>1, <4>2 DEF VerticesOf
      <4>4. QED
        BY <3>4, <4>3
    <3>13. IsOrder(n, d, l)'
      BY <3>3, <3>6, <3>8, <3>9, <3>10, <3>11, <3>12 DEF IsOrder
    <3>14. QED
      BY <3>6, <3>13, OrderGiven DEF IInv
  <2>13. QED
    BY <2>11, <2>12 DEF MissionsInOrder
<1>3. QED
  BY <1>1, <1>2

LEMMA StepKeepsOrder ==
    ASSUME IInv, IInv', MissionsInOrder, [Next]_vars
    PROVE  MissionsInOrder'
<1>1. ASSUME NEW m \in Missions, NEW v \in Vertices, AddVertex(m, v)
      PROVE  MissionsInOrder'
  BY <1>1, AddVertexKeepsOrder
<1>2. ASSUME NEW into \in Vertices, NEW v \in Vertices, MergeNeighboringVertices(into, v)
      PROVE  MissionsInOrder'
  BY <1>2, MergeKeepsOrder
<1>3. ASSUME NEW m \in Missions, RemoveMission(m) PROVE MissionsInOrder'
  BY <1>3, RemoveMissionKeepsOrder
<1>4. ASSUME NEW m \in Missions, NEW v \in Vertices, DropMapDataBeforeVertex(m, v)
      PROVE  MissionsInOrder'
  BY <1>4, DropKeepsOrder
<1>5. ASSUME NEW m \in Missions, NEW n \in Missions, DuplicateMission(m, n)
      PROVE  MissionsInOrder'
  BY <1>5, DuplicateKeepsOrder
<1>6. ASSUME NEW v \in Vertices, NEW w \in Vertices,
             AddLoopClosureEdge(v, w) \/ StoreFrameResource(v)
      PROVE  MissionsInOrder'
  BY <1>6, GraphKeepsOrder DEF AddLoopClosureEdge, StoreFrameResource
<1>7. ASSUME NEW l \in Landmarks, NEW o \in Landmarks, NEW k, NEW v,
             \/ AddNewLandmark(l, k) \/ Associate(k, l) \/ MergeLandmarks(l, o)
             \/ MoveLandmarkToOtherVertex(l, v) \/ RemoveLandmark(l)
      PROVE  MissionsInOrder'
  BY <1>7, GraphKeepsOrder
  DEF AddNewLandmark, Associate, MergeLandmarks, MoveLandmarkToOtherVertex,
      RemoveLandmark, graphVars
<1>8. CASE UNCHANGED vars
  BY <1>8, GraphKeepsOrder DEF vars
<1>9. CASE RemoveLoopClosureEdges
  BY <1>9, GraphKeepsOrder DEF RemoveLoopClosureEdges
<1>10. QED
  BY <1>1, <1>2, <1>3, <1>4, <1>5, <1>6, <1>7, <1>8, <1>9 DEF Next

LEMMA InitInOrder == Init => MissionsInOrder
BY VIMapAssumption DEF Init, MissionsInOrder, HasOrder, VerticesOf

-----------------------------------------------------------------------------
(* What the operations do at their limits.                                 *)

\* Vertices of one mission are removed without an abort unless missions are linked.
LEMMA RemovalAborts ==
    ASSUME NEW m \in Missions, NEW S \in SUBSET VerticesOf(m), LooksTwice(m, S)
    PROVE  MissionsLinked
<1>1. PICK l \in OrphanedBy(m, S) : Observers(l) # {}
  BY DEF LooksTwice, OrphanedBy
<1>2. PICK v \in Observers(l) : v \in S
  BY <1>1 DEF OrphanedBy
<1>3. l \in InIndex /\ mission[index[l]] # m /\ mission[v] = m
  BY <1>2 DEF OrphanedBy, VerticesOf
<1>4. QED
  BY <1>2, <1>3 DEF MissionsLinked

\* A mission is copied without an abort unless it is linked, stores a landmark that
\* nobody observes or has frame resources.
LEMMA DuplicationAborts ==
    ASSUME IInv, NEW m \in Missions, root[m] \in VerticesOf(m),
           CannotDuplicate(m, VerticesOf(m))
    PROVE  MissionsLinked \/ Unobserved # {} \/ VerticesOf(m) \cap resources # {}
<1> DEFINE S == VerticesOf(m)
<1>1. \A v \in Vertices : v \in S <=> mission[v] = m
  BY DEF VerticesOf
<1>2. ASSUME NEW e \in backbone \cup loops, (e[1] \in S) # (e[2] \in S)
      PROVE  MissionsLinked
  <2>1. e[1] \in Vertices /\ e[2] \in Vertices
    BY DEF IInv, TypeOK
  <2>2. mission[e[1]] # mission[e[2]]
    BY <1>1, <1>2, <2>1
  <2>3. e \in loops
    BY <2>2 DEF IInv, EdgesWellFormed
  <2>4. QED
    BY <2>2, <2>3 DEF MissionsLinked
<1>3. ASSUME NEW l \in StoredIn(S), ~IsPrivate(l, S)
      PROVE  MissionsLinked \/ Unobserved # {}
  <2>1. PICK u \in S : l \in stored[u]
    BY DEF StoredIn
  <2>2. l \in Landmarks /\ u \in Vertices /\ mission[u] = m
    BY <2>1 DEF IInv, TypeOK, VerticesOf
  <2>3. index[l] = u /\ l \in InIndex
    BY <2>1, <2>2, VIMapAssumption DEF IInv, Consistent, StoresAgree, InIndex
  <2>4. CASE Observers(l) = {}
    BY <2>2, <2>3, <2>4 DEF Observers, Unobserved
  <2>5. ASSUME NEW v \in Observers(l), v \notin S PROVE MissionsLinked
    <3>1. v \in Vertices
      BY <2>2, KeypointVertex DEF Observers, IInv, TypeOK
    <3>2. mission[v] # m
      BY <1>1, <2>5, <3>1
    <3>3. QED
      BY <2>2, <2>3, <3>2 DEF MissionsLinked
  <2>6. QED
    BY <1>3, <2>4, <2>5 DEF IsPrivate
<1>4. QED
  BY <1>2, <1>3 DEF CannotDuplicate

LEMMA AbortsAreLinked ==
    ASSUME IInv, MissionsInOrder, [Next]_vars, aborted' # aborted
    PROVE  \/ MissionsLinked
           \/ Unobserved # {}
           \/ /\ \E m \in Present : OnChain(m) \cap resources # {}
              /\ \A m \in Missions, v \in Vertices : ~DropMapDataBeforeVertex(m, v)
<1> DEFINE InTheWay == \E m \in Present : OnChain(m) \cap resources # {}
<1>0. ~Survives
  BY DEF Survives, IInv, TypeOK
<1>1. ASSUME NEW m \in Missions, RemoveMission(m) PROVE MissionsLinked \/ InTheWay
  <2>1. OnChain(m) = VerticesOf(m)
    BY VisitsAll DEF MissionsInOrder, IInv
  <2>2. m \in Present /\ (LooksTwice(m, VerticesOf(m)) \/ OnChain(m) \cap resources # {})
    BY <1>0, <1>1, <2>1 DEF RemoveMission, RemoveVertices
  <2>3. QED
    BY <2>2, RemovalAborts
<1>2. ASSUME NEW m \in Missions, NEW v \in Vertices, DropMapDataBeforeVertex(m, v)
      PROVE  MissionsLinked
  <2>1. OnChain(m) = VerticesOf(m)
    BY VisitsAll DEF MissionsInOrder, IInv
  <2>2. Before(m, v) \in SUBSET VerticesOf(m)
    BY <2>1 DEF Before, OnChain
  <2>3. LooksTwice(m, Before(m, v))
    BY <1>0, <1>2 DEF DropMapDataBeforeVertex, RemoveVertices
  <2>4. QED
    BY <2>2, <2>3, RemovalAborts
<1>3. ASSUME NEW m \in Missions, NEW n \in Missions, DuplicateMission(m, n)
      PROVE  MissionsLinked \/ Unobserved # {} \/ InTheWay
  <2>1. root[m] # None /\ OnChain(m) = VerticesOf(m)
    BY <1>3, VisitsAll DEF MissionsInOrder, IInv, DuplicateMission, Present
  <2>2. root[m] \in VerticesOf(m)
    BY <2>1, ChainVisits DEF MissionsInOrder, HasOrder, IInv
  <2>3. CannotDuplicate(m, VerticesOf(m))
    BY <1>0, <1>3, <2>1 DEF DuplicateMission, DuplicateAs
  <2>4. MissionsLinked \/ Unobserved # {} \/ VerticesOf(m) \cap resources # {}
    BY <2>2, <2>3, DuplicationAborts
  <2>5. m \in Present
    BY <2>1 DEF Present
  <2>6. QED
    BY <2>1, <2>4, <2>5
<1> HIDE DEF InTheWay
<1>4. MissionsLinked \/ Unobserved # {} \/ InTheWay
  BY <1>0, <1>1, <1>2, <1>3
  DEF Next, vars, AddVertex, StoreFrameResource, AddLoopClosureEdge,
      RemoveLoopClosureEdges, AddNewLandmark, Associate, MergeLandmarks,
      MoveLandmarkToOtherVertex, RemoveLandmark, MergeNeighboringVertices
<1>5. QED
  BY <1>2, <1>4 DEF InTheWay

LEMMA MergeLeavesNoOrphan ==
    ASSUME IInv, NEW into \in Vertices, NEW v \in Vertices, MergeNeighboringVertices(into, v)
    PROVE  Unobserved' \subseteq Unobserved
<1> SUFFICES ASSUME NEW l \in Landmarks, index'[l] # None, backlinks'[l] = {}
             PROVE  l \in Unobserved
  BY DEF Unobserved, InIndex
<1>1. l \notin OrphanedByMerge(v)
  BY DEF MergeNeighboringVertices
<1>2. index'[l] = IF l \in stored[v] THEN into ELSE index[l]
  BY <1>1 DEF MergeNeighboringVertices
<1>3. l \in InIndex
  BY <1>2, VIMapAssumption DEF IInv, Consistent, StoresAgree, InIndex
<1>4. backlinks[l] \subseteq Looks(v, l)
  BY <1>1 DEF MergeNeighboringVertices
<1>5. Observers(l) \ {v} = {}
  BY <1>4 DEF Observers, Looks
<1>6. Looks(v, l) = {}
  BY <1>1, <1>3, <1>5 DEF OrphanedByMerge
<1>7. QED
  BY <1>3, <1>4, <1>6 DEF Unobserved

LEMMA RemoveMissionLeavesNoOrphan ==
    ASSUME IInv, MissionsInOrder, NEW m \in Missions, RemoveMission(m)
    PROVE  Unobserved' \subseteq Unobserved
<1>1. CASE Abort
  BY <1>1 DEF Abort, landmarkVars, Unobserved, InIndex
<1>2. CASE ~Abort
  <2> DEFINE S == VerticesOf(m)
             D == StoredIn(S) \cup OrphanedBy(m, S)
  <2>1. OnChain(m) = S
    BY VisitsAll DEF MissionsInOrder, IInv
  <2>2. Forget(D, S)
    BY <1>2, <2>1 DEF RemoveMission, RemoveVertices
  <2> SUFFICES ASSUME NEW l \in Landmarks, index'[l] # None, backlinks'[l] = {}
               PROVE  l \in Unobserved
    BY DEF Unobserved, InIndex
  <2> HIDE DEF S, D
  <2>3. l \notin D /\ l \in InIndex
    BY <2>2 DEF Forget, InIndex
  <2>4. Observers(l) \subseteq S
    BY <2>2, <2>3 DEF Forget, Observers
  <2>5. index[l] \notin S
    BY <2>3 DEF D, StoredIn, IInv, Consistent, StoresAgree, InIndex, S, VerticesOf
  <2>6. mission[index[l]] # m
    BY <2>3, <2>5 DEF S, VerticesOf, IInv, TypeOK, InIndex
  <2>7. Observers(l) = {}
    BY <2>3, <2>4, <2>6 DEF D, OrphanedBy
  <2>8. QED
    BY <2>3, <2>7 DEF Unobserved, Observers
<1>3. QED
  BY <1>1, <1>2

LEMMA DuplicateLeavesNoOrphan ==
    ASSUME IInv, MissionsInOrder, NEW m \in Missions, NEW n \in Missions,
           DuplicateMission(m, n)
    PROVE  Unobserved' \subseteq Unobserved
<1>1. CASE Abort
  BY <1>1 DEF Abort, landmarkVars, Unobserved, InIndex
<1>2. CASE ~Abort
  <2> DEFINE S == OnChain(m)
  <2>1. PICK twin \in Injections(S, Vertices \ InMap),
             copy \in Injections(StoredIn(S), Landmarks \ InIndex) :
                 DuplicateAs(m, n, twin, copy)
    BY <1>2 DEF DuplicateMission
  <2>2. \A o \in StoredIn(S) : Observers(o) # {} /\ Observers(o) \subseteq S
    BY <1>2 DEF DuplicateMission, CannotDuplicate, IsPrivate
  <2> DEFINE twins == {twin[v] : v \in S}
             copies == {copy[l] : l \in DOMAIN copy}
             source(w) == CHOOSE v \in S : twin[v] = w
             original(l) == CHOOSE o \in DOMAIN copy : copy[o] = l
             Links(l) == {k \in AllKeypoints :
                             k[1] \in twins /\ <<source(k[1]), k[2]>> \in backlinks[l]}
  <2>3. /\ index' = [l \in Landmarks |-> IF l \in copies THEN twin[index[original(l)]]
                                         ELSE index[l]]
        /\ backlinks' = [l \in Landmarks |->
                             CASE l \in copies      -> Links(original(l))
                               [] l \in DOMAIN copy -> backlinks[l]
                               [] OTHER             -> backlinks[l] \cup Links(l)]
    BY <2>1 DEF DuplicateAs
  <2>4. /\ \A v \in S : twin[v] \in twins /\ twin[v] \in Vertices /\ source(twin[v]) = v
        /\ DOMAIN copy = StoredIn(S)
        /\ \A l \in copies : original(l) \in StoredIn(S) /\ l \notin InIndex
    BY <2>1 DEF Injections
  <2>5. StoredIn(S) \subseteq InIndex
    BY VIMapAssumption
    DEF StoredIn, OnChain, InIndex, IInv, TypeOK, Consistent, StoresAgree
  <2> HIDE DEF S, twins, copies, source, original
  <2>6. ASSUME NEW l \in copies PROVE Links(original(l)) # {}
    <3> DEFINE o == original(l)
    <3>1. o \in StoredIn(S) /\ o \in Landmarks
      BY <2>4 DEF StoredIn, S, OnChain, IInv, TypeOK
    <3>2. PICK k \in backlinks[o] : k[1] \in S
      BY <2>2, <3>1 DEF Observers
    <3>3. k \in AllKeypoints /\ k[2] \in Keypoints /\ k = <<k[1], k[2]>>
      BY <3>1, <3>2, KeypointVertex DEF IInv, TypeOK
    <3> DEFINE j == <<twin[k[1]], k[2]>>
    <3>4. j \in AllKeypoints /\ j[1] \in twins /\ <<source(j[1]), j[2]>> = k
      BY <2>4, <3>2, <3>3 DEF AllKeypoints
    <3>5. j \in Links(o)
      BY <3>2, <3>4
    <3>6. QED
      BY <3>5
  <2>7. QED
    <3> SUFFICES ASSUME NEW l \in Landmarks, index'[l] # None, backlinks'[l] = {}
                 PROVE  l \in Unobserved
      BY DEF Unobserved, InIndex
    <3> HIDE DEF Links
    <3>1. l \notin copies
      <4>1. ASSUME l \in copies PROVE backlinks'[l] = Links(original(l))
        BY <2>5, <2>3, <2>4, <4>1
      <4>2. QED
        BY <2>6, <4>1
    <3>2. index'[l] = index[l] /\ backlinks[l] \subseteq backlinks'[l]
      BY <2>3, <3>1
    <3>3. QED
      BY <3>2 DEF Unobserved, InIndex
<1>3. QED
  BY <1>1, <1>2

LEMMA NoOrphanIsLeft ==
    ASSUME IInv, MissionsInOrder, [Next]_vars,
           ~\E m \in Missions, v \in Vertices : DropMapDataBeforeVertex(m, v)
    PROVE  Unobserved' \subseteq Unobserved
<1> USE DEF Unobserved, InIndex
<1>1. ASSUME NEW l \in Landmarks, NEW k, AddNewLandmark(l, k) \/ Associate(k, l)
      PROVE  Unobserved' \subseteq Unobserved
  <2>1. backlinks'[l] # {}
    <3>1. CASE AddNewLandmark(l, k)
      <4>1. backlinks'[l] = {k}
        BY <3>1 DEF AddNewLandmark, IInv, TypeOK
      <4>2. QED
        BY <4>1
    <3>2. CASE Associate(k, l)
      <4>1. backlinks'[l] = backlinks[l] \cup {k}
        BY <3>2 DEF Associate, IInv, TypeOK
      <4>2. QED
        BY <4>1
    <3>3. QED
      BY <1>1, <3>1, <3>2
  <2>2. \A o \in Landmarks \ {l} : index'[o] = index[o] /\ backlinks'[o] = backlinks[o]
    BY <1>1 DEF AddNewLandmark, Associate, IInv, TypeOK
  <2>3. QED
    BY <2>1, <2>2
<1>2. ASSUME NEW from \in Landmarks, NEW into \in Landmarks, MergeLandmarks(from, into)
      PROVE  Unobserved' \subseteq Unobserved
  BY <1>2 DEF MergeLandmarks, IInv, TypeOK
<1>3. ASSUME NEW l \in Landmarks, NEW v, MoveLandmarkToOtherVertex(l, v)
      PROVE  Unobserved' \subseteq Unobserved
  BY <1>3 DEF MoveLandmarkToOtherVertex, IInv, TypeOK
<1>4. ASSUME NEW l \in Landmarks, RemoveLandmark(l)
      PROVE  Unobserved' \subseteq Unobserved
  BY <1>4 DEF RemoveLandmark, Forget, IInv, TypeOK
<1>5. ASSUME UNCHANGED landmarkVars PROVE Unobserved' \subseteq Unobserved
  BY <1>5 DEF landmarkVars
<1>6. ASSUME NEW m, NEW v, NEW w,
             AddVertex(m, v) \/ AddLoopClosureEdge(v, w) \/ StoreFrameResource(v)
      PROVE  UNCHANGED landmarkVars
  BY <1>6 DEF AddVertex, AddLoopClosureEdge, StoreFrameResource
<1>7. CASE UNCHANGED vars
  BY <1>7 DEF vars
<1>8. CASE RemoveLoopClosureEdges
  BY <1>8 DEF RemoveLoopClosureEdges, landmarkVars
<1> HIDE DEF Unobserved, InIndex
<1>9. QED
  BY <1>1, <1>2, <1>3, <1>4, <1>5, <1>6, <1>7, <1>8, MergeLeavesNoOrphan,
     RemoveMissionLeavesNoOrphan, DuplicateLeavesNoOrphan
  DEF Next

-----------------------------------------------------------------------------
(* The theorems.                                                           *)

LEMMA StepCorrect ==
    ASSUME IInv, [Next]_vars
    PROVE  IInv'
<1>1. CASE UNCHANGED vars
  <2> USE <1>1 DEF IInv, vars
  <2>1. TypeOK'
    BY DEF TypeOK
  <2>2. Consistent'
    BY DEF Consistent, StoresAgree, LinksAgree, NothingDangles
  <2>3. EdgesWellFormed'
    BY EdgesKept DEF GraphKept
  <2>4. QED
    BY <2>1, <2>2, <2>3
<1>2. CASE Next
  <2>1. ASSUME NEW m \in Missions, NEW v \in Vertices, AddVertex(m, v)
        PROVE  IInv'
    BY <2>1, AddVertexCorrect
  <2>2. ASSUME NEW v \in Vertices, NEW w \in Vertices, AddLoopClosureEdge(v, w)
        PROVE  IInv'
    BY <2>2, AddLoopClosureEdgeCorrect
  <2>3. CASE RemoveLoopClosureEdges
    BY <2>3, RemoveLoopClosureEdgesCorrect
  <2>4. ASSUME NEW l \in Landmarks, NEW k \in AllKeypoints,
               AddNewLandmark(l, k) \/ Associate(k, l)
        PROVE  IInv'
    BY <2>4, AddNewLandmarkCorrect, AssociateCorrect
  <2>5. ASSUME NEW from \in Landmarks, NEW into \in Landmarks,
               MergeLandmarks(from, into)
        PROVE  IInv'
    BY <2>5, MergeLandmarksCorrect
  <2>6. ASSUME NEW l \in Landmarks, NEW v \in Vertices,
               MoveLandmarkToOtherVertex(l, v)
        PROVE  IInv'
    BY <2>6, MoveLandmarkCorrect
  <2>7. ASSUME NEW l \in Landmarks, RemoveLandmark(l)
        PROVE  IInv'
    BY <2>7, RemoveLandmarkCorrect
  <2>8. ASSUME NEW into \in Vertices, NEW v \in Vertices,
               MergeNeighboringVertices(into, v)
        PROVE  IInv'
    BY <2>8, MergeNeighboringVerticesCorrect
  <2>9. ASSUME NEW m \in Missions, RemoveMission(m)
        PROVE  IInv'
    BY <2>9, RemoveMissionCorrect
  <2>10. ASSUME NEW m \in Missions, NEW v \in Vertices,
                DropMapDataBeforeVertex(m, v)
         PROVE  IInv'
    BY <2>10, DropMapDataBeforeVertexCorrect
  <2>11. ASSUME NEW m \in Missions, NEW n \in Missions, DuplicateMission(m, n)
         PROVE  IInv'
    BY <2>11, DuplicateMissionCorrect
  <2>12. ASSUME NEW v \in Vertices, StoreFrameResource(v)
         PROVE  IInv'
    BY <2>12, StoreFrameResourceCorrect
  <2>13. QED
    BY <1>2, <2>1, <2>2, <2>3, <2>4, <2>5, <2>6, <2>7, <2>8, <2>9, <2>10, <2>11, <2>12
    DEF Next
<1>3. QED
  BY <1>1, <1>2

\* The values of the variables stay what they are declared to be.
THEOREM TypeCorrect == Spec => []TypeOK
<1>1. Spec => []IInv
  BY InitCorrect, StepCorrect, PTL DEF Spec
<1>2. IInv => TypeOK
  BY DEF IInv
<1>3. QED
  BY <1>1, <1>2, PTL

\* What checkMapConsistency asks of the landmarks holds after every operation:
\* the index, the stores, the backlinks and the keypoints agree, and none of
\* them refers to something that has been removed.
THEOREM LandmarksConsistent == Spec => []Consistent
<1>1. Spec => []IInv
  BY InitCorrect, StepCorrect, PTL DEF Spec
<1>2. IInv => Consistent
  BY DEF IInv
<1>3. QED
  BY <1>1, <1>2, PTL

\* What getNextVertex and checkPosegraphConsistency ask of single edges holds
\* after every operation.
THEOREM EdgesCorrect == Spec => []EdgesWellFormed
<1>1. Spec => []IInv
  BY InitCorrect, StepCorrect, PTL DEF Spec
<1>2. IInv => EdgesWellFormed
  BY DEF IInv
<1>3. QED
  BY <1>1, <1>2, PTL

\* Every mission that has a root has an order of its vertices along the backbone.
THEOREM InOrder == Spec => [](IInv /\ MissionsInOrder)
<1>1. Init => IInv /\ MissionsInOrder
  BY InitCorrect, InitInOrder
<1>2. IInv /\ MissionsInOrder /\ [Next]_vars => IInv' /\ MissionsInOrder'
  BY StepCorrect, StepKeepsOrder
<1>3. QED
  BY <1>1, <1>2, PTL DEF Spec

\* The traversal of a mission visits all of its vertices, each once, whatever has been
\* appended, merged, dropped, removed and copied before.
THEOREM MissionsStayChains == Spec => []BackboneIsChain
<1>1. IInv /\ MissionsInOrder => BackboneIsChain
  BY OrderMakesChain
<1>2. QED
  BY <1>1, InOrder, PTL

\* No operation ends the process unless missions share a landmark or an edge, a landmark
\* is observed from nowhere, or the frames of a mission have resources; the last is no
\* reason for dropMapDataBeforeVertex, which deletes them before it removes a vertex.
THEOREM AbortsNeedLinks == Spec => AbortNeedsLink
<1>1. IInv /\ MissionsInOrder /\ [Next]_vars =>
          [aborted' # aborted =>
              \/ MissionsLinked
              \/ Unobserved # {}
              \/ /\ \E m \in Present : OnChain(m) \cap resources # {}
                 /\ \A m \in Missions, v \in Vertices :
                        ~DropMapDataBeforeVertex(m, v)]_vars
  BY AbortsAreLinked
<1>2. QED
  BY <1>1, InOrder, PTL DEF Spec, AbortNeedsLink

\* No operation but dropMapDataBeforeVertex leaves a landmark behind that nobody observes
\* any more.
THEOREM NoOrphans == Spec => OrphansRemoved
<1>1. IInv /\ MissionsInOrder /\ [Next]_vars =>
          [\/ Unobserved' \subseteq Unobserved
           \/ \E m \in Missions, v \in Vertices : DropMapDataBeforeVertex(m, v)]_vars
  BY NoOrphanIsLeft
<1>2. QED
  BY <1>1, InOrder, PTL DEF Spec, OrphansRemoved

-----------------------------------------------------------------------------
(* The queries: their part of the invariant.                               *)

Early == {"find", "read", "resolve", "ransac"}

\* The part of LCTypeOK that tells that a match names a keypoint of the map, and
\* that a query that merges has an inlier to merge.
QueryInv ==
    /\ pc \in [Queries -> Steps]
    /\ matches \in [Queries -> Seq(AllKeypoints \X Database)]
    /\ inliers \in [Queries -> Seq(Nat)]
    /\ handled \in [Queries -> Nat]
    /\ \A v \in Queries :
           /\ \A n \in 1 .. Len(inliers[v]) :
                  inliers[v][n] \in 1 .. Len(matches[v])
           /\ pc[v] \in Early => inliers[v] = <<>> /\ handled[v] = 0
           /\ pc[v] \in {"merge", "associate"} => handled[v] < Len(inliers[v])

-----------------------------------------------------------------------------
LEMMA SeqOfFunction ==
    ASSUME NEW S, NEW n \in Nat, NEW f \in [1 .. n -> S]
    PROVE  f \in Seq(S) /\ Len(f) = n
BY IsASeq, LenProperties

LEMMA LCInitCorrect == LCInit => IInv /\ QueryInv
<1> SUFFICES ASSUME LCInit PROVE IInv /\ QueryInv
  OBVIOUS
<1>1. IInv
  BY DEF LCInit, IInv, BackboneIsChain
<1>2. QueryInv
  BY DEF LCInit, QueryInv, Steps, Early
<1>3. QED
  BY <1>1, <1>2

-----------------------------------------------------------------------------
(* A step of a query is one of VIMap, fails a CHECK, or leaves the map.    *)

MapStep == [Next]_vars \/ Abort

\* An inlier of a query that merges is a match of a keypoint of the map.
LEMMA InlierIsMatch ==
    ASSUME QueryInv, NEW v \in Queries, pc[v] \in {"merge", "associate"}
    PROVE  /\ Inlier(v) \in 1 .. Len(matches[v])
           /\ Keypoint(v, Inlier(v)) \in AllKeypoints
<1>1. handled[v] + 1 \in 1 .. Len(inliers[v])
  BY DEF QueryInv
<1>2. Inlier(v) \in 1 .. Len(matches[v])
  BY <1>1 DEF QueryInv, Inlier
<1>3. matches[v][Inlier(v)] \in AllKeypoints \X Database
  BY <1>2, ElementOfSeq DEF QueryInv
<1>4. QED
  BY <1>2, <1>3 DEF Keypoint

LEMMA StepOfMap ==
    ASSUME QueryInv, LCNext
    PROVE  MapStep
<1>1. PICK v \in Queries : QueryStep(v)
  BY DEF LCNext
<1>2. CASE Find(v) \/ Read(v) \/ Ransac(v)
  BY <1>2 DEF Find, Read, Ransac, MapStep, vars
<1>3. CASE Resolve(v)
  BY <1>3 DEF Resolve, MapStep, vars
<1>4. CASE AddEdge(v)
  <2>1. \/ Abort
        \/ UNCHANGED vars
        \/ \E w \in InMap : AddLoopClosureEdge(w, v)
    BY <1>4 DEF AddEdge, AddLoopClosureEdge
  <2>2. ASSUME NEW w, AddLoopClosureEdge(w, v) PROVE Next
    <3>1. w \in Vertices /\ v \in Vertices
      BY <2>2 DEF AddLoopClosureEdge, InMap
    <3>2. QED
      BY <2>2, <3>1 DEF Next
  <2>3. QED
    BY <2>1, <2>2 DEF MapStep, vars
<1>5. CASE Merge(v)
  <2>1. \/ UNCHANGED vars
        \/ Abort
        \/ \E from, into \in Landmarks : MergeLandmarks(from, into)
    BY <1>5 DEF Merge, InIndex
  <2>2. QED
    BY <2>1 DEF MapStep, Next
<1>6. CASE AssociateInlier(v)
  <2>1. Keypoint(v, Inlier(v)) \in AllKeypoints
    BY <1>6, InlierIsMatch DEF AssociateInlier, At
  <2>2. \/ UNCHANGED vars
        \/ Abort
        \/ \E k \in AllKeypoints, l \in Landmarks : Associate(k, l)
    BY <1>6, <2>1 DEF AssociateInlier, InIndex
  <2>3. QED
    BY <2>2 DEF MapStep, Next
<1>7. QED
  BY <1>1, <1>2, <1>3, <1>4, <1>5, <1>6 DEF QueryStep

LEMMA MapStaysCorrect ==
    ASSUME IInv, MapStep
    PROVE  IInv'
BY StepCorrect, AbortCorrect DEF MapStep

-----------------------------------------------------------------------------
(* The queries keep their books.                                           *)

\* Advance goes to the next inlier or, with the last, to the next step.
LEMMA AdvanceCorrect ==
    ASSUME QueryInv, NEW v \in Queries, NEW step \in {"associate", "done"},
           pc[v] \in {"merge", "associate"}, Advance(v, step),
           step = "associate" => Len(inliers[v]) > 0,
           UNCHANGED <<matches, inliers>>
    PROVE  QueryInv'
<1>1. pc' \in [Queries -> Steps]
  BY DEF Advance, Goto, QueryInv, Steps
<1>2. handled' \in [Queries -> Nat]
  <2>1. handled \in [Queries -> Nat] /\ handled[v] + 1 \in Nat
    BY DEF QueryInv
  <2>2. \/ handled' = [handled EXCEPT ![v] = handled[v] + 1]
        \/ handled' = [handled EXCEPT ![v] = 0]
    BY DEF Advance
  <2>3. QED
    BY <2>1, <2>2
<1> USE DEF QueryInv, Steps, Early
<1>3. ASSUME NEW u \in Queries
      PROVE  /\ pc'[u] \in Early => inliers'[u] = <<>> /\ handled'[u] = 0
             /\ pc'[u] \in {"merge", "associate"}
                    => handled'[u] < Len(inliers'[u])
  <2>1. CASE u # v
    BY <2>1 DEF Advance, Goto
  <2>2. CASE u = v
    BY <2>2 DEF Advance, Goto
  <2>3. QED
    BY <2>1, <2>2
<1>4. QED
  BY <1>1, <1>2, <1>3

LEMMA FindKeeps ==
    ASSUME QueryInv, NEW v \in Queries, Find(v)
    PROVE  QueryInv'
<1> USE DEF QueryInv, Steps, Early
<1>0. PICK n \in 0 .. MaxMatches :
          \E found \in [1 .. n -> Matches(v)] :
              /\ matches' = [matches EXCEPT ![v] = found]
              /\ Goto(v, IF n = 0 THEN "done" ELSE "read")
  BY DEF Find
<1>1. PICK found \in [1 .. n -> Matches(v)] :
          /\ matches' = [matches EXCEPT ![v] = found]
          /\ Goto(v, IF n = 0 THEN "done" ELSE "read")
  BY <1>0
<1>2. found \in Seq(Matches(v))
  BY SeqOfFunction, LoopClosureAssumption
<1>3. Matches(v) \subseteq AllKeypoints \X Database
  BY DEF Matches, KeypointsOf
<1>4. found \in Seq(AllKeypoints \X Database)
  BY <1>2, <1>3, SeqMonotonic
<1>5. matches' \in [Queries -> Seq(AllKeypoints \X Database)]
  BY <1>1, <1>4
<1>6. pc' \in [Queries -> Steps]
  BY <1>1 DEF Goto
<1>7. \A u \in Queries \ {v} : matches'[u] = matches[u] /\ pc'[u] = pc[u]
  BY <1>1 DEF Goto
<1>8. inliers[v] = <<>> /\ handled[v] = 0 /\ pc'[v] \in {"done", "read"}
  BY <1>1 DEF Find, At, Goto
<1>9. inliers' = inliers /\ handled' = handled
  BY DEF Find
<1>10. QED
  BY <1>5, <1>6, <1>7, <1>8, <1>9, SMTT(20)

LEMMA RansacKeeps ==
    ASSUME QueryInv, NEW v \in Queries, Ransac(v)
    PROVE  QueryInv'
<1> USE DEF QueryInv, Steps, Early
<1>1. CASE Goto(v, "done") /\ UNCHANGED <<inliers, mapMutex>>
  BY <1>1 DEF Ransac, Goto
<1>2. ASSUME NEW n \in DOMAIN matches[v],
             NEW kept \in [1 .. n -> DOMAIN matches[v]],
             inliers' = [inliers EXCEPT ![v] = kept],
             Goto(v, IF insertEdges THEN "edge" ELSE "merge")
      PROVE  QueryInv'
  <2>1. n \in Nat /\ n > 0 /\ DOMAIN matches[v] = 1 .. Len(matches[v])
    BY LenProperties
  <2>2. /\ kept \in Seq(Nat) /\ Len(kept) = n
        /\ \A i \in 1 .. n : kept[i] \in 1 .. Len(matches[v])
    BY <1>2, <2>1, SeqOfFunction
  <2>3. QED
    BY <1>2, <2>1, <2>2 DEF Ransac, Goto, At
<1>3. QED
  BY <1>1, <1>2 DEF Ransac

LEMMA QueryStaysCorrect ==
    ASSUME QueryInv, [LCNext]_lcVars
    PROVE  QueryInv'
<1>1. CASE UNCHANGED lcVars
  BY <1>1 DEF QueryInv, lcVars, queryVars
<1>2. ASSUME NEW v \in Queries, QueryStep(v) PROVE QueryInv'
  <2>1. CASE Find(v)
    BY <2>1, FindKeeps
  <2>2. CASE Read(v) \/ Resolve(v) \/ AddEdge(v)
    BY <2>2 DEF QueryInv, Steps, Early, Read, Resolve, AddEdge, At, Goto
  <2>3. CASE Ransac(v)
    BY <2>3, RansacKeeps
  <2>4. CASE Merge(v)
    BY <2>4, AdvanceCorrect DEF Merge, At, QueryInv
  <2>5. CASE AssociateInlier(v)
    BY <2>5, AdvanceCorrect DEF AssociateInlier, At
  <2>6. QED
    BY <1>2, <2>1, <2>2, <2>3, <2>4, <2>5 DEF QueryStep
<1>3. QED
  BY <1>1, <1>2 DEF LCNext

-----------------------------------------------------------------------------
(* The table of past merges.                                               *)

\* A table of merges that leads every landmark to a final one, depth merges away.
Leads(table, final, depth) ==
    /\ table \in [Landmarks -> Landmarks \cup {None}]
    /\ final \in [Landmarks -> Landmarks]
    /\ depth \in [Landmarks -> Nat]
    /\ \A l \in Landmarks :
           /\ table[l] = None => final[l] = l /\ depth[l] = 0
           /\ table[l] # None => /\ final[l] = final[table[l]]
                                 /\ depth[l] = depth[table[l]] + 1
           /\ depth[l] <= Cardinality({x \in Landmarks : table[x] # None})
IsTable(table) == \E final, depth : Leads(table, final, depth)

\* AfterMerges, of any table.
Follows(table, l, f) ==
    f = [i \in 0 .. Cardinality(Landmarks) |->
            IF i = 0 THEN l
            ELSE IF table[f[i - 1]] = None THEN f[i - 1]
            ELSE table[f[i - 1]]]
After(table, l) == (CHOOSE f : Follows(table, l, f))[Cardinality(Landmarks)]

LEMMA AfterMergesIs ==
    /\ \A l : AfterMerges(l) = After(oldToNew, l)
    /\ \A l : AfterMerges(l)' = After(oldToNew', l)
<1>1. \A l : AfterMerges(l) = After(oldToNew, l)
  BY DEF AfterMerges, After, Follows
<1>2. \A l : AfterMerges(l)' = After(oldToNew', l)
  BY DEF AfterMerges, After, Follows
<1>3. QED
  BY <1>1, <1>2

\* A set of numbers that has 0, and with each number the next one, has all up to n.
LEMMA UpFromZero ==
    ASSUME NEW n \in Nat, NEW T, 0 \in T,
           \A i \in 0 .. n - 1 : i \in T => i + 1 \in T
    PROVE  \A i \in 0 .. n : i \in T
<1> DEFINE M == {i \in 0 .. n : i \notin T}
<1>1. SUFFICES ASSUME M # {} PROVE FALSE
  OBVIOUS
<1>2. PICK x \in M : \A y \in M : ~(y < x)
  <2>1. M \in SUBSET Nat
    OBVIOUS
  <2> HIDE DEF M
  <2>2. QED
    BY <1>1, <2>1, LeastNumber
<1>3. x \in 0 .. n /\ x # 0 /\ x \notin T
  OBVIOUS
<1>4. x - 1 \in 0 .. n - 1 /\ x - 1 \in 0 .. n /\ x - 1 < x /\ (x - 1) + 1 = x
  BY <1>3
<1>5. x - 1 \in T
  BY <1>2, <1>4
<1>6. QED
  BY <1>3, <1>4, <1>5

\* A landmark can be followed through any table.
LEMMA CanFollow ==
    ASSUME NEW table, NEW l, Cardinality(Landmarks) \in Nat
    PROVE  \E f : Follows(table, l, f)
<1> DEFINE N == Cardinality(Landmarks)
           G(f, i) == IF i = 0 THEN l
                      ELSE IF table[f[i - 1]] = None THEN f[i - 1]
                      ELSE table[f[i - 1]]
           T == {n \in 0 .. N : \E f : f = [i \in 0 .. n |-> G(f, i)]}
<1>1. 0 \in T
  <2> DEFINE f == [i \in 0 .. 0 |-> l]
  <2>1. \A i \in 0 .. 0 : i = 0
    OBVIOUS
  <2>2. f = [i \in 0 .. 0 |-> G(f, i)]
    BY <2>1
  <2>3. 0 \in 0 .. N
    OBVIOUS
  <2>4. QED
    BY <2>2, <2>3
<1>2. ASSUME NEW n \in 0 .. N - 1, n \in T PROVE n + 1 \in T
  <2>1. PICK f : f = [i \in 0 .. n |-> G(f, i)]
    BY <1>2
  <2> DEFINE next == IF table[f[n]] = None THEN f[n] ELSE table[f[n]]
             g == [i \in 0 .. n + 1 |-> IF i = n + 1 THEN next ELSE f[i]]
  <2>2. n + 1 \in 0 .. N /\ n \in Nat
    OBVIOUS
  <2>3. \A i \in 0 .. n : f[i] = G(f, i)
    BY <2>1
  <2>4. ASSUME NEW i \in 0 .. n + 1 PROVE g[i] = G(g, i)
    <3>1. CASE i = n + 1
      <4>1. g[n] = f[n] /\ i # 0 /\ i - 1 = n
        BY <2>2, <3>1
      <4>2. QED
        BY <3>1, <4>1
    <3>2. CASE i # n + 1 /\ i # 0
      <4>1. i \in 0 .. n /\ i - 1 \in 0 .. n + 1 /\ i - 1 # n + 1
        BY <2>2, <3>2
      <4>2. g[i] = f[i] /\ g[i - 1] = f[i - 1]
        BY <3>2, <4>1
      <4>3. QED
        BY <2>3, <4>1, <4>2
    <3>3. CASE i = 0
      <4>1. i \in 0 .. n /\ i # n + 1
        BY <2>2, <3>3
      <4>2. QED
        BY <2>3, <3>3, <4>1
    <3>4. QED
      BY <3>1, <3>2, <3>3
  <2>5. g = [i \in 0 .. n + 1 |-> G(g, i)]
    <3> HIDE DEF G
    <3>1. g = [i \in 0 .. n + 1 |-> g[i]]
      OBVIOUS
    <3> HIDE DEF g
    <3>2. QED
      BY <2>4, <3>1
  <2> HIDE DEF g
  <2>6. QED
    BY <2>2, <2>5
<1>3. N \in T
  <2> HIDE DEF T
  <2>1. QED
    BY <1>1, <1>2, UpFromZero
<1>4. QED
  BY <1>3 DEF Follows

\* AfterMerges ends, and where: the number of merges is enough.
LEMMA AfterIsFinal ==
    ASSUME IsFiniteSet(Landmarks), NEW table, NEW final, NEW depth,
           Leads(table, final, depth), NEW l \in Landmarks
    PROVE  /\ After(table, l) = final[l]
           /\ final[l] \in Landmarks
           /\ table[final[l]] = None
<1> DEFINE N == Cardinality(Landmarks)
           f == CHOOSE f : Follows(table, l, f)
<1>1. N \in Nat
  BY FS_CardinalityType
<1>2. Follows(table, l, f)
  BY <1>1, CanFollow
<1> HIDE DEF f
<1>3. /\ f[0] = l
      /\ \A i \in 0 .. N - 1 : f[i + 1] = IF table[f[i]] = None THEN f[i]
                                          ELSE table[f[i]]
  <2>1. \A i \in 0 .. N : f[i] = IF i = 0 THEN l
                                 ELSE IF table[f[i - 1]] = None THEN f[i - 1]
                                 ELSE table[f[i - 1]]
    BY <1>2 DEF Follows
  <2>2. /\ 0 \in 0 .. N
        /\ \A i \in 0 .. N - 1 : i + 1 \in 0 .. N /\ i + 1 # 0 /\ (i + 1) - 1 = i
    BY <1>1
  <2>3. QED
    BY <2>1, <2>2
<1> DEFINE T == {i \in 0 .. N : /\ f[i] \in Landmarks
                                /\ final[f[i]] = final[l]
                                /\ depth[f[i]] = 0 \/ depth[f[i]] + i = depth[l]}
<1>4. 0 \in T
  <2>1. depth[l] \in Nat /\ 0 \in 0 .. N
    BY <1>1 DEF Leads
  <2>2. QED
    BY <1>3, <2>1
<1>5. ASSUME NEW i \in 0 .. N - 1, i \in T PROVE i + 1 \in T
  <2>1. i + 1 \in 0 .. N /\ i \in Nat
    BY <1>1
  <2>2. f[i] \in Landmarks /\ depth[f[i]] \in Nat /\ depth[l] \in Nat
    BY <1>5 DEF Leads
  <2>3. CASE table[f[i]] = None
    <3>1. f[i + 1] = f[i] /\ depth[f[i]] = 0
      BY <1>3, <2>2, <2>3 DEF Leads
    <3>2. QED
      BY <1>5, <2>1, <3>1
  <2>4. CASE table[f[i]] # None
    <3>0. f[i + 1] = table[f[i]]
      BY <1>3, <2>4
    <3>1. /\ f[i + 1] \in Landmarks
          /\ final[f[i]] = final[f[i + 1]]
          /\ depth[f[i]] = depth[f[i + 1]] + 1
          /\ depth[f[i + 1]] \in Nat
      <4> DEFINE x == f[i]
                 y == f[i + 1]
      <4>1. x \in Landmarks /\ table[x] # None /\ y = table[x]
        BY <2>2, <2>4, <3>0
      <4> HIDE DEF x, y
      <4>2. /\ y \in Landmarks
            /\ final[x] = final[y]
            /\ depth[x] = depth[y] + 1
            /\ depth[y] \in Nat
        BY <4>1 DEF Leads
      <4>3. QED
        BY <4>2 DEF x, y
    <3>2. depth[f[i]] # 0 /\ depth[f[i + 1]] + (i + 1) = depth[f[i]] + i
      BY <2>1, <3>1
    <3>3. QED
      BY <1>5, <2>1, <3>1, <3>2
  <2>5. QED
    BY <2>3, <2>4
<1>6. N \in T
  <2> HIDE DEF T
  <2>1. QED
    BY <1>1, <1>4, <1>5, UpFromZero
<1>7. depth[l] \in Nat /\ depth[l] <= N
  <2> DEFINE gone == {x \in Landmarks : table[x] # None}
  <2>1. Cardinality(gone) \in Nat /\ Cardinality(gone) <= N
    BY FS_Subset, FS_CardinalityType
  <2>2. depth[l] \in Nat /\ depth[l] <= Cardinality(gone)
    BY DEF Leads
  <2> HIDE DEF gone
  <2>3. QED
    BY <1>1, <2>1, <2>2
<1>8. f[N] \in Landmarks /\ final[f[N]] = final[l] /\ depth[f[N]] \in Nat
  BY <1>6 DEF Leads
<1>9. depth[f[N]] = 0
  <2>1. depth[f[N]] = 0 \/ depth[f[N]] + N = depth[l]
    BY <1>6
  <2>2. QED
    BY <1>1, <1>7, <1>8, <2>1
<1>10. table[f[N]] = None
  <2>1. SUFFICES ASSUME table[f[N]] # None PROVE FALSE
    OBVIOUS
  <2>2. depth[f[N]] = depth[table[f[N]]] + 1 /\ depth[table[f[N]]] \in Nat
    BY <1>8, <2>1 DEF Leads
  <2>3. QED
    BY <1>9, <2>2
<1>11. final[l] = f[N]
  BY <1>8, <1>10 DEF Leads
<1>12. After(table, l) = f[N]
  BY DEF After, f
<1>13. QED
  BY <1>8, <1>10, <1>11, <1>12

\* Where the table leads, and that it leads no further.
LEMMA TableLeads ==
    ASSUME IsFiniteSet(Landmarks), NEW table, IsTable(table), NEW l \in Landmarks
    PROVE  /\ After(table, l) \in Landmarks
           /\ table[After(table, l)] = None
           /\ table[l] = None => After(table, l) = l
           /\ After(table, After(table, l)) = After(table, l)
<1>1. PICK final, depth : Leads(table, final, depth)
  BY DEF IsTable
<1>2. \A x \in Landmarks : /\ After(table, x) = final[x]
                           /\ final[x] \in Landmarks
                           /\ table[final[x]] = None
  BY <1>1, AfterIsFinal
<1>3. \A x \in Landmarks : table[x] = None => final[x] = x
  BY <1>1 DEF Leads
<1>4. QED
  BY <1>2, <1>3

\* A merge moves all that led to the landmark merged away, and nothing else.
LEMMA TableGrows ==
    ASSUME IsFiniteSet(Landmarks), NEW table, IsTable(table),
           NEW old \in Landmarks, NEW new \in Landmarks, old # new,
           table[old] = None, table[new] = None,
           NEW grown \in [Landmarks -> Landmarks \cup {None}],
           grown[old] = new, \A l \in Landmarks \ {old} : grown[l] = table[l]
    PROVE  /\ IsTable(grown)
           /\ \A l \in Landmarks :
                  /\ After(table, l) = old => After(grown, l) = new
                  /\ After(table, l) # old => After(grown, l) = After(table, l)
<1>1. PICK final, depth : Leads(table, final, depth)
  BY DEF IsTable
<1> DEFINE final2 == [l \in Landmarks |-> IF final[l] = old THEN new ELSE final[l]]
           depth2 == [l \in Landmarks |-> IF final[l] = old THEN depth[l] + 1 ELSE depth[l]]
           gone == {x \in Landmarks : table[x] # None}
           gone2 == {x \in Landmarks : grown[x] # None}
<1>2. /\ table \in [Landmarks -> Landmarks \cup {None}]
      /\ final \in [Landmarks -> Landmarks] /\ depth \in [Landmarks -> Nat]
      /\ \A l \in Landmarks :
             /\ table[l] = None => final[l] = l /\ depth[l] = 0
             /\ table[l] # None => /\ final[l] = final[table[l]]
                                   /\ depth[l] = depth[table[l]] + 1
             /\ depth[l] <= Cardinality(gone)
  BY <1>1 DEF Leads
<1>3. grown \in [Landmarks -> Landmarks \cup {None}]
  BY <1>2
<1>4. final2 \in [Landmarks -> Landmarks] /\ depth2 \in [Landmarks -> Nat]
  BY <1>2
<1>5. /\ Cardinality(gone2) = Cardinality(gone) + 1
      /\ Cardinality(gone) \in Nat
  <2>1. gone2 = gone \cup {old} /\ old \notin gone
    BY <1>2, VIMapAssumption
  <2>2. IsFiniteSet(gone)
    BY FS_Subset
  <2> HIDE DEF gone, gone2
  <2>3. QED
    BY <2>1, <2>2, FS_AddElement, FS_CardinalityType
<1>6. ASSUME NEW l \in Landmarks
      PROVE  /\ grown[l] = None => final2[l] = l /\ depth2[l] = 0
             /\ grown[l] # None => /\ final2[l] = final2[grown[l]]
                                   /\ depth2[l] = depth2[grown[l]] + 1
             /\ depth2[l] <= Cardinality(gone2)
  <2>1. CASE l = old
    <3>1. grown[l] = new /\ new # None
      BY <1>2, <2>1, VIMapAssumption
    <3>2. /\ final[old] = old /\ final[new] = new
          /\ depth[old] = 0 /\ depth[new] = 0
      BY <1>2
    <3>3. final2[l] = new /\ final2[new] = new /\ depth2[l] = 1 /\ depth2[new] = 0
      BY <2>1, <3>2
    <3>4. 1 <= Cardinality(gone2)
      BY <1>5
    <3>5. QED
      BY <3>1, <3>3, <3>4
  <2>2. CASE l # old
    <3>1. grown[l] = table[l]
      BY <1>2, <2>2
    <3>2. depth2[l] <= Cardinality(gone2)
      <4>1. depth[l] \in Nat /\ depth[l] <= Cardinality(gone)
        BY <1>2
      <4>2. depth2[l] = depth[l] \/ depth2[l] = depth[l] + 1
        OBVIOUS
      <4> HIDE DEF gone, gone2, depth2
      <4>3. QED
        BY <1>5, <4>1, <4>2
    <3>3. CASE table[l] = None
      BY <1>2, <2>2, <3>1, <3>2, <3>3
    <3>4. CASE table[l] # None
      <4>1. table[l] \in Landmarks
        BY <1>2, <3>4
      <4>2. /\ final[l] = final[table[l]] /\ depth[l] = depth[table[l]] + 1
            /\ depth[table[l]] \in Nat
        BY <1>2, <3>4, <4>1
      <4>3. final2[l] = final2[table[l]] /\ depth2[l] = depth2[table[l]] + 1
        BY <4>1, <4>2
      <4>4. QED
        BY <3>1, <3>2, <3>4, <4>3
    <3>5. QED
      BY <3>3, <3>4
  <2>3. QED
    BY <2>1, <2>2
<1>7. Leads(grown, final2, depth2)
  <2> HIDE DEF final2, depth2
  <2>1. QED
    BY <1>3, <1>4, <1>6 DEF Leads
<1>8. \A l \in Landmarks : After(table, l) = final[l] /\ After(grown, l) = final2[l]
  <2> HIDE DEF final2, depth2
  <2>1. QED
    BY <1>1, <1>7, AfterIsFinal
<1>9. IsTable(grown)
  BY <1>7 DEF IsTable
<1>10. QED
  BY <1>8, <1>9

-----------------------------------------------------------------------------
(* What holds while queries run.                                           *)

\* The landmarks that have been merged away, and the ids the map knows or knew.
Merged == {l \in Landmarks : oldToNew[l] # None}
Known  == InIndex \cup Merged

\* What the queries ask for is in the map, or has been merged into what is.
TableInv ==
    /\ IsTable(oldToNew)
    /\ Merged \cap InIndex = {}
    /\ \A l \in Known : After(oldToNew, l) \in InIndex
    /\ Database \subseteq Known

\* How far a query is with the landmarks of its matches.
BooksOf(v) ==
    /\ matches[v] \in Seq(Matches(v))
    /\ seen[v] \in [DOMAIN seen[v] -> Known \cup {None}]
    /\ DOMAIN seen[v] \subseteq Matched(v)
    /\ resolved[v] \in Seq(Known)
    /\ Len(resolved[v]) <= Len(matches[v])
    /\ \A n \in 1 .. Len(resolved[v]) :
           After(oldToNew, resolved[v][n]) = After(oldToNew, matches[v][n][2])
    /\ pc[v] = "find" => seen[v] = <<>>
    /\ pc[v] = "read" => matches[v] # <<>>
    /\ pc[v] \in {"find", "read"} => resolved[v] = <<>>
    /\ pc[v] \notin {"find", "read"} => DOMAIN seen[v] = Matched(v)
    /\ pc[v] = "resolve" => Len(resolved[v]) < Len(matches[v])
    /\ pc[v] \in {"ransac", "edge", "merge", "associate"}
           => Len(resolved[v]) = Len(matches[v])
    /\ pc[v] \in {"edge", "done"} => handled[v] = 0
    /\ pc[v] \in {"edge"} => inliers[v] # <<>> /\ insertEdges
    /\ pc[v] \in {"merge", "associate"} => ~insertEdges

\* Whoever asks, a landmark of the database is observed by another vertex as well.
SeenElsewhere(links) ==
    \A v \in Queries : \A l \in Database : \E k \in links[l] : k[1] # v

BooksInv ==
    /\ DOMAIN seen = Queries /\ DOMAIN resolved = Queries
    /\ \A v \in Queries : BooksOf(v)
    /\ mapMutex \in Queries \cup {None}
    /\ insertEdges \in BOOLEAN
    /\ insertEdges => Merged = {} /\ SeenElsewhere(backlinks)

\* The landmark a match asks for, and that it has got what a query observed.
MatchedTo(v, i) == After(oldToNew, matches[v][i][2])
Shown(id) == \E u \in Queries : \E n \in DOMAIN inliers[u] :
                /\ QueryLandmark(u, inliers[u][n]) = id
                /\ MatchedTo(u, inliers[u][n]) = After(oldToNew, id)

\* The inliers that are merged, and those that are associated.
MergesDone(v) == CASE pc[v] = "merge"                 -> handled[v]
                   [] pc[v] \in {"associate", "done"} -> Len(inliers[v])
                   [] OTHER                           -> 0
AssociationsDone(v) == CASE pc[v] = "associate" -> handled[v]
                         [] pc[v] = "done"      -> Len(inliers[v])
                         [] OTHER               -> 0

\* What a keypoint has become since the query read what it observed.
Followed(v) == \A k \in DOMAIN seen[v] :
    IF seen[v][k] # None
    THEN observed[k] = After(oldToNew, seen[v][k])
    ELSE \/ observed[k] = None
         \/ \E n \in DOMAIN inliers[v] :
                /\ Keypoint(v, inliers[v][n]) = k
                /\ observed[k] = MatchedTo(v, inliers[v][n])

\* The inliers of a query done so far have a landmark.
InliersDone(v) ==
    /\ \A n \in 1 .. MergesDone(v) :
           LET id == QueryLandmark(v, inliers[v][n])
           IN id # None => Shown(id)
    /\ \A n \in 1 .. AssociationsDone(v) :
           observed[Keypoint(v, inliers[v][n])] # None

\* Where landmarks are merged, what is merged away is what somebody asked for.
MergeInv ==
    ~insertEdges => /\ \A v \in Queries : Followed(v) /\ InliersDone(v)
                    /\ \A id \in Merged : Shown(id)

-----------------------------------------------------------------------------
(* The queries and the table.                                              *)

\* Where l leads after old has been merged into new.
Moved(l, old, new) ==
    /\ After(oldToNew, l) = old => After(oldToNew', l) = new
    /\ After(oldToNew, l) # old => After(oldToNew', l) = After(oldToNew, l)

\* What a merge does to the table and to the ids the map knows.
LEMMA MergeEntersTable ==
    ASSUME IsFiniteSet(Landmarks), IInv, TableInv,
           NEW old \in InIndex, NEW new \in InIndex, old # new,
           oldToNew' = Entered(old, new), MergeLandmarks(old, new)
    PROVE  /\ TableInv'
           /\ Known' = Known
           /\ Merged' = Merged \cup {old}
           /\ \A l \in Landmarks : Moved(l, old, new)
<1>1. old \in Landmarks /\ new \in Landmarks
  BY DEF InIndex
<1>2. oldToNew[old] = None /\ oldToNew[new] = None
  BY <1>1 DEF TableInv, Merged
<1>3. oldToNew' = [oldToNew EXCEPT ![old] = new]
  BY DEF Entered
<1>4. /\ IsTable(oldToNew')
      /\ \A l \in Landmarks : Moved(l, old, new)
  <2>1. IsTable(oldToNew)
    BY DEF TableInv
  <2>2. /\ oldToNew' \in [Landmarks -> Landmarks \cup {None}]
        /\ oldToNew'[old] = new
        /\ \A l \in Landmarks \ {old} : oldToNew'[l] = oldToNew[l]
    BY <1>1, <1>3, <2>1 DEF IsTable, Leads
  <2>3. QED
    BY <1>1, <1>2, <2>1, <2>2, TableGrows DEF Moved
<1>5. InIndex' = InIndex \ {old}
  BY <1>1 DEF InIndex, MergeLandmarks, IInv, TypeOK
<1>6. Merged' = Merged \cup {old}
  <2>1. oldToNew \in [Landmarks -> Landmarks \cup {None}]
    BY DEF TableInv, IsTable, Leads
  <2>2. QED
    BY <1>1, <1>3, <2>1, VIMapAssumption DEF Merged
<1>7. Known' = Known
  BY <1>5, <1>6 DEF Known
<1>8. Merged' \cap InIndex' = {}
  BY <1>5, <1>6 DEF TableInv
<1>9. \A l \in Known : After(oldToNew', l) \in InIndex'
  <2>1. Known \subseteq Landmarks
    BY DEF Known, InIndex, Merged
  <2>2. QED
    BY <1>4, <1>5, <2>1 DEF TableInv, Moved
<1>10. TableInv'
  BY <1>4, <1>7, <1>8, <1>9 DEF TableInv
<1>11. QED
  BY <1>4, <1>6, <1>7, <1>10

\* Where neither the table nor the index changes, neither does what they lead to.
LEMMA TableKept ==
    ASSUME TableInv, UNCHANGED <<oldToNew, index>>
    PROVE  TableInv' /\ Known' = Known /\ Merged' = Merged
<1>1. InIndex' = InIndex /\ Merged' = Merged
  BY DEF InIndex, Merged
<1>2. QED
  BY <1>1 DEF TableInv, Known

\* A match of a query, and what the query has noted of it.
LEMMA MatchIsKnown ==
    ASSUME TableInv, NEW v \in Queries, BooksOf(v), NEW i \in 1 .. Len(matches[v])
    PROVE  /\ matches[v][i] \in Matches(v)
           /\ matches[v][i][1] \in Matched(v)
           /\ Keypoint(v, i) \in AllKeypoints
           /\ Keypoint(v, i)[1] = v
           /\ matches[v][i][2] \in Database
           /\ matches[v][i][2] \in Known
           /\ matches[v][i][2] \in Landmarks
<1>1. matches[v] \in Seq(Matches(v))
  BY DEF BooksOf
<1>2. matches[v][i] \in Matches(v)
  BY <1>1, ElementOfSeq
<1>3. matches[v][i][1] \in KeypointsOf(v) /\ matches[v][i][2] \in Database
  BY <1>2 DEF Matches
<1>4. DOMAIN matches[v] = 1 .. Len(matches[v])
  BY <1>1, LenProperties
<1>5. matches[v][i][1] \in Matched(v)
  BY <1>4 DEF Matched
<1>6. matches[v][i][2] \in Known /\ matches[v][i][2] \in Landmarks
  BY <1>3, LoopClosureAssumption DEF TableInv
<1>7. QED
  BY <1>2, <1>3, <1>5, <1>6 DEF Keypoint, KeypointsOf

LEMMA InlierIsKnown ==
    ASSUME QueryInv, TableInv, NEW v \in Queries, BooksOf(v),
           pc[v] \in {"merge", "associate"}
    PROVE  /\ Inlier(v) \in 1 .. Len(matches[v])
           /\ handled[v] + 1 \in 1 .. Len(inliers[v])
           /\ Inlier(v) = inliers[v][handled[v] + 1]
           /\ Keypoint(v, Inlier(v)) \in DOMAIN seen[v]
           /\ QueryLandmark(v, Inlier(v)) \in Known \cup {None}
           /\ resolved[v][Inlier(v)] \in Known
           /\ After(oldToNew, resolved[v][Inlier(v)])
                = After(oldToNew, matches[v][Inlier(v)][2])
<1>1. Inlier(v) \in 1 .. Len(matches[v])
  BY InlierIsMatch
<1>2. handled[v] + 1 \in 1 .. Len(inliers[v])
  BY DEF QueryInv
<1>3. Keypoint(v, Inlier(v)) \in Matched(v)
  BY <1>1, MatchIsKnown DEF Keypoint
<1>4. DOMAIN seen[v] = Matched(v)
  BY DEF BooksOf
<1>5. QueryLandmark(v, Inlier(v)) \in Known \cup {None}
  BY <1>3, <1>4 DEF QueryLandmark, BooksOf
<1>6. resolved[v] \in Seq(Known) /\ Len(resolved[v]) = Len(matches[v])
  BY DEF BooksOf
<1>7. resolved[v][Inlier(v)] \in Known
  BY <1>1, <1>6, ElementOfSeq
<1>8. After(oldToNew, resolved[v][Inlier(v)]) = After(oldToNew, matches[v][Inlier(v)][2])
  BY <1>1, <1>6 DEF BooksOf
<1>9. QED
  BY <1>1, <1>2, <1>3, <1>4, <1>5, <1>7, <1>8 DEF Inlier

\* Of finite sets with the same bound, one is the largest.
LEMMA LargestSet ==
    ASSUME NEW L, IsFiniteSet(L), NEW others, others # {},
           NEW sets \in [others -> SUBSET L]
    PROVE  \E w \in others : \A u \in others :
               Cardinality(sets[u]) <= Cardinality(sets[w])
<1> DEFINE N == Cardinality(L)
           T == {N - Cardinality(sets[w]) : w \in others}
<1>1. N \in Nat
  BY FS_CardinalityType
<1>2. ASSUME NEW w \in others
      PROVE  Cardinality(sets[w]) \in Nat /\ Cardinality(sets[w]) <= N
  <2>1. sets[w] \subseteq L
    OBVIOUS
  <2>2. QED
    BY <2>1, FS_Subset, FS_CardinalityType
<1>3. T \in SUBSET Nat /\ T # {}
  <2>1. \A w \in others : N - Cardinality(sets[w]) \in Nat
    <3> HIDE DEF N
    <3>1. QED
      BY <1>1, <1>2
  <2>2. QED
    BY <2>1
<1>4. PICK x \in T : \A y \in T : ~(y < x)
  <2> HIDE DEF T
  <2>1. QED
    BY <1>3, LeastNumber
<1>5. PICK w \in others : x = N - Cardinality(sets[w])
  OBVIOUS
<1>6. ASSUME NEW u \in others PROVE Cardinality(sets[u]) <= Cardinality(sets[w])
  <2>1. ~(N - Cardinality(sets[u]) < N - Cardinality(sets[w]))
    BY <1>4, <1>5
  <2> HIDE DEF N, T
  <2>2. QED
    BY <1>1, <1>2, <2>1
<1>7. QED
  BY <1>6

\* The vertex to link to is found: the landmarks of the database have observers
\* beside the one that asks.
LEMMA MostOverlappingExists ==
    ASSUME IsFiniteSet(Landmarks), SeenElsewhere(backlinks), NEW v \in Queries,
           NEW L \in SUBSET Database, L # {}
    PROVE  MostOverlapping(v, L) # {}
<1> DEFINE others == (UNION {Observers(l) : l \in L}) \ {v}
           Seen(w) == {l \in L : w \in Observers(l)}
           sets == [w \in others |-> Seen(w)]
<1>1. IsFiniteSet(L)
  BY FS_Subset, LoopClosureAssumption
<1>2. others # {}
  <2>1. PICK l \in L : TRUE
    OBVIOUS
  <2>2. PICK k \in backlinks[l] : k[1] # v
    BY DEF SeenElsewhere
  <2>3. k[1] \in Observers(l) /\ k[1] # v
    BY <2>2 DEF Observers
  <2>4. k[1] \in UNION {Observers(x) : x \in L}
    BY <2>3
  <2>5. k[1] \in others
    BY <2>3, <2>4
  <2> HIDE DEF others
  <2>6. QED
    BY <2>5
<1>3. sets \in [others -> SUBSET L]
  OBVIOUS
<1>4. PICK w \in others : \A u \in others :
          Cardinality(sets[u]) <= Cardinality(sets[w])
  <2> HIDE DEF sets, others
  <2>1. QED
    BY <1>1, <1>2, <1>3, LargestSet
<1>5. \A u \in others : Cardinality(Seen(u)) <= Cardinality(Seen(w))
  BY <1>4
<1>6. w \in MostOverlapping(v, L)
  BY <1>5 DEF MostOverlapping
<1>7. QED
  BY <1>6

-----------------------------------------------------------------------------
(* No CHECK fails.                                                         *)

\* What the queries know of the map, and the map knows of them.
TableSound == IInv /\ QueryInv /\ TableInv /\ BooksInv /\ ~aborted

\* The books of the queries that a step leaves alone.
LEMMA BooksKept ==
    ASSUME NEW u \in Queries, BooksOf(u), QueryInv, TableInv,
           matches'[u] = matches[u], seen'[u] = seen[u], resolved'[u] = resolved[u],
           inliers'[u] = inliers[u], handled'[u] = handled[u], pc'[u] = pc[u],
           insertEdges' = insertEdges, Known' = Known,
           \A l, x \in Landmarks : After(oldToNew, l) = After(oldToNew, x)
                                     => After(oldToNew', l) = After(oldToNew', x)
    PROVE  BooksOf(u)'
<1>1. Matches(u)' = Matches(u) /\ Matched(u)' = Matched(u)
  BY DEF Matches, Matched
<1>2. ASSUME NEW n \in 1 .. Len(resolved[u])
      PROVE  After(oldToNew', resolved[u][n]) = After(oldToNew', matches[u][n][2])
  <2>1. n \in 1 .. Len(matches[u])
    BY LenProperties DEF BooksOf
  <2>2. matches[u][n][2] \in Landmarks
    BY <2>1, MatchIsKnown
  <2>3. resolved[u][n] \in Known
    BY ElementOfSeq DEF BooksOf
  <2>4. resolved[u][n] \in Landmarks
    BY <2>3 DEF Known, InIndex, Merged
  <2>5. After(oldToNew, resolved[u][n]) = After(oldToNew, matches[u][n][2])
    BY DEF BooksOf
  <2>6. QED
    BY <2>2, <2>4, <2>5
<1>3. QED
  BY <1>1, <1>2 DEF BooksOf

\* A step of v that changes neither the table nor the index.
LEMMA BooksOfOthersKept ==
    ASSUME TableSound, NEW v \in Queries, UNCHANGED <<oldToNew, index, insertEdges>>,
           \A u \in Queries \ {v} :
               /\ matches'[u] = matches[u] /\ seen'[u] = seen[u]
               /\ resolved'[u] = resolved[u] /\ inliers'[u] = inliers[u]
               /\ handled'[u] = handled[u] /\ pc'[u] = pc[u],
           DOMAIN seen' = Queries, DOMAIN resolved' = Queries,
           BooksOf(v)', mapMutex' \in Queries \cup {None},
           insertEdges => backlinks' = backlinks
    PROVE  TableInv' /\ BooksInv'
<1>1. QueryInv /\ TableInv /\ BooksInv
  BY DEF TableSound
<1>2. TableInv' /\ Known' = Known /\ Merged' = Merged
  BY <1>1, TableKept
<1>3. ASSUME NEW u \in Queries \ {v} PROVE BooksOf(u)'
  <2>1. BooksOf(u)
    BY <1>1 DEF BooksInv
  <2>2. oldToNew' = oldToNew
    OBVIOUS
  <2>3. QED
    BY <1>1, <1>2, <2>1, <2>2, BooksKept
<1>4. \A u \in Queries : BooksOf(u)'
  BY <1>3
<1>5. BooksInv'
  BY <1>1, <1>2, <1>4 DEF BooksInv, SeenElsewhere
<1>6. QED
  BY <1>2, <1>5

LEMMA FindKeepsBooks ==
    ASSUME TableSound, NEW v \in Queries, Find(v)
    PROVE  TableInv' /\ BooksInv'
<1>1. BooksOf(v) /\ QueryInv /\ BooksInv /\ pc[v] = "find"
  BY DEF TableSound, BooksInv, Find, At
<1>0. PICK n \in 0 .. MaxMatches :
          \E found \in [1 .. n -> Matches(v)] :
              /\ matches' = [matches EXCEPT ![v] = found]
              /\ pc' = [pc EXCEPT ![v] = IF n = 0 THEN "done" ELSE "read"]
  BY DEF Find, Goto
<1>2. PICK found \in [1 .. n -> Matches(v)] :
          /\ matches' = [matches EXCEPT ![v] = found]
          /\ pc' = [pc EXCEPT ![v] = IF n = 0 THEN "done" ELSE "read"]
  BY <1>0
<1>3. n \in Nat /\ found \in Seq(Matches(v)) /\ Len(found) = n
  BY SeqOfFunction, LoopClosureAssumption
<1>4. UNCHANGED <<vars, seen, resolved, inliers, handled, oldToNew, mapMutex, insertEdges>>
  BY DEF Find
<1>5. /\ matches'[v] = found /\ pc'[v] = IF n = 0 THEN "done" ELSE "read"
      /\ \A u \in Queries \ {v} : matches'[u] = matches[u] /\ pc'[u] = pc[u]
  BY <1>1, <1>2 DEF QueryInv
<1>6. seen[v] = <<>> /\ resolved[v] = <<>> /\ handled[v] = 0 /\ DOMAIN seen[v] = {}
  BY <1>1 DEF BooksOf, QueryInv, Early
<1>7. Matches(v)' = Matches(v)
  BY DEF Matches
<1>8. n = 0 => Matched(v)' = {}
  <2>1. DOMAIN found = 1 .. n
    OBVIOUS
  <2>2. QED
    BY <1>3, <1>5, <2>1 DEF Matched
<1>9. BooksOf(v)'
  <2>1. Len(resolved[v]) = 0 /\ resolved[v] \in Seq(Known')
    BY <1>6
  <2>2. n # 0 => found # <<>>
    BY <1>3
  <2>3. seen[v] \in [DOMAIN seen[v] -> Known' \cup {None}]
    BY <1>6
  <2>4. QED
    BY <1>3, <1>4, <1>5, <1>6, <1>7, <1>8, <2>1, <2>2, <2>3 DEF BooksOf
<1>10. QED
  BY <1>1, <1>4, <1>5, <1>9, BooksOfOthersKept DEF BooksInv, vars, landmarkVars

LEMMA ReadKeepsBooks ==
    ASSUME ~IdsTear, TableSound, NEW v \in Queries, Read(v)
    PROVE  TableInv' /\ BooksInv'
<1>1. BooksOf(v) /\ QueryInv /\ TableInv /\ BooksInv /\ IInv /\ pc[v] = "read"
  BY DEF TableSound, BooksInv, Read, At
<1>2. UNCHANGED <<vars, matches, resolved, inliers, handled, oldToNew, mapMutex, insertEdges>>
  BY DEF Read
<1>3. Known' = Known /\ Matches(v)' = Matches(v) /\ Matched(v)' = Matched(v)
  BY <1>1, <1>2, TableKept DEF vars, landmarkVars, Matches, Matched
<1>4. ASSUME NEW k \in Matched(v) \ DOMAIN seen[v],
             seen' = [seen EXCEPT ![v] =
                         [j \in DOMAIN seen[v] \cup {k} |->
                             IF j = k THEN observed[k] ELSE seen[v][j]]],
             pc' = pc
      PROVE  BooksOf(v)' /\ DOMAIN seen' = Queries
  <2>1. k \in AllKeypoints
    <3>1. PICK i \in DOMAIN matches[v] : k = matches[v][i][1]
      BY DEF Matched
    <3>2. i \in 1 .. Len(matches[v])
      BY <1>1, <3>1, LenProperties DEF BooksOf
    <3>3. QED
      BY <1>1, <3>1, <3>2, MatchIsKnown DEF Keypoint
  <2>2. observed[k] \in Known \cup {None}
    BY <1>1, <2>1 DEF IInv, Consistent, NothingDangles, TypeOK, Known, InIndex
  <2>3. seen'[v] = [j \in DOMAIN seen[v] \cup {k} |->
                       IF j = k THEN observed[k] ELSE seen[v][j]]
    BY <1>1, <1>4 DEF BooksInv
  <2>4. /\ DOMAIN seen'[v] = DOMAIN seen[v] \cup {k}
        /\ seen'[v] \in [DOMAIN seen[v] \cup {k} -> Known \cup {None}]
    BY <1>1, <2>2, <2>3 DEF BooksOf
  <2>5. DOMAIN seen' = Queries
    BY <1>1, <1>4 DEF BooksInv
  <2>6. pc'[v] = "read"
    BY <1>1, <1>4
  <2>7. DOMAIN seen'[v] \subseteq Matched(v)
    BY <1>1, <2>4 DEF BooksOf
  <2> HIDE <1>4
  <2>8. BooksOf(v)'
    BY <1>1, <1>2, <1>3, <2>4, <2>6, <2>7 DEF BooksOf
  <2>9. QED
    BY <2>5, <2>8
<1>5. ASSUME DOMAIN seen[v] = Matched(v), pc' = [pc EXCEPT ![v] = "resolve"],
             seen' = seen
      PROVE  BooksOf(v)' /\ DOMAIN seen' = Queries
  <2>1. pc'[v] = "resolve"
    BY <1>1, <1>5 DEF QueryInv
  <2>2. Len(resolved[v]) < Len(matches[v])
    <3>1. matches[v] \in Seq(Matches(v)) /\ matches[v] # <<>> /\ resolved[v] = <<>>
      BY <1>1 DEF BooksOf
    <3>2. QED
      BY <3>1, EmptySeq, LenProperties
  <2>3. QED
    BY <1>1, <1>2, <1>3, <1>5, <2>1, <2>2 DEF BooksOf, BooksInv
<1>6. BooksOf(v)' /\ DOMAIN seen' = Queries
  BY <1>4, <1>5 DEF Read, Goto
<1>7. \A u \in Queries \ {v} : seen'[u] = seen[u] /\ pc'[u] = pc[u]
  BY <1>1 DEF Read, Goto, BooksInv, QueryInv
<1>8. QED
  BY <1>1, <1>2, <1>6, <1>7, BooksOfOthersKept DEF BooksInv, vars, landmarkVars
LEMMA ResolveKeepsBooks ==
    ASSUME IsFiniteSet(Landmarks), TableSound, NEW v \in Queries, Resolve(v)
    PROVE  TableInv' /\ BooksInv' /\ UNCHANGED vars
<1> DEFINE i == Len(resolved[v]) + 1
           l == After(oldToNew, matches[v][i][2])
<1>1. BooksOf(v) /\ TableInv /\ QueryInv /\ BooksInv /\ pc[v] = "resolve"
  BY DEF TableSound, BooksInv, Resolve, At
<1>2. /\ resolved[v] \in Seq(Known) /\ Len(resolved[v]) \in Nat
      /\ Len(resolved[v]) < Len(matches[v]) /\ Len(matches[v]) \in Nat
      /\ i \in 1 .. Len(matches[v])
  BY <1>1, LenProperties DEF BooksOf
<1>3. matches[v][i][2] \in Known /\ matches[v][i][2] \in Landmarks
  BY <1>1, <1>2, MatchIsKnown
<1>4. l \in InIndex
  BY <1>1, <1>3 DEF TableInv
<1>5. /\ UNCHANGED vars
      /\ resolved' = [resolved EXCEPT ![v] = Append(resolved[v], l)]
      /\ pc' = [pc EXCEPT ![v] = IF i = Len(matches[v]) THEN "ransac" ELSE "resolve"]
      /\ UNCHANGED <<matches, seen, inliers, handled, oldToNew, mapMutex, insertEdges>>
  BY <1>4, AfterMergesIs DEF Resolve, Goto
<1>6. Known' = Known /\ Matches(v)' = Matches(v) /\ Matched(v)' = Matched(v)
  BY <1>1, <1>5, TableKept DEF vars, landmarkVars, Matches, Matched
<1>7. /\ resolved' [v] = Append(resolved[v], l)
      /\ pc'[v] = IF i = Len(matches[v]) THEN "ransac" ELSE "resolve"
      /\ DOMAIN resolved' = Queries
      /\ \A u \in Queries \ {v} : resolved'[u] = resolved[u] /\ pc'[u] = pc[u]
  BY <1>1, <1>5 DEF QueryInv, BooksInv
<1>8. /\ resolved'[v] \in Seq(Known)
      /\ Len(resolved'[v]) = i
      /\ \A n \in 1 .. i - 1 : resolved'[v][n] = resolved[v][n]
      /\ resolved'[v][i] = l
  <2>1. l \in Known
    BY <1>4 DEF Known
  <2> HIDE DEF l
  <2>2. QED
    BY <1>2, <1>7, <2>1, AppendProperties
<1>9. \A n \in 1 .. Len(resolved'[v]) :
          After(oldToNew', resolved'[v][n]) = After(oldToNew', matches'[v][n][2])
  <2>1. After(oldToNew, l) = l
    BY <1>1, <1>3, TableLeads DEF TableInv
  <2>2. \A n \in 1 .. i - 1 :
            After(oldToNew, resolved[v][n]) = After(oldToNew, matches[v][n][2])
    BY <1>1, <1>2 DEF BooksOf
  <2>3. ASSUME NEW n \in 1 .. i
        PROVE  After(oldToNew, resolved'[v][n]) = After(oldToNew, matches[v][n][2])
    <3>1. CASE n = i
      BY <1>8, <2>1, <3>1
    <3>2. CASE n # i
      <4>1. n \in 1 .. i - 1
        BY <1>2, <3>2
      <4>2. QED
        BY <1>8, <2>2, <4>1
    <3>3. QED
      BY <3>1, <3>2
  <2>4. QED
    BY <1>5, <1>8, <2>3
<1>10. BooksOf(v)'
  <2>1. seen'[v] = seen[v] /\ matches'[v] = matches[v]
    BY <1>5
  <2>2. pc'[v] = "ransac" => Len(resolved'[v]) = Len(matches[v])
    BY <1>2, <1>7, <1>8
  <2>3. pc'[v] = "resolve" => Len(resolved'[v]) < Len(matches[v])
    BY <1>2, <1>7, <1>8
  <2>4. pc'[v] \in {"ransac", "resolve"} /\ i <= Len(matches[v])
    BY <1>2, <1>7
  <2> HIDE DEF i, l
  <2>5. QED
    BY <1>1, <1>6, <1>8, <1>9, <2>1, <2>2, <2>3, <2>4 DEF BooksOf
<1>11. QED
  BY <1>1, <1>5, <1>7, <1>10, BooksOfOthersKept DEF BooksInv, vars, landmarkVars

LEMMA RansacKeepsBooks ==
    ASSUME TableSound, NEW v \in Queries, Ransac(v)
    PROVE  TableInv' /\ BooksInv'
<1>1. BooksOf(v) /\ TableInv /\ QueryInv /\ BooksInv /\ pc[v] = "ransac"
  BY DEF TableSound, BooksInv, Ransac, At
<1>2. UNCHANGED <<vars, matches, seen, resolved, handled, oldToNew, insertEdges>>
  BY DEF Ransac
<1>3. Known' = Known /\ Matches(v)' = Matches(v) /\ Matched(v)' = Matched(v)
  BY <1>1, <1>2, TableKept DEF vars, landmarkVars, Matches, Matched
<1>4. handled[v] = 0
  BY <1>1 DEF QueryInv, Early
<1>5. CASE Goto(v, "done") /\ UNCHANGED <<inliers, mapMutex>>
  <2>1. pc'[v] = "done" /\ \A u \in Queries \ {v} : pc'[u] = pc[u]
    BY <1>1, <1>5 DEF Goto, QueryInv
  <2>2. BooksOf(v)'
    BY <1>1, <1>2, <1>3, <1>4, <2>1 DEF BooksOf
  <2>3. QED
    BY <1>1, <1>2, <1>5, <2>1, <2>2, BooksOfOthersKept DEF BooksInv, vars, landmarkVars
<1>6. ASSUME NEW n \in DOMAIN matches[v],
             NEW kept \in [1 .. n -> DOMAIN matches[v]],
             inliers' = [inliers EXCEPT ![v] = kept], mapMutex' = v,
             Goto(v, IF insertEdges THEN "edge" ELSE "merge")
      PROVE  TableInv' /\ BooksInv'
  <2>1. /\ pc'[v] = IF insertEdges THEN "edge" ELSE "merge"
        /\ inliers'[v] = kept
        /\ \A u \in Queries \ {v} : pc'[u] = pc[u] /\ inliers'[u] = inliers[u]
    BY <1>1, <1>6 DEF Goto, QueryInv
  <2>2. kept # <<>>
    <3>1. n \in Nat /\ n > 0
      BY <1>1, LenProperties DEF BooksOf
    <3>2. Len(kept) = n
      BY <3>1, SeqOfFunction
    <3>3. QED
      BY <3>1, <3>2
  <2>3. BooksOf(v)'
    BY <1>1, <1>2, <1>3, <1>4, <2>1, <2>2 DEF BooksOf, BooksInv
  <2>4. QED
    BY <1>1, <1>2, <1>6, <2>1, <2>3, BooksOfOthersKept DEF BooksInv, vars, landmarkVars
<1>7. QED
  BY <1>5, <1>6 DEF Ransac

LEMMA EdgeKeepsBooks ==
    ASSUME IsFiniteSet(Landmarks), TableSound, NEW v \in Queries, AddEdge(v)
    PROVE  TableInv' /\ BooksInv' /\ ~aborted'
<1>1. BooksOf(v) /\ TableInv /\ QueryInv /\ BooksInv /\ pc[v] = "edge" /\ ~aborted
  BY DEF TableSound, BooksInv, AddEdge, At
<1>2. insertEdges /\ inliers[v] # <<>> /\ Merged = {} /\ SeenElsewhere(backlinks)
  BY <1>1 DEF BooksOf, BooksInv
<1>3. PICK best \in SUBSET {inliers[v][n] : n \in DOMAIN inliers[v]} :
          LET L == {AfterMerges(matches[v][i][2]) : i \in best}
          IN /\ {Keypoint(v, i) : i \in best} = InlierKeypoints(v)
             /\ \/ MostOverlapping(v, L) = {} /\ Abort
                \/ UNCHANGED vars
                \/ \E w \in MostOverlapping(v, L) : AddLoopClosureEdge(w, v)
  BY DEF AddEdge
<1> DEFINE L == {AfterMerges(matches[v][i][2]) : i \in best}
<1>4. DOMAIN inliers[v] = 1 .. Len(inliers[v]) /\ DOMAIN inliers[v] # {}
  <2>1. inliers[v] \in Seq(Nat)
    BY <1>1 DEF QueryInv
  <2>2. DOMAIN inliers[v] = 1 .. Len(inliers[v]) /\ Len(inliers[v]) \in Nat
    BY <2>1, LenProperties
  <2>3. Len(inliers[v]) # 0
    BY <1>2, <2>1, EmptySeq
  <2>4. 1 \in 1 .. Len(inliers[v])
    BY <2>2, <2>3
  <2>5. QED
    BY <2>2, <2>4
<1>5. best \subseteq 1 .. Len(matches[v])
  BY <1>1, <1>3, <1>4 DEF QueryInv
<1>6. best # {}
  <2>1. InlierKeypoints(v) # {}
    BY <1>4 DEF InlierKeypoints
  <2>2. QED
    BY <1>3, <2>1
<1>7. ASSUME NEW i \in best PROVE AfterMerges(matches[v][i][2]) \in Database
  <2>1. matches[v][i][2] \in Database /\ matches[v][i][2] \in Landmarks
    BY <1>1, <1>5, MatchIsKnown
  <2>2. oldToNew[matches[v][i][2]] = None
    BY <1>2, <2>1 DEF Merged
  <2>3. QED
    BY <1>1, <2>1, <2>2, TableLeads, AfterMergesIs DEF TableInv
<1>8. L \in SUBSET Database /\ L # {}
  BY <1>6, <1>7
<1>9. MostOverlapping(v, L) # {}
  <2> HIDE DEF L
  <2>1. QED
    BY <1>2, <1>8, MostOverlappingExists
<1>10. UNCHANGED <<index, backlinks>> /\ ~aborted'
  <2> HIDE DEF L
  <2>1. \/ MostOverlapping(v, L) = {} /\ Abort
        \/ UNCHANGED vars
        \/ \E w \in MostOverlapping(v, L) : AddLoopClosureEdge(w, v)
    BY <1>3 DEF L
  <2>2. UNCHANGED vars \/ \E w : AddLoopClosureEdge(w, v)
    BY <1>9, <2>1
  <2>3. QED
    BY <1>1, <2>2 DEF AddLoopClosureEdge, Survives, vars, landmarkVars
<1>11. /\ mapMutex' = None /\ pc' = [pc EXCEPT ![v] = "done"]
       /\ UNCHANGED <<matches, seen, resolved, inliers, handled, oldToNew, insertEdges>>
  BY DEF AddEdge, Goto
<1>12. pc'[v] = "done" /\ \A u \in Queries \ {v} : pc'[u] = pc[u]
  BY <1>1, <1>11 DEF QueryInv
<1>13. Known' = Known /\ Matches(v)' = Matches(v) /\ Matched(v)' = Matched(v)
  BY <1>1, <1>10, <1>11, TableKept DEF Matches, Matched
<1>14. BooksOf(v)'
  BY <1>1, <1>11, <1>12, <1>13 DEF BooksOf
<1>15. QED
  BY <1>1, <1>10, <1>11, <1>12, <1>14, BooksOfOthersKept DEF BooksInv
\* What Advance does to the query.
LEMMA AdvanceGoes ==
    ASSUME QueryInv, NEW v \in Queries, NEW step, Advance(v, step)
    PROVE  /\ \/ /\ pc'[v] = pc[v] /\ handled'[v] = handled[v] + 1
                 /\ handled[v] + 1 < Len(inliers[v])
              \/ /\ pc'[v] = step /\ handled'[v] = 0
                 /\ handled[v] + 1 = Len(inliers[v])
           /\ \A u \in Queries \ {v} : pc'[u] = pc[u] /\ handled'[u] = handled[u]
BY DEF Advance, Goto, QueryInv

\* No CHECK of a merge fails: an id that is not in the table is in the map, and so
\* is the one the table leads to.
LEMMA MergeCases ==
    ASSUME TableSound, NEW v \in Queries, Merge(v),
           NEW old, old = QueryLandmark(v, Inlier(v)),
           NEW l, l = resolved[v][Inlier(v)]
    PROVE  \/ /\ ~MustMerge(old, l)
              /\ UNCHANGED <<vars, oldToNew>>
           \/ /\ MustMerge(old, l)
              /\ old \in InIndex /\ After(oldToNew, l) \in InIndex
              /\ old # After(oldToNew, l)
              /\ oldToNew' = Entered(old, After(oldToNew, l))
              /\ MergeLandmarks(old, After(oldToNew, l))
<1>1. BooksOf(v) /\ TableInv /\ QueryInv /\ pc[v] = "merge"
  BY DEF TableSound, BooksInv, Merge, At
<1>2. old \in Known \cup {None} /\ l \in Known
  BY <1>1, InlierIsKnown
<1>3. AfterMerges(l) = After(oldToNew, l) /\ After(oldToNew, l) \in InIndex
  BY <1>1, <1>2, AfterMergesIs DEF TableInv
<1>4. MustMerge(old, l) => old \in InIndex /\ old # After(oldToNew, l)
  BY <1>2, <1>3 DEF MustMerge, Known, InIndex, Merged
<1>5. \/ /\ ~MustMerge(old, l)
         /\ UNCHANGED <<vars, oldToNew>>
      \/ /\ MustMerge(old, l)
         /\ oldToNew' = Entered(old, AfterMerges(l))
         /\ MergeLandmarks(old, AfterMerges(l))
      \/ /\ MustMerge(old, l)
         /\ ~({old, AfterMerges(l)} \subseteq InIndex)
  BY DEF Merge
<1>6. QED
  BY <1>3, <1>4, <1>5

LEMMA MergeKeepsBooks ==
    ASSUME IsFiniteSet(Landmarks), TableSound, NEW v \in Queries, Merge(v)
    PROVE  TableInv' /\ BooksInv' /\ ~aborted'
<1>1. /\ BooksOf(v) /\ TableInv /\ QueryInv /\ IInv /\ BooksInv
      /\ pc[v] = "merge" /\ ~aborted
  BY DEF TableSound, BooksInv, Merge, At
<1>2. ~insertEdges
  BY <1>1 DEF BooksOf
<1> DEFINE old == QueryLandmark(v, Inlier(v))
           l == resolved[v][Inlier(v)]
           new == After(oldToNew, l)
<1>3. /\ TableInv' /\ Known' = Known /\ ~aborted'
      /\ \A x, y \in Landmarks : After(oldToNew, x) = After(oldToNew, y)
                                   => After(oldToNew', x) = After(oldToNew', y)
  <2>1. CASE UNCHANGED <<vars, oldToNew>>
    <3>1. UNCHANGED <<oldToNew, index, aborted>>
      BY <2>1 DEF vars, landmarkVars
    <3>2. TableInv' /\ Known' = Known
      BY <1>1, <3>1, TableKept
    <3>3. QED
      BY <1>1, <3>1, <3>2
  <2>2. CASE /\ old \in InIndex /\ new \in InIndex /\ old # new
             /\ oldToNew' = Entered(old, new) /\ MergeLandmarks(old, new)
    <3> HIDE DEF old, new
    <3>1. TableInv' /\ Known' = Known /\ \A x \in Landmarks : Moved(x, old, new)
      BY <1>1, <2>2, MergeEntersTable
    <3>2. ~aborted'
      BY <2>2 DEF MergeLandmarks, Survives
    <3>3. QED
      BY <3>1, <3>2 DEF Moved
  <2>3. QED
    BY <2>1, <2>2, MergeCases
<1>4. /\ Advance(v, "associate")
      /\ UNCHANGED <<matches, seen, resolved, inliers, mapMutex, insertEdges>>
  BY DEF Merge
<1>5. /\ pc'[v] \in {"merge", "associate"}
      /\ \A u \in Queries \ {v} : pc'[u] = pc[u] /\ handled'[u] = handled[u]
  BY <1>1, <1>4, AdvanceGoes
<1>6. ASSUME NEW u \in Queries \ {v} PROVE BooksOf(u)'
  <2>1. BooksOf(u)
    BY <1>1 DEF BooksInv
  <2>2. QED
    BY <1>1, <1>3, <1>4, <1>5, <2>1, BooksKept
<1>7. BooksOf(v)'
  <2>1. Matches(v)' = Matches(v) /\ Matched(v)' = Matched(v)
    BY <1>4 DEF Matches, Matched
  <2>2. ASSUME NEW n \in 1 .. Len(resolved[v])
        PROVE  After(oldToNew', resolved[v][n]) = After(oldToNew', matches[v][n][2])
    <3>1. /\ Len(resolved[v]) = Len(matches[v]) /\ resolved[v] \in Seq(Known)
          /\ After(oldToNew, resolved[v][n]) = After(oldToNew, matches[v][n][2])
      BY <1>1 DEF BooksOf
    <3>2. matches[v][n][2] \in Landmarks
      BY <1>1, <3>1, MatchIsKnown
    <3>3. resolved[v][n] \in Landmarks
      BY <3>1, ElementOfSeq DEF Known, InIndex, Merged
    <3>4. QED
      BY <1>3, <3>1, <3>2, <3>3
  <2>3. QED
    BY <1>1, <1>2, <1>3, <1>4, <1>5, <2>1, <2>2 DEF BooksOf
<1>8. BooksInv'
  BY <1>1, <1>2, <1>4, <1>6, <1>7 DEF BooksInv
<1>9. QED
  BY <1>3, <1>8

LEMMA AssociateCases ==
    ASSUME TableSound, NEW v \in Queries, AssociateInlier(v),
           NEW k, k = Keypoint(v, Inlier(v)),
           NEW l, l = After(oldToNew, resolved[v][Inlier(v)])
    PROVE  \/ observed[k] # None /\ UNCHANGED vars
           \/ observed[k] = None /\ l \in InIndex /\ Associate(k, l)
<1>1. BooksOf(v) /\ TableInv /\ QueryInv /\ pc[v] = "associate"
  BY DEF TableSound, BooksInv, AssociateInlier, At
<1>2. resolved[v][Inlier(v)] \in Known
  BY <1>1, InlierIsKnown
<1>3. l \in InIndex /\ l = AfterMerges(resolved[v][Inlier(v)])
  BY <1>1, <1>2, AfterMergesIs DEF TableInv
<1>4. QED
  BY <1>3 DEF AssociateInlier, MustAssociate

LEMMA AssociateKeepsBooks ==
    ASSUME TableSound, NEW v \in Queries, AssociateInlier(v)
    PROVE  TableInv' /\ BooksInv' /\ ~aborted'
<1>1. /\ BooksOf(v) /\ TableInv /\ QueryInv /\ BooksInv
      /\ pc[v] = "associate" /\ ~aborted
  BY DEF TableSound, BooksInv, AssociateInlier, At
<1>2. ~insertEdges
  BY <1>1 DEF BooksOf
<1>3. index' = index /\ ~aborted'
  <2>1. \/ UNCHANGED vars
        \/ \E k, l : Associate(k, l)
    BY AssociateCases
  <2>2. QED
    BY <1>1, <2>1 DEF vars, landmarkVars, Associate, Survives
<1>4. /\ Advance(v, "done") /\ mapMutex' = HolderAfter(v)
      /\ UNCHANGED <<matches, seen, resolved, inliers, oldToNew, insertEdges>>
  BY DEF AssociateInlier
<1>5. /\ \/ pc'[v] = "associate"
         \/ pc'[v] = "done" /\ handled'[v] = 0
      /\ \A u \in Queries \ {v} : pc'[u] = pc[u] /\ handled'[u] = handled[u]
  BY <1>1, <1>4, AdvanceGoes
<1>6. Known' = Known /\ Matches(v)' = Matches(v) /\ Matched(v)' = Matched(v)
  BY <1>1, <1>3, <1>4, TableKept DEF Matches, Matched
<1>7. BooksOf(v)'
  BY <1>1, <1>2, <1>4, <1>5, <1>6 DEF BooksOf
<1>8. mapMutex' \in Queries \cup {None}
  BY <1>4 DEF HolderAfter
<1>9. QED
  BY <1>1, <1>2, <1>3, <1>4, <1>5, <1>7, <1>8, BooksOfOthersKept DEF BooksInv

LEMMA TableStaysSound ==
    ASSUME IsFiniteSet(Landmarks), ~IdsTear, TableSound, [LCNext]_lcVars
    PROVE  TableSound'
<1>1. IInv' /\ QueryInv'
  <2>1. QueryInv'
    BY QueryStaysCorrect DEF TableSound
  <2>2. MapStep
    BY StepOfMap DEF TableSound, MapStep, lcVars
  <2>3. QED
    BY <2>1, <2>2, MapStaysCorrect DEF TableSound
<1>2. CASE UNCHANGED lcVars
  <2>1. UNCHANGED <<vars, queryVars, oldToNew, mapMutex, insertEdges>>
    BY <1>2 DEF lcVars
  <2>2. UNCHANGED <<index, backlinks, aborted>>
    BY <2>1 DEF vars, landmarkVars
  <2>3. TableInv' /\ Known' = Known /\ Merged' = Merged
    BY <2>1, <2>2, TableKept DEF TableSound
  <2>4. ASSUME NEW u \in Queries PROVE BooksOf(u)'
    BY <2>1, <2>3, BooksKept DEF TableSound, BooksInv, queryVars
  <2>5. BooksInv'
    BY <2>1, <2>2, <2>3, <2>4 DEF TableSound, BooksInv, SeenElsewhere, queryVars
  <2>6. QED
    BY <1>1, <2>2, <2>3, <2>5 DEF TableSound
<1>3. ASSUME NEW v \in Queries, QueryStep(v)
      PROVE  TableInv' /\ BooksInv' /\ ~aborted'
  <2>1. CASE Find(v)
    BY <2>1, FindKeepsBooks DEF Find, vars, TableSound
  <2>2. CASE Read(v)
    BY <2>2, ReadKeepsBooks DEF Read, vars, TableSound
  <2>3. CASE Resolve(v)
    BY <2>3, ResolveKeepsBooks DEF vars, TableSound
  <2>4. CASE Ransac(v)
    BY <2>4, RansacKeepsBooks DEF Ransac, vars, TableSound
  <2>5. CASE AddEdge(v)
    BY <2>5, EdgeKeepsBooks
  <2>6. CASE Merge(v)
    BY <2>6, MergeKeepsBooks
  <2>7. CASE AssociateInlier(v)
    BY <2>7, AssociateKeepsBooks
  <2>8. QED
    BY <1>3, <2>1, <2>2, <2>3, <2>4, <2>5, <2>6, <2>7 DEF QueryStep
<1>4. QED
  BY <1>1, <1>2, <1>3 DEF LCNext, TableSound

\* Only landmarks that several vertices observe enter the database.
DatabaseSeenElsewhere ==
    \A map \in Maps : /\ map.insertEdges \in BOOLEAN
                      /\ map.insertEdges => SeenElsewhere(map.backlinks)

LEMMA InitIsSound ==
    ASSUME IsFiniteSet(Landmarks), DatabaseSeenElsewhere, LCInit
    PROVE  TableSound
<1>1. IInv /\ QueryInv
  BY LCInitCorrect
<1>2. PICK map \in Maps : backlinks = map.backlinks /\ insertEdges = map.insertEdges
  BY DEF LCInit
<1>3. \A l \in Landmarks : oldToNew[l] = None
  BY DEF LCInit
<1>4. IsTable(oldToNew)
  <2> DEFINE final == [l \in Landmarks |-> l]
             depth == [l \in Landmarks |-> 0]
             gone == {x \in Landmarks : oldToNew[x] # None}
  <2>1. Cardinality(gone) \in Nat
    BY FS_Subset, FS_CardinalityType
  <2>2. 0 <= Cardinality(gone)
    <3> HIDE DEF gone
    <3>1. QED
      BY <2>1
  <2>3. oldToNew \in [Landmarks -> Landmarks \cup {None}]
    BY DEF LCInit
  <2>4. Leads(oldToNew, final, depth)
    BY <1>3, <2>2, <2>3 DEF Leads
  <2>5. QED
    BY <2>4 DEF IsTable
<1>5. Merged = {} /\ Known = InIndex /\ InIndex \subseteq Landmarks
  BY <1>3 DEF Merged, Known, InIndex
<1>6. \A l \in Known : After(oldToNew, l) \in InIndex
  BY <1>3, <1>4, <1>5, TableLeads
<1>7. TableInv
  BY <1>4, <1>5, <1>6 DEF TableInv, LCInit
<1>8. BooksInv
  <2>1. insertEdges => SeenElsewhere(backlinks)
    BY <1>2 DEF DatabaseSeenElsewhere
  <2>2. ASSUME NEW v \in Queries PROVE BooksOf(v)
    <3>1. /\ matches[v] = <<>> /\ seen[v] = <<>> /\ resolved[v] = <<>>
          /\ pc[v] = "find"
      BY DEF LCInit
    <3>2. \A S : <<>> \in Seq(S)
      OBVIOUS
    <3>3. Len(<<>>) = 0 /\ DOMAIN <<>> = {} /\ <<>> \in [{} -> Known \cup {None}]
      OBVIOUS
    <3>4. QED
      BY <3>1, <3>2, <3>3 DEF BooksOf
  <2>3. insertEdges \in BOOLEAN
    BY <1>2 DEF DatabaseSeenElsewhere
  <2>4. QED
    BY <1>5, <2>1, <2>2, <2>3 DEF BooksInv, LCInit
<1>9. QED
  BY <1>1, <1>7, <1>8 DEF TableSound, LCInit

LEMMA SoundTableLeads ==
    ASSUME TableSound
    PROVE  TableLeadsToMap
<1>1. QueryInv /\ TableInv /\ BooksInv
  BY DEF TableSound
<1>2. ASSUME NEW v \in Queries
      PROVE  /\ matches[v] \in Seq(Matches(v))
             /\ seen[v] \in [DOMAIN seen[v] -> Landmarks \cup {None, Torn}]
             /\ DOMAIN seen[v] \subseteq Matched(v)
             /\ resolved[v] \in Seq(Landmarks)
             /\ inliers[v] \in Seq(DOMAIN matches[v])
             /\ handled[v] \in 0 .. Len(inliers[v])
  <2>1. BooksOf(v) /\ Known \subseteq Landmarks
    BY <1>1 DEF BooksInv, Known, InIndex, Merged
  <2>2. resolved[v] \in Seq(Landmarks)
    BY <2>1, SeqMonotonic DEF BooksOf
  <2>3. inliers[v] \in Seq(DOMAIN matches[v])
    <3>1. /\ inliers[v] \in Seq(Nat)
          /\ \A n \in 1 .. Len(inliers[v]) : inliers[v][n] \in 1 .. Len(matches[v])
      BY <1>1 DEF QueryInv
    <3>2. DOMAIN matches[v] = 1 .. Len(matches[v])
      BY <2>1, LenProperties DEF BooksOf
    <3>3. Len(inliers[v]) \in Nat /\ DOMAIN inliers[v] = 1 .. Len(inliers[v])
      BY <3>1, LenProperties
    <3>4. inliers[v] \in [1 .. Len(inliers[v]) -> DOMAIN matches[v]]
      BY <3>1, <3>2, <3>3
    <3>5. QED
      BY <3>3, <3>4, SeqOfFunction
  <2>4. handled[v] \in 0 .. Len(inliers[v])
    <3>1. pc[v] \in Steps /\ handled[v] \in Nat /\ Len(inliers[v]) \in Nat
      BY <1>1, LenProperties DEF QueryInv
    <3>2. CASE pc[v] \in {"merge", "associate"}
      BY <1>1, <3>1, <3>2 DEF QueryInv
    <3>3. CASE pc[v] \notin {"merge", "associate"}
      <4>1. handled[v] = 0
        BY <1>1, <2>1, <3>1, <3>3 DEF QueryInv, BooksOf, Early, Steps
      <4>2. QED
        BY <3>1, <4>1
    <3>4. QED
      BY <3>2, <3>3
  <2>5. QED
    BY <2>1, <2>2, <2>3, <2>4 DEF BooksOf
<1>3. oldToNew \in [Landmarks -> Landmarks \cup {None}]
  BY <1>1 DEF TableInv, IsTable, Leads
<1>4. LCTypeOK
  BY <1>1, <1>2, <1>3 DEF LCTypeOK, QueryInv, BooksInv
<1>5. \A l \in Landmarks : oldToNew[l] # None => /\ l \notin InIndex
                                                 /\ AfterMerges(l) \in InIndex
  BY <1>1, AfterMergesIs DEF TableInv, Merged, Known
<1>6. QED
  BY <1>4, <1>5 DEF TableLeadsToMap, TableSound, IInv
-----------------------------------------------------------------------------
(* A match is only given up for another one.                               *)

\* What a keypoint has become stays what its landmark has become.
Along(k) ==
    /\ \A x \in Landmarks : observed[k] = After(oldToNew, x)
                               => observed'[k] = After(oldToNew', x)
    /\ observed[k] # None => observed'[k] # None

Coherent ==
    \A x, y \in Landmarks : After(oldToNew, x) = After(oldToNew, y)
                               => After(oldToNew', x) = After(oldToNew', y)

\* The inliers of a query, and what it has read, stay as they are.
InliersKept(u) ==
    inliers[u] # <<>> => /\ inliers'[u] = inliers[u]
                         /\ matches'[u] = matches[u]
                         /\ seen'[u] = seen[u]

LEMMA InlierOf ==
    ASSUME TableSound, NEW u \in Queries, NEW n \in DOMAIN inliers[u]
    PROVE  /\ inliers[u] # <<>> /\ n \in 1 .. Len(inliers[u])
           /\ inliers[u][n] \in 1 .. Len(matches[u])
           /\ matches[u][inliers[u][n]][2] \in Landmarks
           /\ Keypoint(u, inliers[u][n]) \in Matched(u)
<1>1. QueryInv /\ TableInv /\ BooksOf(u)
  BY DEF TableSound, BooksInv
<1>2. inliers[u] \in Seq(Nat)
  BY <1>1 DEF QueryInv
<1>3. n \in 1 .. Len(inliers[u]) /\ inliers[u] # <<>>
  BY <1>2, LenProperties, EmptySeq
<1>4. inliers[u][n] \in 1 .. Len(matches[u])
  BY <1>1, <1>3 DEF QueryInv
<1>5. QED
  BY <1>1, <1>3, <1>4, MatchIsKnown DEF Keypoint

LEMMA SeenKeypoint ==
    ASSUME TableSound, NEW u \in Queries, NEW k \in DOMAIN seen[u]
    PROVE  /\ k \in AllKeypoints /\ k[1] = u
           /\ seen[u][k] # None => seen[u][k] \in Landmarks
<1>1. BooksOf(u) /\ TableInv
  BY DEF TableSound, BooksInv
<1>2. PICK i \in DOMAIN matches[u] : k = matches[u][i][1]
  BY <1>1 DEF BooksOf, Matched
<1>3. i \in 1 .. Len(matches[u])
  BY <1>1, <1>2, LenProperties DEF BooksOf
<1>4. seen[u][k] \in Known \cup {None}
  BY <1>1 DEF BooksOf
<1>5. QED
  BY <1>1, <1>2, <1>3, <1>4, MatchIsKnown DEF Keypoint, Known, InIndex, Merged

LEMMA ShownStays ==
    ASSUME TableSound, Coherent, \A u \in Queries : InliersKept(u),
           NEW id \in Landmarks, Shown(id)
    PROVE  Shown(id)'
<1>0. PICK u \in Queries :
          \E n \in DOMAIN inliers[u] :
              /\ QueryLandmark(u, inliers[u][n]) = id
              /\ MatchedTo(u, inliers[u][n]) = After(oldToNew, id)
  BY DEF Shown
<1>1. PICK n \in DOMAIN inliers[u] :
          /\ QueryLandmark(u, inliers[u][n]) = id
          /\ MatchedTo(u, inliers[u][n]) = After(oldToNew, id)
  BY <1>0
<1>2. /\ matches[u][inliers[u][n]][2] \in Landmarks
      /\ inliers'[u] = inliers[u] /\ matches'[u] = matches[u] /\ seen'[u] = seen[u]
  BY InlierOf DEF InliersKept
<1>3. MatchedTo(u, inliers[u][n])' = After(oldToNew', id)
  BY <1>1, <1>2 DEF Coherent, MatchedTo
<1>4. QueryLandmark(u, inliers[u][n])' = id
  BY <1>1, <1>2 DEF QueryLandmark, Keypoint
<1>5. n \in DOMAIN inliers'[u]
  BY <1>2
<1>6. QED
  BY <1>2, <1>3, <1>4, <1>5 DEF Shown, MatchedTo, QueryLandmark, Keypoint

\* The keypoints of a query that the step does not touch.
LEMMA FollowedStays ==
    ASSUME TableSound, Coherent, NEW u \in Queries, Followed(u),
           InliersKept(u), seen'[u] = seen[u], matches'[u] = matches[u],
           \A k \in AllKeypoints : Along(k),
           \A k \in AllKeypoints : k[1] = u /\ observed[k] = None => observed'[k] = None
    PROVE  Followed(u)'
<1>1. ASSUME NEW k \in DOMAIN seen[u], seen[u][k] # None
      PROVE  observed'[k] = After(oldToNew', seen[u][k])
  <2>1. k \in AllKeypoints /\ seen[u][k] \in Landmarks
    BY <1>1, SeenKeypoint
  <2>2. observed[k] = After(oldToNew, seen[u][k])
    BY <1>1 DEF Followed
  <2>3. QED
    BY <2>1, <2>2 DEF Along
<1>2. ASSUME NEW k \in DOMAIN seen[u], seen[u][k] = None, observed'[k] # None
      PROVE  \E n \in DOMAIN inliers'[u] :
                 /\ matches[u][inliers'[u][n]][1] = k
                 /\ observed'[k] = After(oldToNew', matches[u][inliers'[u][n]][2])
  <2>1. k \in AllKeypoints /\ k[1] = u
    BY SeenKeypoint
  <2>2. observed[k] # None
    BY <1>2, <2>1
  <2>3. PICK n \in DOMAIN inliers[u] :
            /\ Keypoint(u, inliers[u][n]) = k
            /\ observed[k] = MatchedTo(u, inliers[u][n])
    BY <1>2, <2>2 DEF Followed
  <2>4. matches[u][inliers[u][n]][2] \in Landmarks /\ inliers[u] # <<>>
    BY InlierOf
  <2>5. inliers'[u] = inliers[u]
    BY <2>4 DEF InliersKept
  <2>6. observed'[k] = After(oldToNew', matches[u][inliers[u][n]][2])
    BY <2>1, <2>3, <2>4 DEF Along, MatchedTo
  <2>7. QED
    BY <2>3, <2>5, <2>6 DEF Keypoint
<1>3. QED
  BY <1>1, <1>2 DEF Followed, MatchedTo, Keypoint

\* A query has done no more than its inliers, and read what they observed.
LEMMA DoneAreInliers ==
    ASSUME TableSound, NEW u \in Queries, NEW m,
           m \in 1 .. MergesDone(u) \/ m \in 1 .. AssociationsDone(u)
    PROVE  /\ m \in DOMAIN inliers[u]
           /\ Keypoint(u, inliers[u][m]) \in DOMAIN seen[u]
           /\ Keypoint(u, inliers[u][m]) \in AllKeypoints
           /\ QueryLandmark(u, inliers[u][m]) \in Landmarks \cup {None}
<1>1. QueryInv /\ BooksOf(u)
  BY DEF TableSound, BooksInv
<1>2. /\ inliers[u] \in Seq(Nat) /\ Len(inliers[u]) \in Nat /\ handled[u] \in Nat
      /\ DOMAIN inliers[u] = 1 .. Len(inliers[u])
  BY <1>1, LenProperties DEF QueryInv
<1>3. pc[u] \in {"merge", "associate", "done"}
  BY DEF MergesDone, AssociationsDone
<1>4. m \in 1 .. Len(inliers[u])
  <2>1. CASE pc[u] = "merge"
    <3>1. MergesDone(u) = handled[u] /\ AssociationsDone(u) = 0
      BY <2>1 DEF MergesDone, AssociationsDone
    <3>2. handled[u] < Len(inliers[u])
      BY <1>1, <2>1 DEF QueryInv
    <3>3. QED
      BY <1>2, <3>1, <3>2
  <2>2. CASE pc[u] = "associate"
    <3>1. MergesDone(u) = Len(inliers[u]) /\ AssociationsDone(u) = handled[u]
      BY <2>2 DEF MergesDone, AssociationsDone
    <3>2. handled[u] < Len(inliers[u])
      BY <1>1, <2>2 DEF QueryInv
    <3>3. QED
      BY <1>2, <3>1, <3>2
  <2>3. CASE pc[u] = "done"
    <3>1. MergesDone(u) = Len(inliers[u]) /\ AssociationsDone(u) = Len(inliers[u])
      BY <2>3 DEF MergesDone, AssociationsDone
    <3>2. QED
      BY <1>2, <3>1
  <2>4. QED
    BY <1>3, <2>1, <2>2, <2>3
<1>5. Keypoint(u, inliers[u][m]) \in Matched(u)
  BY <1>2, <1>4, InlierOf
<1>6. Keypoint(u, inliers[u][m]) \in DOMAIN seen[u]
  BY <1>1, <1>3, <1>5 DEF BooksOf
<1>7. QED
  BY <1>2, <1>4, <1>6, SeenKeypoint DEF QueryLandmark

\* What a query has done so far stays done.
LEMMA DoneStays ==
    ASSUME TableSound, Coherent, \A w \in Queries : InliersKept(w),
           NEW u \in Queries, InliersDone(u), \A k \in AllKeypoints : Along(k),
           inliers'[u] = inliers[u], matches'[u] = matches[u], seen'[u] = seen[u]
    PROVE  /\ \A m \in 1 .. MergesDone(u) :
                  QueryLandmark(u, inliers[u][m])' # None
                      => Shown(QueryLandmark(u, inliers[u][m]))'
           /\ \A m \in 1 .. AssociationsDone(u) :
                  observed'[Keypoint(u, inliers[u][m])'] # None
<1>1. ASSUME NEW m \in 1 .. MergesDone(u), NEW id,
             id = QueryLandmark(u, inliers[u][m]), id # None
      PROVE  Shown(id)'
  <2>1. id \in Landmarks
    BY <1>1, DoneAreInliers
  <2>2. Shown(id)
    BY <1>1 DEF InliersDone
  <2>3. QED
    BY <2>1, <2>2, ShownStays
<1>2. ASSUME NEW m \in 1 .. AssociationsDone(u)
      PROVE  observed'[Keypoint(u, inliers[u][m])] # None
  <2>1. Keypoint(u, inliers[u][m]) \in AllKeypoints
    BY DoneAreInliers
  <2>2. observed[Keypoint(u, inliers[u][m])] # None
    BY DEF InliersDone
  <2>3. QED
    BY <2>1, <2>2 DEF Along
<1>3. \A m : /\ QueryLandmark(u, inliers[u][m])' = QueryLandmark(u, inliers[u][m])
             /\ Keypoint(u, inliers[u][m])' = Keypoint(u, inliers[u][m])
  BY DEF QueryLandmark, Keypoint
<1>4. \A m \in 1 .. MergesDone(u) :
          QueryLandmark(u, inliers[u][m])' # None
              => Shown(QueryLandmark(u, inliers[u][m]))'
  <2> SUFFICES ASSUME NEW m \in 1 .. MergesDone(u),
                      QueryLandmark(u, inliers[u][m])' # None
               PROVE  Shown(QueryLandmark(u, inliers[u][m]))'
    OBVIOUS
  <2>1. PICK id : id = QueryLandmark(u, inliers[u][m])
    OBVIOUS
  <2>2. Shown(id)'
    BY <1>1, <1>3, <2>1
  <2>3. id = QueryLandmark(u, inliers[u][m])'
    BY <1>3, <2>1
  <2>4. QED
    BY <2>2, <2>3 DEF Shown
<1>5. QED
  BY <1>2, <1>3, <1>4
\* The queries but v, where v keeps what holds and its inliers.
LEMMA OthersStay ==
    ASSUME TableSound, MergeInv, ~insertEdges, NEW v \in Queries, Coherent,
           \A w \in Queries : InliersKept(w),
           \A u \in Queries \ {v} :
               /\ matches'[u] = matches[u] /\ seen'[u] = seen[u]
               /\ inliers'[u] = inliers[u]
               /\ handled'[u] = handled[u] /\ pc'[u] = pc[u],
           \A k \in AllKeypoints : Along(k),
           \A k \in AllKeypoints : k[1] # v /\ observed[k] = None => observed'[k] = None
    PROVE  \A u \in Queries \ {v} : Followed(u)' /\ InliersDone(u)'
<1> SUFFICES ASSUME NEW u \in Queries \ {v} PROVE Followed(u)' /\ InliersDone(u)'
  OBVIOUS
<1>1. Followed(u) /\ InliersDone(u)
  BY DEF MergeInv
<1>2. Followed(u)'
  BY <1>1, FollowedStays
<1>3. MergesDone(u)' = MergesDone(u) /\ AssociationsDone(u)' = AssociationsDone(u)
  BY DEF MergesDone, AssociationsDone
<1>4. /\ \A m \in 1 .. MergesDone(u) :
             QueryLandmark(u, inliers[u][m])' # None
                 => Shown(QueryLandmark(u, inliers[u][m]))'
      /\ \A m \in 1 .. AssociationsDone(u) :
             observed'[Keypoint(u, inliers[u][m])'] # None
  BY <1>1, DoneStays
<1>5. InliersDone(u)'
  BY <1>3, <1>4 DEF InliersDone, Shown, QueryLandmark, Keypoint
<1>6. QED
  BY <1>2, <1>5

\* The steps that change neither the map nor the table.
LEMMA QuietStepShows ==
    ASSUME TableSound, MergeInv, ~insertEdges, NEW v \in Queries,
           UNCHANGED <<observed, oldToNew, insertEdges>>,
           \A u \in Queries \ {v} :
               /\ matches'[u] = matches[u] /\ seen'[u] = seen[u]
               /\ inliers'[u] = inliers[u]
               /\ handled'[u] = handled[u] /\ pc'[u] = pc[u],
           inliers[v] = <<>>, Followed(v)', InliersDone(v)'
    PROVE  MergeInv'
<1>1. Coherent /\ \A k \in AllKeypoints : Along(k)
  BY DEF Coherent, Along
<1>2. \A w \in Queries : InliersKept(w)
  BY DEF InliersKept
<1>3. \A u \in Queries \ {v} : Followed(u)' /\ InliersDone(u)'
  BY <1>1, <1>2, OthersStay
<1>4. ASSUME NEW id \in Merged PROVE Shown(id)'
  <2>1. id \in Landmarks /\ Shown(id)
    BY DEF MergeInv, Merged
  <2>2. QED
    BY <1>1, <1>2, <2>1, ShownStays
<1>5. Merged' = Merged
  BY DEF Merged
<1>6. QED
  BY <1>3, <1>4, <1>5 DEF MergeInv

LEMMA EarlyStepShows ==
    ASSUME IsFiniteSet(Landmarks), ~IdsTear, TableSound, MergeInv, ~insertEdges,
           NEW v \in Queries, Find(v) \/ Read(v) \/ Resolve(v) \/ Ransac(v)
    PROVE  MergeInv'
<1>1. QueryInv /\ TableInv /\ BooksInv /\ BooksOf(v) /\ IInv
  BY DEF TableSound, BooksInv
<1>2. pc[v] \in Early /\ inliers[v] = <<>> /\ handled[v] = 0
  BY <1>1 DEF Find, Read, Resolve, Ransac, At, Early, QueryInv
<1>3. UNCHANGED vars /\ UNCHANGED <<handled, oldToNew, insertEdges>>
  BY ResolveKeepsBooks DEF Find, Read, Resolve, Ransac
<1>4. Followed(v)
  BY DEF MergeInv
<1>5. \A u \in Queries \ {v} :
          /\ matches'[u] = matches[u] /\ seen'[u] = seen[u]
          /\ inliers'[u] = inliers[u]
          /\ handled'[u] = handled[u] /\ pc'[u] = pc[u]
  BY <1>1 DEF Find, Read, Resolve, Ransac, Goto, QueryInv, BooksInv
<1>6. InliersDone(v)'
  <2>1. CASE Ransac(v)
    <3>1. \/ inliers'[v] = <<>>
          \/ pc'[v] = "merge"
      BY <1>1, <1>2, <2>1 DEF Ransac, Goto, QueryInv
    <3>2. QED
      BY <1>2, <1>3, <3>1 DEF InliersDone, MergesDone, AssociationsDone
  <2>2. CASE Find(v) \/ Read(v) \/ Resolve(v)
    <3>1. inliers'[v] = <<>>
      BY <1>2, <2>2 DEF Find, Read, Resolve
    <3>2. QED
      BY <1>2, <1>3, <3>1 DEF InliersDone, MergesDone, AssociationsDone
  <2>3. QED
    BY <2>1, <2>2
<1>7. Followed(v)'
  <2>1. CASE Find(v)
    <3>1. seen'[v] = <<>>
      BY <1>1, <2>1 DEF Find, At, BooksOf
    <3>2. QED
      BY <3>1 DEF Followed
  <2>2. CASE Read(v)
    <3>1. ASSUME NEW k \in DOMAIN seen'[v]
          PROVE  IF seen'[v][k] # None
                 THEN observed[k] = After(oldToNew, seen'[v][k])
                 ELSE observed[k] = None
      <4>1. CASE k \in DOMAIN seen[v] /\ seen'[v][k] = seen[v][k]
        <5>1. DOMAIN inliers[v] = {}
          BY <1>2
        <5>2. QED
          BY <1>4, <4>1, <5>1 DEF Followed
      <4>2. CASE k \in Matched(v) /\ seen'[v][k] = observed[k]
        <5>1. k \in AllKeypoints
          <6>1. PICK i \in DOMAIN matches[v] : k = matches[v][i][1]
            BY <4>2 DEF Matched
          <6>2. i \in 1 .. Len(matches[v])
            BY <1>1, <6>1, LenProperties DEF BooksOf
          <6>3. QED
            BY <1>1, <6>1, <6>2, MatchIsKnown DEF Keypoint
        <5>2. CASE observed[k] # None
          <6>1. observed[k] \in InIndex /\ observed[k] \in Landmarks
            BY <1>1, <5>1, <5>2
            DEF IInv, Consistent, NothingDangles, TypeOK, InIndex
          <6>2. oldToNew[observed[k]] = None
            BY <1>1, <6>1 DEF TableInv, Merged
          <6>3. After(oldToNew, observed[k]) = observed[k]
            BY <1>1, <6>1, <6>2, TableLeads DEF TableInv
          <6>4. QED
            BY <4>2, <5>2, <6>3
        <5>3. QED
          BY <4>2, <5>2
      <4>3. QED
        <5>1. CASE seen' = seen
          BY <4>1, <5>1
        <5>2. ASSUME NEW j \in Matched(v) \ DOMAIN seen[v],
                     seen' = [seen EXCEPT ![v] =
                                 [x \in DOMAIN seen[v] \cup {j} |->
                                     IF x = j THEN observed[j] ELSE seen[v][x]]]
              PROVE  IF seen'[v][k] # None
                     THEN observed[k] = After(oldToNew, seen'[v][k])
                     ELSE observed[k] = None
          <6>1. seen'[v] = [x \in DOMAIN seen[v] \cup {j} |->
                               IF x = j THEN observed[j] ELSE seen[v][x]]
            BY <1>1, <5>2 DEF BooksInv
          <6>2. QED
            BY <4>1, <4>2, <6>1
        <5>3. QED
          BY <2>2, <5>1, <5>2 DEF Read
    <3>2. UNCHANGED <<observed, oldToNew>>
      BY <1>3 DEF vars, landmarkVars
    <3>3. QED
      BY <3>1, <3>2 DEF Followed
  <2>3. CASE Resolve(v) \/ Ransac(v)
    <3>1. UNCHANGED <<observed, oldToNew, seen, matches>>
      BY <1>3, <2>3 DEF vars, landmarkVars, Resolve, Ransac
    <3>2. \A k \in DOMAIN seen[v] : seen[v][k] = None => observed[k] = None
      BY <1>2, <1>4 DEF Followed
    <3>3. QED
      BY <1>4, <3>1, <3>2 DEF Followed
  <2>4. QED
    BY <2>1, <2>2, <2>3
<1>8. UNCHANGED <<observed, oldToNew, insertEdges>>
  BY <1>3 DEF vars, landmarkVars
<1>9. QED
  BY <1>2, <1>5, <1>6, <1>7, <1>8, QuietStepShows
\* A merge takes the keypoints along.
LEMMA MergeTakesAlong ==
    ASSUME IInv, TableInv, NEW old \in InIndex, NEW new \in InIndex,
           MergeLandmarks(old, new), \A l \in Landmarks : Moved(l, old, new)
    PROVE  /\ \A k \in AllKeypoints : Along(k)
           /\ \A k \in AllKeypoints : observed[k] = None => observed'[k] = None
           /\ Coherent
<1>1. old \in Landmarks /\ new \in Landmarks /\ new # None /\ old # None
  BY VIMapAssumption DEF InIndex
<1>2. \A k \in AllKeypoints : /\ observed[k] = old => observed'[k] = new
                              /\ observed[k] # old => observed'[k] = observed[k]
  BY <1>1 DEF MergeLandmarks, IInv, Consistent, LinksAgree
<1>3. QED
  BY <1>1, <1>2 DEF Along, Coherent, Moved

LEMMA MergeShows ==
    ASSUME IsFiniteSet(Landmarks), TableSound, MergeInv, ~insertEdges,
           NEW v \in Queries, Merge(v)
    PROVE  MergeInv'
<1>1. QueryInv /\ TableInv /\ BooksInv /\ BooksOf(v) /\ IInv /\ pc[v] = "merge"
  BY DEF TableSound, BooksInv, Merge, At
<1>0. PICK i, old, l, new :
          /\ i = Inlier(v)
          /\ old = QueryLandmark(v, i)
          /\ l = resolved[v][i]
          /\ new = After(oldToNew, l)
  OBVIOUS
<1>2. /\ i \in 1 .. Len(matches[v]) /\ handled[v] + 1 \in 1 .. Len(inliers[v])
      /\ i = inliers[v][handled[v] + 1] /\ Keypoint(v, i) \in DOMAIN seen[v]
      /\ old \in Known \cup {None} /\ l \in Known
      /\ new = After(oldToNew, matches[v][i][2])
  BY <1>0, <1>1, InlierIsKnown
<1>3. /\ Advance(v, "associate")
      /\ UNCHANGED <<matches, seen, resolved, inliers, mapMutex, insertEdges>>
  BY DEF Merge
<1>4. /\ \/ pc'[v] = "merge" /\ handled'[v] = handled[v] + 1
         \/ /\ pc'[v] = "associate" /\ handled'[v] = 0
            /\ handled[v] + 1 = Len(inliers[v])
      /\ \A u \in Queries \ {v} : pc'[u] = pc[u] /\ handled'[u] = handled[u]
  BY <1>1, <1>3, AdvanceGoes
<1>5. \A w \in Queries : InliersKept(w)
  BY <1>3 DEF InliersKept
<1>6. Known \subseteq Landmarks /\ matches[v][i][2] \in Landmarks /\ new \in Landmarks
  <2>1. Known \subseteq Landmarks
    BY DEF Known, InIndex, Merged
  <2>2. matches[v][i][2] \in Landmarks
    BY <1>1, <1>2, MatchIsKnown
  <2>3. l \in Landmarks /\ IsTable(oldToNew)
    BY <1>1, <1>2, <2>1 DEF TableInv
  <2>4. After(oldToNew, l) \in Landmarks
    BY <2>3, TableLeads
  <2>5. QED
    BY <1>0, <2>1, <2>2, <2>4
<1>7. handled[v] + 1 \in DOMAIN inliers[v]
  BY <1>1, <1>2, LenProperties DEF QueryInv
<1>8. /\ Coherent
      /\ \A k \in AllKeypoints : Along(k)
      /\ \A k \in AllKeypoints : observed[k] = None => observed'[k] = None
      /\ old # None => Shown(old)'
      /\ Merged' \subseteq Merged \cup {old}
      /\ old \in Merged' \ Merged => old # None
  <2>1. CASE ~MustMerge(old, l) /\ UNCHANGED <<vars, oldToNew>>
    <3>1. UNCHANGED <<observed, oldToNew>>
      BY <2>1 DEF vars, landmarkVars
    <3>2. Coherent /\ \A k \in AllKeypoints : Along(k)
      BY <3>1 DEF Coherent, Along
    <3>3. Merged' = Merged
      BY <3>1 DEF Merged
    <3>4. ASSUME old # None PROVE Shown(old)
      <4>1. old \in Landmarks
        BY <1>2, <1>6, <3>4
      <4>2. old = l \/ oldToNew[old] # None \/ old = new
        BY <1>0, <2>1, <3>4, <4>1, AfterMergesIs DEF MustMerge
      <4>3. CASE oldToNew[old] # None
        BY <4>1, <4>3 DEF MergeInv, Merged
      <4>4. CASE old = l \/ old = new
        <5>1. After(oldToNew, old) = new
          <6>1. l \in Landmarks /\ IsTable(oldToNew)
            BY <1>1, <1>2, <1>6 DEF TableInv
          <6>2. After(oldToNew, After(oldToNew, l)) = After(oldToNew, l)
            BY <6>1, TableLeads
          <6>3. QED
            BY <1>0, <4>4, <6>2
        <5>2. /\ QueryLandmark(v, inliers[v][handled[v] + 1]) = old
              /\ MatchedTo(v, inliers[v][handled[v] + 1]) = After(oldToNew, old)
          BY <1>0, <1>2, <5>1 DEF MatchedTo
        <5>3. QED
          BY <1>7, <5>2 DEF Shown
      <4>5. QED
        BY <4>2, <4>3, <4>4
    <3>5. old # None => Shown(old)'
      <4>1. old # None => old \in Landmarks /\ Shown(old)
        BY <1>2, <1>6, <3>4
      <4>2. QED
        BY <1>5, <3>2, <4>1, ShownStays
    <3>6. QED
      BY <3>1, <3>2, <3>3, <3>5
  <2>2. CASE /\ old \in InIndex /\ new \in InIndex /\ old # new
             /\ oldToNew' = Entered(old, new) /\ MergeLandmarks(old, new)
    <3>1. /\ Merged' = Merged \cup {old}
          /\ \A x \in Landmarks : Moved(x, old, new)
      BY <1>1, <2>2, MergeEntersTable
    <3>2. /\ \A k \in AllKeypoints : Along(k)
          /\ \A k \in AllKeypoints : observed[k] = None => observed'[k] = None
          /\ Coherent
      BY <1>1, <2>2, <3>1, MergeTakesAlong
    <3>3. old \in Landmarks /\ old # None /\ old \notin Merged
      BY <1>1, <2>2, VIMapAssumption DEF InIndex, TableInv
    <3>4. After(oldToNew, old) = old
      BY <1>1, <3>3, TableLeads DEF TableInv, Merged
    <3>5. After(oldToNew', old) = new /\ After(oldToNew', matches[v][i][2]) = new
      BY <1>2, <1>6, <2>2, <3>1, <3>3, <3>4 DEF Moved
    <3>6. Shown(old)'
      <4>1. PICK n : n = handled[v] + 1
        OBVIOUS
      <4>2. /\ inliers'[v][n] = i /\ n \in DOMAIN inliers'[v]
            /\ seen'[v][matches'[v][i][1]] = old
            /\ After(oldToNew', matches'[v][i][2]) = After(oldToNew', old)
        BY <1>0, <1>2, <1>3, <1>7, <3>5, <4>1 DEF QueryLandmark, Keypoint
      <4>3. QED
        BY <4>2 DEF Shown, QueryLandmark, MatchedTo, Keypoint
    <3>7. QED
      BY <3>1, <3>2, <3>3, <3>6
  <2>3. QED
    BY <1>0, <2>1, <2>2, MergeCases
<1>9. \A u \in Queries \ {v} : Followed(u)' /\ InliersDone(u)'
  BY <1>3, <1>4, <1>5, <1>8, OthersStay
<1>10. Followed(v)'
  BY <1>3, <1>5, <1>8, FollowedStays DEF MergeInv
<1>11. InliersDone(v)'
  <2>1. /\ MergesDone(v)' = handled[v] + 1 /\ AssociationsDone(v)' = 0
        /\ MergesDone(v) = handled[v] /\ handled[v] \in Nat
    <3>1. handled[v] \in Nat /\ inliers'[v] = inliers[v]
      BY <1>1, <1>3 DEF QueryInv
    <3>2. QED
      BY <1>1, <1>4, <3>1 DEF MergesDone, AssociationsDone
  <2>2. \A m \in 1 .. MergesDone(v) :
            QueryLandmark(v, inliers[v][m])' # None
                => Shown(QueryLandmark(v, inliers[v][m]))'
    BY <1>3, <1>5, <1>8, DoneStays DEF MergeInv
  <2>3. QueryLandmark(v, inliers[v][handled[v] + 1]) = old
    BY <1>0, <1>2
  <2>4. ASSUME NEW m \in 1 .. MergesDone(v)', NEW id,
               id = QueryLandmark(v, inliers[v][m])', id # None
        PROVE  Shown(id)'
    <3>1. CASE m = handled[v] + 1
      <4>1. id = old
        BY <1>3, <2>3, <2>4, <3>1 DEF QueryLandmark, Keypoint
      <4>2. QED
        BY <1>8, <2>4, <4>1
    <3>2. CASE m # handled[v] + 1
      <4>1. m \in 1 .. MergesDone(v)
        BY <2>1, <3>2
      <4>2. QED
        BY <2>2, <2>4, <4>1
    <3>3. QED
      BY <3>1, <3>2
  <2>5. QED
    BY <2>1, <2>4 DEF InliersDone
<1>12. ASSUME NEW id \in Merged' PROVE Shown(id)'
  <2>1. CASE id \in Merged
    <3>1. id \in Landmarks /\ Shown(id)
      BY <2>1 DEF MergeInv, Merged
    <3>2. QED
      BY <1>5, <1>8, <3>1, ShownStays
  <2>2. CASE id \notin Merged
    BY <1>8, <2>2
  <2>3. QED
    BY <2>1, <2>2
<1>13. QED
  BY <1>9, <1>10, <1>11, <1>12 DEF MergeInv

LEMMA AssociateShows ==
    ASSUME IsFiniteSet(Landmarks), TableSound, MergeInv, ~insertEdges,
           NEW v \in Queries, AssociateInlier(v)
    PROVE  MergeInv'
<1>1. /\ QueryInv /\ TableInv /\ BooksInv /\ BooksOf(v) /\ IInv
      /\ pc[v] = "associate"
  BY DEF TableSound, BooksInv, AssociateInlier, At
<1>0. PICK i, k, l :
          /\ i = Inlier(v)
          /\ k = Keypoint(v, i)
          /\ l = After(oldToNew, resolved[v][i])
  OBVIOUS
<1>2. /\ i \in 1 .. Len(matches[v]) /\ handled[v] + 1 \in 1 .. Len(inliers[v])
      /\ i = inliers[v][handled[v] + 1] /\ k \in DOMAIN seen[v]
      /\ l = After(oldToNew, matches[v][i][2])
  BY <1>0, <1>1, InlierIsKnown
<1>3. k \in AllKeypoints /\ k[1] = v
  BY <1>2, SeenKeypoint
<1>4. /\ Advance(v, "done")
      /\ UNCHANGED <<matches, seen, resolved, inliers, oldToNew, insertEdges>>
  BY DEF AssociateInlier
<1>5. /\ \/ pc'[v] = "associate" /\ handled'[v] = handled[v] + 1
         \/ /\ pc'[v] = "done" /\ handled'[v] = 0
            /\ handled[v] + 1 = Len(inliers[v])
      /\ \A u \in Queries \ {v} : pc'[u] = pc[u] /\ handled'[u] = handled[u]
  BY <1>1, <1>4, AdvanceGoes
<1>6. \A w \in Queries : InliersKept(w)
  BY <1>4 DEF InliersKept
<1>7. Coherent
  BY <1>4 DEF Coherent
<1>8. handled[v] + 1 \in DOMAIN inliers[v]
  BY <1>1, <1>2, LenProperties DEF QueryInv
<1>9. /\ \A j \in AllKeypoints \ {k} : observed'[j] = observed[j]
      /\ observed[k] # None => observed'[k] = observed[k]
      /\ observed[k] = None => observed'[k] = l
      /\ l # None
  <2>1. \/ observed[k] # None /\ UNCHANGED vars
        \/ observed[k] = None /\ l \in InIndex /\ Associate(k, l)
    BY <1>0, AssociateCases
  <2>2. l # None
    <3>1. matches[v][i][2] \in Landmarks
      BY <1>1, <1>2, MatchIsKnown
    <3>2. l \in Landmarks
      BY <1>1, <1>2, <3>1, TableLeads DEF TableInv
    <3>3. QED
      BY <3>2, VIMapAssumption
  <2>3. CASE UNCHANGED vars
    <3>1. observed[k] # None
      BY <2>1, <2>3, <2>2, <1>1, <1>3 DEF Associate, vars, landmarkVars, IInv, TypeOK
    <3>2. QED
      BY <2>2, <2>3, <3>1 DEF vars, landmarkVars
  <2>4. CASE observed[k] = None /\ Associate(k, l)
    BY <1>1, <1>3, <2>2, <2>4 DEF Associate, IInv, TypeOK
  <2>5. QED
    BY <2>1, <2>3, <2>4
<1>10. \A x \in Landmarks : After(oldToNew, x) # None
  BY <1>1, TableLeads, VIMapAssumption DEF TableInv
<1>11. \A j \in AllKeypoints : Along(j)
  BY <1>4, <1>9, <1>10 DEF Along
<1>12. \A u \in Queries \ {v} : Followed(u)' /\ InliersDone(u)'
  BY <1>3, <1>4, <1>5, <1>6, <1>7, <1>9, <1>11, OthersStay
<1>13. Followed(v)'
  <2>1. CASE observed[k] # None
    <3>1. \A j \in AllKeypoints : observed'[j] = observed[j]
      BY <1>9, <2>1
    <3>2. QED
      BY <1>4, <1>6, <1>7, <1>11, <3>1, FollowedStays DEF MergeInv
  <2>2. CASE observed[k] = None
    <3>1. ASSUME NEW j \in DOMAIN seen[v], seen[v][j] # None
          PROVE  observed'[j] = After(oldToNew, seen[v][j])
      <4>1. j \in AllKeypoints /\ seen[v][j] \in Landmarks
        BY <3>1, SeenKeypoint
      <4>2. observed[j] = After(oldToNew, seen[v][j])
        BY <3>1 DEF MergeInv, Followed
      <4>3. j # k
        BY <1>10, <2>2, <4>1, <4>2
      <4>4. QED
        BY <1>9, <4>1, <4>2, <4>3
    <3>2. ASSUME NEW j \in DOMAIN seen[v], seen[v][j] = None, observed'[j] # None
          PROVE  \E n \in DOMAIN inliers[v] :
                     /\ Keypoint(v, inliers[v][n]) = j
                     /\ observed'[j] = MatchedTo(v, inliers[v][n])
      <4>1. CASE j = k
        BY <1>0, <1>2, <1>8, <1>9, <2>2, <4>1 DEF MatchedTo
      <4>2. CASE j # k
        <5>1. observed'[j] = observed[j]
          BY <1>9, <4>2, SeenKeypoint
        <5>2. QED
          BY <3>2, <5>1 DEF MergeInv, Followed
      <4>3. QED
        BY <4>1, <4>2
    <3>3. QED
      BY <1>4, <3>1, <3>2 DEF Followed, MatchedTo, Keypoint
  <2>3. QED
    BY <2>1, <2>2
<1>14. InliersDone(v)'
  <2>1. /\ MergesDone(v)' = Len(inliers[v]) /\ MergesDone(v) = Len(inliers[v])
        /\ AssociationsDone(v)' = handled[v] + 1 /\ AssociationsDone(v) = handled[v]
        /\ handled[v] \in Nat
    <3>1. handled[v] \in Nat /\ inliers'[v] = inliers[v]
      BY <1>1, <1>4 DEF QueryInv
    <3>2. QED
      BY <1>1, <1>5, <3>1 DEF MergesDone, AssociationsDone
  <2>2. /\ \A m \in 1 .. MergesDone(v) :
               QueryLandmark(v, inliers[v][m])' # None
                   => Shown(QueryLandmark(v, inliers[v][m]))'
        /\ \A m \in 1 .. AssociationsDone(v) :
               observed'[Keypoint(v, inliers[v][m])'] # None
    BY <1>4, <1>6, <1>7, <1>11, DoneStays DEF MergeInv
  <2>3. Keypoint(v, inliers[v][handled[v] + 1]) = k /\ observed'[k] # None
    BY <1>0, <1>2, <1>9
  <2>4. ASSUME NEW m \in 1 .. AssociationsDone(v)'
        PROVE  observed'[Keypoint(v, inliers[v][m])'] # None
    <3>1. CASE m = handled[v] + 1
      BY <1>4, <2>3, <3>1 DEF Keypoint
    <3>2. CASE m # handled[v] + 1
      <4>1. m \in 1 .. AssociationsDone(v)
        BY <2>1, <3>2
      <4>2. QED
        BY <2>2, <4>1
    <3>3. QED
      BY <3>1, <3>2
  <2>5. ASSUME NEW m \in 1 .. MergesDone(v)', NEW id,
               id = QueryLandmark(v, inliers[v][m])', id # None
        PROVE  Shown(id)'
    <3>1. m \in 1 .. MergesDone(v)
      BY <2>1
    <3>2. QED
      BY <2>2, <2>5, <3>1 DEF Shown
  <2>6. QED
    BY <1>4, <2>4, <2>5 DEF InliersDone, Keypoint
<1>15. ASSUME NEW id \in Merged' PROVE Shown(id)'
  <2>1. id \in Merged /\ id \in Landmarks
    BY <1>4 DEF Merged
  <2>2. QED
    BY <1>6, <1>7, <2>1, ShownStays DEF MergeInv
<1>16. QED
  BY <1>12, <1>13, <1>14, <1>15 DEF MergeInv

LEMMA StaysShown ==
    ASSUME IsFiniteSet(Landmarks), ~IdsTear, TableSound, MergeInv, [LCNext]_lcVars
    PROVE  MergeInv'
<1>1. CASE UNCHANGED lcVars
  <2>1. UNCHANGED <<pc, matches, seen, inliers, handled, observed, oldToNew, insertEdges>>
    BY <1>1 DEF lcVars, queryVars, vars, landmarkVars
  <2>2. /\ \A v : MergesDone(v)' = MergesDone(v)
        /\ \A v : AssociationsDone(v)' = AssociationsDone(v)
    BY <2>1 DEF MergesDone, AssociationsDone
  <2>3. \A v, n : /\ Keypoint(v, n)' = Keypoint(v, n)
                 /\ QueryLandmark(v, n)' = QueryLandmark(v, n)
                 /\ MatchedTo(v, n)' = MatchedTo(v, n)
    BY <2>1 DEF MatchedTo, QueryLandmark, Keypoint
  <2>4. /\ \A id : Shown(id)' = Shown(id)
        /\ Merged' = Merged
    BY <2>1, <2>3 DEF Shown, Merged
  <2>5. \A v \in Queries : Followed(v)' = Followed(v)
    BY <2>1, <2>3 DEF Followed
  <2>6. \A v \in Queries : InliersDone(v)' = InliersDone(v)
    BY <2>1, <2>2, <2>3, <2>4 DEF InliersDone
  <2>7. QED
    BY <2>1, <2>4, <2>5, <2>6 DEF MergeInv
<1>2. ASSUME NEW v \in Queries, QueryStep(v) PROVE MergeInv'
  <2>1. insertEdges' = insertEdges
    BY <1>2 DEF QueryStep, Find, Read, Resolve, Ransac, AddEdge, Merge, AssociateInlier
  <2>2. CASE insertEdges
    BY <2>1, <2>2 DEF MergeInv
  <2>3. CASE ~insertEdges
    <3>1. CASE Find(v) \/ Read(v) \/ Resolve(v) \/ Ransac(v)
      BY <2>3, <3>1, EarlyStepShows
    <3>2. CASE AddEdge(v)
      BY <2>3, <3>2 DEF AddEdge, At, TableSound, BooksInv, BooksOf
    <3>3. CASE Merge(v)
      BY <2>3, <3>3, MergeShows
    <3>4. CASE AssociateInlier(v)
      BY <2>3, <3>4, AssociateShows
    <3>5. QED
      BY <1>2, <3>1, <3>2, <3>3, <3>4 DEF QueryStep
  <2>4. QED
    BY <2>2, <2>3
<1>3. QED
  BY <1>1, <1>2 DEF LCNext

LEMMA ShownMeansDropped ==
    ASSUME TableSound, MergeInv
    PROVE  DroppedForAnother
<1> SUFFICES ASSUME NEW v \in Queries, NEW i \in Handled(v), ~IsMerged(v, i)
             PROVE  \E u \in Queries : \E n \in DOMAIN inliers[u] :
                        LET j == inliers[u][n]
                        IN /\ <<u, j>> # <<v, i>>
                           /\ QueryLandmark(u, j) = QueryLandmark(v, i)
                           /\ observed[Keypoint(v, i)] = AfterMerges(matches[u][j][2])
  BY DEF DroppedForAnother
<1>1. pc[v] = "done" /\ ~insertEdges
  BY DEF Handled
<1>2. PICK m \in DOMAIN inliers[v] : i = inliers[v][m]
  BY <1>1 DEF Handled
<1>3. m \in 1 .. MergesDone(v) /\ m \in 1 .. AssociationsDone(v)
  BY <1>1, <1>2, InlierOf DEF MergesDone, AssociationsDone
<1> DEFINE k == Keypoint(v, i)
<1>4. k \in DOMAIN seen[v] /\ QueryLandmark(v, i) = seen[v][k]
  BY <1>2, <1>3, DoneAreInliers DEF QueryLandmark
<1>5. Followed(v) /\ InliersDone(v)
  BY <1>1 DEF MergeInv
<1>6. observed[k] # None
  BY <1>2, <1>3, <1>5 DEF InliersDone
<1>7. \E u \in Queries : \E n \in DOMAIN inliers[u] :
          /\ QueryLandmark(u, inliers[u][n]) = QueryLandmark(v, i)
          /\ observed[k] = MatchedTo(u, inliers[u][n])
  <2>1. CASE QueryLandmark(v, i) # None
    <3>1. Shown(QueryLandmark(v, i))
      BY <1>2, <1>3, <1>5, <2>1 DEF InliersDone
    <3>2. observed[k] = After(oldToNew, QueryLandmark(v, i))
      BY <1>4, <1>5, <2>1 DEF Followed
    <3>3. QED
      BY <3>1, <3>2 DEF Shown
  <2>2. CASE QueryLandmark(v, i) = None
    <3>1. PICK n \in DOMAIN inliers[v] :
              /\ Keypoint(v, inliers[v][n]) = k
              /\ observed[k] = MatchedTo(v, inliers[v][n])
      BY <1>4, <1>5, <1>6, <2>2 DEF Followed
    <3>2. QueryLandmark(v, inliers[v][n]) = QueryLandmark(v, i)
      BY <3>1 DEF QueryLandmark
    <3>3. QED
      BY <3>1, <3>2
  <2>3. QED
    BY <2>1, <2>2
<1>8. PICK u \in Queries :
          \E n \in DOMAIN inliers[u] :
              /\ QueryLandmark(u, inliers[u][n]) = QueryLandmark(v, i)
              /\ observed[k] = MatchedTo(u, inliers[u][n])
  BY <1>7
<1>9. PICK n \in DOMAIN inliers[u] :
          /\ QueryLandmark(u, inliers[u][n]) = QueryLandmark(v, i)
          /\ observed[k] = MatchedTo(u, inliers[u][n])
  BY <1>8
<1>10. observed[k] = AfterMerges(matches[u][inliers[u][n]][2])
  BY <1>9, AfterMergesIs DEF MatchedTo
<1>11. <<u, inliers[u][n]>> # <<v, i>>
  BY <1>10 DEF IsMerged
<1>12. QED
  BY <1>9, <1>10, <1>11

LEMMA InitIsShown == LCInit => MergeInv
<1> SUFFICES ASSUME LCInit PROVE MergeInv
  OBVIOUS
<1>1. \A v \in Queries : seen[v] = <<>> /\ pc[v] = "find"
  BY DEF LCInit
<1>2. \A v \in Queries : Followed(v)
  BY <1>1 DEF Followed
<1>3. \A v \in Queries : InliersDone(v)
  BY <1>1 DEF InliersDone, MergesDone, AssociationsDone
<1>4. Merged = {}
  BY DEF LCInit, Merged
<1>5. QED
  BY <1>2, <1>3, <1>4 DEF MergeInv

LEMMA TableStaysTyped ==
    ASSUME NEW v \in Queries, QueryStep(v),
           oldToNew \in [Landmarks -> Landmarks \cup {None}]
    PROVE  oldToNew' \in [Landmarks -> Landmarks \cup {None}]
<1>1. \/ oldToNew' = oldToNew
      \/ \E old \in InIndex, new \in InIndex : oldToNew' = [oldToNew EXCEPT ![old] = new]
  BY DEF QueryStep, Find, Read, Resolve, Ransac, AddEdge, Merge, AssociateInlier, Entered
<1>2. QED
  BY <1>1 DEF InIndex

LEMMA ObservationsFollow ==
    ASSUME IInv, QueryInv, oldToNew \in [Landmarks -> Landmarks \cup {None}],
           NEW v \in Queries, QueryStep(v), NEW k \in AllKeypoints,
           observed'[k] # observed[k], observed[k] # None
    PROVE  oldToNew'[observed[k]] = observed'[k]
<1>1. CASE Find(v) \/ Read(v) \/ Resolve(v) \/ Ransac(v) \/ AddEdge(v)
  BY <1>1 DEF Find, Read, Resolve, Ransac, AddEdge, AddLoopClosureEdge, Abort, vars,
              landmarkVars
<1>2. CASE AssociateInlier(v)
  <2>1. \/ UNCHANGED landmarkVars
        \/ \E j, l : Associate(j, l)
    BY <1>2 DEF AssociateInlier, Abort, vars, landmarkVars
  <2>2. QED
    BY <2>1 DEF Associate, landmarkVars, IInv, TypeOK
<1>3. CASE Merge(v)
  <2>1. \/ UNCHANGED landmarkVars
        \/ \E old, new \in InIndex : /\ oldToNew' = Entered(old, new)
                                     /\ MergeLandmarks(old, new)
    BY <1>3 DEF Merge, Abort, vars, landmarkVars
  <2>2. ASSUME NEW old \in InIndex, NEW new \in InIndex,
               oldToNew' = Entered(old, new), MergeLandmarks(old, new)
        PROVE  oldToNew'[observed[k]] = observed'[k]
    <3>1. k \in backlinks[old] /\ observed'[k] = new
      BY <2>2 DEF MergeLandmarks
    <3>2. observed[k] = old /\ old \in Landmarks
      BY <3>1 DEF IInv, Consistent, LinksAgree, InIndex
    <3>3. oldToNew'[old] = new
      BY <2>2, <3>2 DEF Entered
    <3>4. QED
      BY <3>1, <3>2, <3>3
  <2>3. QED
    BY <2>1, <2>2 DEF landmarkVars
<1>4. QED
  BY <1>1, <1>2, <1>3 DEF QueryStep

-----------------------------------------------------------------------------
\* Queries change the map by operations of VIMap, and by nothing else, until a
\* CHECK fails.
THEOREM QueriesAreMapSteps == LCSpec => [][[Next]_vars \/ Abort]_lcVars
<1>1. LCInit => QueryInv
  BY LCInitCorrect
<1>2. QueryInv /\ [LCNext]_lcVars => QueryInv'
  BY QueryStaysCorrect
<1>3. QueryInv /\ [LCNext]_lcVars => [[Next]_vars \/ Abort]_lcVars
  BY StepOfMap DEF MapStep
<1>4. QED
  BY <1>1, <1>2, <1>3, PTL DEF LCSpec

\* Whatever the queries find and however they overlap, the index, the stores, the
\* backlinks and the keypoints agree after each of their steps.
THEOREM QueriesKeepMapConsistent == LCSpec => []Consistent
<1>1. LCInit => IInv /\ QueryInv
  BY LCInitCorrect
<1>2. IInv /\ QueryInv /\ [LCNext]_lcVars => (IInv /\ QueryInv)'
  <2> SUFFICES ASSUME IInv, QueryInv, [LCNext]_lcVars PROVE (IInv /\ QueryInv)'
    OBVIOUS
  <2>1. QueryInv'
    BY QueryStaysCorrect
  <2>2. CASE LCNext
    BY <2>1, <2>2, StepOfMap, MapStaysCorrect
  <2>3. CASE UNCHANGED lcVars
    <3>1. MapStep
      BY <2>3 DEF MapStep, lcVars
    <3>2. QED
      BY <2>1, <3>1, MapStaysCorrect
  <2>4. QED
    BY <2>2, <2>3
<1>3. IInv => Consistent
  BY DEF IInv
<1>4. QED
  BY <1>1, <1>2, <1>3, PTL DEF LCSpec

\* Where no id is torn by a racing read, and several vertices observe a landmark of
\* the database: no CHECK of a query fails, whatever the queries find, keep and
\* merge and however they overlap, and the table of past merges leads from every
\* landmark that has been merged away to one of the map.
THEOREM PastMergesLead ==
    ASSUME IsFiniteSet(Landmarks), ~IdsTear, DatabaseSeenElsewhere
    PROVE  LCSpec => []TableLeadsToMap
<1>1. LCInit => TableSound
  BY InitIsSound
<1>2. TableSound /\ [LCNext]_lcVars => TableSound'
  BY TableStaysSound
<1>3. TableSound => TableLeadsToMap
  BY SoundTableLeads
<1>4. QED
  BY <1>1, <1>2, <1>3, PTL DEF LCSpec

\* There, too, a match is given up for another one of the same landmark only, and
\* that one holds.
THEOREM NoMatchIsLost ==
    ASSUME IsFiniteSet(Landmarks), ~IdsTear, DatabaseSeenElsewhere
    PROVE  LCSpec => []DroppedForAnother
<1>1. LCInit => TableSound /\ MergeInv
  BY InitIsSound, InitIsShown
<1>2. TableSound /\ MergeInv /\ [LCNext]_lcVars => (TableSound /\ MergeInv)'
  BY TableStaysSound, StaysShown
<1>3. TableSound /\ MergeInv => DroppedForAnother
  BY ShownMeansDropped
<1>4. QED
  BY <1>1, <1>2, <1>3, PTL DEF LCSpec

\* A keypoint moves to another landmark only with the merge of its own, even where
\* racing reads return torn ids.
THEOREM KeypointsFollowMerges == LCSpec => ObservationsFollowMerges
<1> DEFINE TableTyped == oldToNew \in [Landmarks -> Landmarks \cup {None}]
<1>1. LCInit => IInv /\ QueryInv /\ TableTyped
  BY LCInitCorrect DEF LCInit
<1>2. IInv /\ QueryInv /\ TableTyped /\ [LCNext]_lcVars => (IInv /\ QueryInv /\ TableTyped)'
  <2> SUFFICES ASSUME IInv, QueryInv, TableTyped, [LCNext]_lcVars
               PROVE  (IInv /\ QueryInv /\ TableTyped)'
    OBVIOUS
  <2>1. QueryInv'
    BY QueryStaysCorrect
  <2>2. MapStep
    BY StepOfMap DEF MapStep, lcVars
  <2>3. TableTyped'
    BY TableStaysTyped DEF LCNext, lcVars
  <2>4. QED
    BY <2>1, <2>2, <2>3, MapStaysCorrect
<1>3. IInv /\ QueryInv /\ TableTyped /\ [LCNext]_lcVars
        => [\A k \in AllKeypoints :
               observed'[k] # observed[k] =>
                   \/ observed[k] = None
                   \/ oldToNew'[observed[k]] = observed'[k]]_lcVars
  BY ObservationsFollow DEF LCNext
<1>4. QED
  BY <1>1, <1>2, <1>3, PTL DEF LCSpec, ObservationsFollowMerges
=============================================================================
