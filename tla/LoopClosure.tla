----------------------------- MODULE LoopClosure -----------------------------
(***************************************************************************)
(* Loop closure: threads query the vertices of a mission against a         *)
(* database of landmarks and merge what they find in the VI map.           *)
(*                                                                         *)
(* LoopDetectorNode::detectLoopClosuresVerticesToDatabase spreads the      *)
(* query vertices over threads that share the map, one mutex and the table *)
(* of past merges.  A thread holds the mutex while it changes the map, but *)
(* reads the landmarks of its query vertex without it, and goes on using   *)
(* the ids it has read while others merge them away.  The database, too,   *)
(* knows the ids of the time it was built.                                 *)
(*                                                                         *)
(* The map is the one of VIMap, and each change a query makes to it is a   *)
(* step of that module.  Every query has a thread of its own: the queries  *)
(* of one thread, one after the other, are one of the schedules.  What the *)
(* database finds and which matches RANSAC keeps is arbitrary.             *)
(***************************************************************************)
EXTENDS VIMap, Sequences

CONSTANTS
    Maps,           \* maps to start from, each with a value of the flag
    Queries,        \* the vertices to query
    Database,       \* the landmarks in the database
    MaxMatches,     \* a bound on what the database finds for one vertex
    IdsTear,        \* a racing read may return half of the old and the new id
    Torn            \* such an id

ASSUME LoopClosureAssumption ==
    /\ Queries \subseteq Vertices
    /\ Database \subseteq Landmarks
    /\ MaxMatches \in Nat
    /\ IdsTear \in BOOLEAN
    /\ Torn \notin Landmarks \cup {None}

VARIABLES
    pc,             \* where the query of a vertex is
    matches,        \* structure_matches: keypoints and landmarks of the database
    seen,           \* query_vertex_landmark_ids: what the keypoints observed
    resolved,       \* the landmarks of the matches, after the merges so far
    inliers,        \* the matches RANSAC keeps
    handled,        \* how many of them are handled
    oldToNew,       \* landmark_id_old_to_new_
    mapMutex,       \* the query that holds map_mutex
    insertEdges     \* the flag lc_insert_lc_edge_instead_of_merging

queryVars == <<pc, matches, seen, resolved, inliers, handled>>
lcVars    == <<vars, queryVars, oldToNew, mapMutex, insertEdges>>

Steps == {"find", "read", "resolve", "ransac", "edge", "merge", "associate",
              "done"}
KeypointsOf(v) == {k \in AllKeypoints : k[1] = v}
Matches(v)     == KeypointsOf(v) \X Database
Matched(v)     == {matches[v][i][1] : i \in DOMAIN matches[v]}

LCTypeOK ==
    /\ pc \in [Queries -> Steps]
    /\ \A v \in Queries :
           /\ matches[v] \in Seq(Matches(v))
           /\ seen[v] \in [DOMAIN seen[v] -> Landmarks \cup {None, Torn}]
           /\ DOMAIN seen[v] \subseteq Matched(v)
           /\ resolved[v] \in Seq(Landmarks)
           /\ inliers[v] \in Seq(DOMAIN matches[v])
           /\ handled[v] \in 0 .. Len(inliers[v])
    /\ oldToNew \in [Landmarks -> Landmarks \cup {None}]
    /\ mapMutex \in Queries \cup {None}
    /\ insertEdges \in BOOLEAN

\* A map that passes its consistency checks, and a new node.
LCInit ==
    /\ \E map \in Maps : /\ mission   = map.mission
                         /\ root      = map.root
                         /\ backbone  = map.backbone
                         /\ loops     = {}
                         /\ resources = {}
                         /\ index     = map.index
                         /\ stored    = map.stored
                         /\ backlinks = map.backlinks
                         /\ observed  = map.observed
                         /\ insertEdges = map.insertEdges
    /\ aborted = FALSE
    /\ TypeOK /\ Consistent /\ BackboneIsChain
    /\ Queries \subseteq InMap
    /\ Database \subseteq InIndex
    /\ pc       = [v \in Queries |-> "find"]
    /\ matches  = [v \in Queries |-> <<>>]
    /\ seen     = [v \in Queries |-> <<>>]
    /\ resolved = [v \in Queries |-> <<>>]
    /\ inliers  = [v \in Queries |-> <<>>]
    /\ handled  = [v \in Queries |-> 0]
    /\ oldToNew = [l \in Landmarks |-> None]
    /\ mapMutex = None

-----------------------------------------------------------------------------
(* What the queries ask.                                                   *)

\* The table is followed until an id is not in it.
AfterMerges(l) ==
    LET f[i \in 0 .. Cardinality(Landmarks)] ==
            IF i = 0 THEN l
            ELSE IF oldToNew[f[i - 1]] = None THEN f[i - 1]
            ELSE oldToNew[f[i - 1]]
    IN f[Cardinality(Landmarks)]

Keypoint(v, i)      == matches[v][i][1]
QueryLandmark(v, i) == seen[v][Keypoint(v, i)]
Inlier(v)           == inliers[v][handled[v] + 1]

InlierKeypoints(v)  == {Keypoint(v, inliers[v][n]) : n \in DOMAIN inliers[v]}

\* The other vertices that observe most of the landmarks L.
MostOverlapping(v, L) ==
    LET others  == (UNION {Observers(l) : l \in L}) \ {v}
        Seen(w) == {l \in L : w \in Observers(l)}
    IN {w \in others : \A u \in others :
                           Cardinality(Seen(u)) <= Cardinality(Seen(w))}

\* The landmark of the query is not the one of the map, and not in the table.
MustMergeAgain(q, l) ==
    /\ q # None
    /\ q # AfterMerges(l)
MustMergeUnlessMoved(q, l) ==
    /\ q # None
    /\ q # l
    /\ oldToNew[l] = None
MustMerge(q, l) ==
    /\ q # None
    /\ q # l
    /\ q \in Landmarks => oldToNew[q] = None
    /\ q # AfterMerges(l)

\* Another query is about to point the keypoint to another landmark.
BeingWritten(k) ==
    \E u \in Queries :
        /\ mapMutex = u
        /\ \/ /\ pc[u] = "merge"
              /\ MustMerge(QueryLandmark(u, Inlier(u)), resolved[u][Inlier(u)])
              /\ observed[k] = QueryLandmark(u, Inlier(u))
           \/ /\ pc[u] = "associate"
              /\ k = Keypoint(u, Inlier(u)) /\ observed[k] = None

At(v, step)   == ~aborted /\ pc[v] = step
Goto(v, step) == pc' = [pc EXCEPT ![v] = step]

\* On to the next inlier, or with the last one to the next step.
Advance(v, step) ==
    \/ /\ handled[v] + 1 < Len(inliers[v])
       /\ handled' = [handled EXCEPT ![v] = @ + 1]
       /\ pc' = pc
    \/ /\ handled[v] + 1 = Len(inliers[v])
       /\ handled' = [handled EXCEPT ![v] = 0]
       /\ Goto(v, step)

\* The mutex is held until the query ends.
HolderForever(v) == v
HolderAfter(v) == IF pc'[v] = "done" THEN None ELSE v

\* A merge is entered in the table.
EnteredBackwards(old, new) == [oldToNew EXCEPT ![new] = old]
Entered(old, new) == [oldToNew EXCEPT ![old] = new]

-----------------------------------------------------------------------------
(* The steps of a query.                                                   *)

\* The database finds nothing, or matches that differ in keypoint or landmark.
Find(v) ==
    /\ At(v, "find")
    /\ mapMutex = None
    /\ \E n \in 0 .. MaxMatches : \E found \in [1 .. n -> Matches(v)] :
           /\ \A i, j \in 1 .. n : found[i] = found[j] => i = j
           /\ matches' = [matches EXCEPT ![v] = found]
           /\ Goto(v, IF n = 0 THEN "done" ELSE "read")
    /\ UNCHANGED <<vars, seen, resolved, inliers, handled, oldToNew, mapMutex,
                  insertEdges>>

\* What the matched keypoints observe is read without the mutex.
Read(v) ==
    /\ At(v, "read")
    /\ \/ \E k \in Matched(v) \ DOMAIN seen[v] :
              \E id \in {observed[k]} \cup
                            (IF IdsTear /\ BeingWritten(k) THEN {Torn} ELSE {}) :
                  /\ seen' = [seen EXCEPT ![v] =
                                 [j \in DOMAIN seen[v] \cup {k} |->
                                     IF j = k THEN id ELSE seen[v][j]]]
                  /\ pc' = pc
       \/ /\ DOMAIN seen[v] = Matched(v)
          /\ Goto(v, "resolve")
          /\ seen' = seen
    /\ UNCHANGED <<vars, matches, resolved, inliers, handled, oldToNew, mapMutex,
                  insertEdges>>

\* The mutex is held for one match at a time.
Resolve(v) ==
    LET i == Len(resolved[v]) + 1
        l == AfterMerges(matches[v][i][2])
    IN /\ At(v, "resolve")
       /\ mapMutex = None
       /\ \/ l \notin InIndex /\ Abort
          \/ l \in InIndex /\ UNCHANGED vars
       /\ resolved' = [resolved EXCEPT ![v] = Append(@, l)]
       /\ Goto(v, IF i = Len(matches[v]) THEN "ransac" ELSE "resolve")
       /\ UNCHANGED <<matches, seen, inliers, handled, oldToNew, mapMutex,
                     insertEdges>>

\* Too few matches agree, or some are kept, in their order, and the query goes
\* on with the mutex.
Ransac(v) ==
    /\ At(v, "ransac")
    /\ \/ Goto(v, "done") /\ UNCHANGED <<inliers, mapMutex>>
       \/ /\ mapMutex = None
          /\ mapMutex' = v
          /\ \E n \in DOMAIN matches[v] :
                 \E kept \in [1 .. n -> DOMAIN matches[v]] :
                     /\ \A i, j \in 1 .. n : i < j => kept[i] < kept[j]
                     /\ inliers' = [inliers EXCEPT ![v] = kept]
          /\ Goto(v, IF insertEdges THEN "edge" ELSE "merge")
    /\ UNCHANGED <<vars, matches, seen, resolved, handled, oldToNew,
                  insertEdges>>

\* One inlier of every keypoint counts.  There is no edge when the gap is small
\* or PnP fails.
AddEdge(v) ==
    /\ At(v, "edge")
    /\ \E best \in SUBSET {inliers[v][n] : n \in DOMAIN inliers[v]} :
           LET L == {AfterMerges(matches[v][i][2]) : i \in best}
           IN /\ {Keypoint(v, i) : i \in best} = InlierKeypoints(v)
              /\ \A i, j \in best : Keypoint(v, i) = Keypoint(v, j) => i = j
              /\ \/ MostOverlapping(v, L) = {} /\ Abort
                 \/ MostOverlapping(v, L) # {} /\ UNCHANGED vars
                 \/ \E w \in MostOverlapping(v, L) : AddLoopClosureEdge(w, v)
    /\ mapMutex' = None
    /\ Goto(v, "done")
    /\ UNCHANGED <<matches, seen, resolved, inliers, handled, oldToNew,
                   insertEdges>>

Merge(v) ==
    LET old == QueryLandmark(v, Inlier(v))
        l == resolved[v][Inlier(v)]
        new == AfterMerges(l)
    IN /\ At(v, "merge")
       /\ \/ /\ ~MustMerge(old, l)
             /\ UNCHANGED <<vars, oldToNew>>
          \/ /\ MustMerge(old, l)
             /\ {old, new} \subseteq InIndex
             /\ oldToNew' = Entered(old, new)
             /\ MergeLandmarks(old, new)
          \/ /\ MustMerge(old, l)
             /\ ~({old, new} \subseteq InIndex)
             /\ oldToNew' = oldToNew
             /\ Abort
       /\ Advance(v, "associate")
       /\ UNCHANGED <<matches, seen, resolved, inliers, mapMutex,
                     insertEdges>>

\* Keypoints that observe nothing get the landmark they match.  The mutex is
\* released with the last of them.
MustAssociate(k) == observed[k] = None

AssociateInlier(v) ==
    LET k == Keypoint(v, Inlier(v))
        l == AfterMerges(resolved[v][Inlier(v)])
    IN /\ At(v, "associate")
       /\ \/ ~MustAssociate(k) /\ UNCHANGED vars
          \/ MustAssociate(k) /\ l \in InIndex /\ Associate(k, l)
          \/ MustAssociate(k) /\ l \notin InIndex /\ Abort
       /\ Advance(v, "done")
       /\ mapMutex' = HolderAfter(v)
       /\ UNCHANGED <<matches, seen, resolved, inliers, oldToNew,
                     insertEdges>>

QueryStep(v) ==
    \/ Find(v)
    \/ Read(v)
    \/ Resolve(v)
    \/ Ransac(v)
    \/ AddEdge(v)
    \/ Merge(v)
    \/ AssociateInlier(v)

LCNext == \E v \in Queries : QueryStep(v)

\* A thread that can go on does so.
LCSpec == /\ LCInit
          /\ [][LCNext]_lcVars
          /\ \A v \in Queries : WF_lcVars(QueryStep(v))

-----------------------------------------------------------------------------
\* While a query changes nothing, the records of a landmark agree, and the table
\* of past merges agrees with the map: it leads from every landmark that has
\* been merged away to one that is there (getLandmarkIdAfterMerges ends, and no
\* CHECK fails on what it returns).
TableLeadsToMap ==
    /\ LCTypeOK
    /\ ~aborted
    /\ Consistent
    /\ \A l \in Landmarks : oldToNew[l] # None => /\ l \notin InIndex
                                                  /\ AfterMerges(l) \in InIndex

\* A keypoint changes its landmark only together with all others that observe
\* it, or when it observed none: an observation is never taken from a landmark
\* that stays.
ObservationsFollowMerges ==
    [][\A k \in AllKeypoints :
          observed'[k] # observed[k] =>
              \/ observed[k] = None
              \/ oldToNew'[observed[k]] = observed'[k]]_lcVars

\* The inliers a query has merged.
Handled(v) == IF pc[v] = "done" /\ ~insertEdges
              THEN {inliers[v][n] : n \in DOMAIN inliers[v]}
              ELSE {}
IsMerged(v, i) == observed[Keypoint(v, i)] = AfterMerges(matches[v][i][2])

\* A match is given up for one reason only: another match of the same landmark
\* of the query has been handled, and that one holds.
DroppedForAnother ==
    \A v \in Queries : \A i \in Handled(v) :
        \/ IsMerged(v, i)
        \/ \E u \in Queries : \E n \in DOMAIN inliers[u] :
               LET j == inliers[u][n]
               IN /\ <<u, j>> # <<v, i>>
                  /\ QueryLandmark(u, j) = QueryLandmark(v, i)
                  /\ observed[Keypoint(v, i)] = AfterMerges(matches[u][j][2])

\* "Thats all we need to do, the vertices etc. have already been updated before
\* using the back-references": a keypoint with one inlier is left with the
\* landmark it matches.
MatchesMerged ==
    \A v \in Queries : \A i \in Handled(v) :
        \/ IsMerged(v, i)
        \/ \E j \in Handled(v) \ {i} : Keypoint(v, i) = Keypoint(v, j)

\* Every query ends, whatever the others do.
QueriesEnd == <>(\A v \in Queries : pc[v] = "done")
=============================================================================
