------------------------------ MODULE MCVIMap ------------------------------
(***************************************************************************)
(* Small instances of VIMap.  Ids are interchangeable.                     *)
(***************************************************************************)
EXTENDS VIMap, TLC

Ids == Permutations(Missions) \cup Permutations(Vertices)
         \cup Permutations(Keypoints) \cup Permutations(Landmarks)

\* At most one vertex has frame resources, and then there is one landmark only.
FewResources ==
    \/ resources = {}
    \/ Cardinality(resources) = 1 /\ Cardinality(InIndex) <= 1
=============================================================================
