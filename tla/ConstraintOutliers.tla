-------------------------- MODULE ConstraintOutliers --------------------------
(***************************************************************************)
(* The removal of outliers among the absolute 6DoF constraints of one      *)
(* mission (the missions of a map are treated one after the other and      *)
(* share nothing).  The server runs it on each submap, and the console on  *)
(* demand.                                                                 *)
(*                                                                         *)
(* Source: removeOutliersInAbsolute6DoFConstraints in                      *)
(* algorithms/map-anchoring/src/map-anchoring.cc.                          *)
(*                                                                         *)
(* A measurement of a vertex is represented by its index at the beginning. *)
(* RANSAC is abstracted to the set of inliers that it returns.             *)
(***************************************************************************)
EXTENDS Integers, FiniteSets, SequencesExt

CONSTANTS Vertices,          \* the number of vertices along the graph
          MaxPerVertex,      \* a bound on the measurements of a vertex
          MinConstraints     \* ...baseframe_min_number_of_constraints, which
                             \* a CHECK bounds by 3 from below

VARIABLES measurements,      \* of each vertex
          constraints,       \* vertex_id_and_abs_constraint_idx
          inliers,           \* inlier_indices, from 1
          global_idx,        \* from 1
          pc

vars == <<measurements, constraints, inliers, global_idx, pc>>

num_abs_constraints == Len(constraints)

Init == /\ \E sizes \in [1 .. Vertices -> 0 .. MaxPerVertex] :
             measurements = [v \in 1 .. Vertices |-> [i \in 1 .. sizes[v] |-> i]]
        /\ constraints = <<>> /\ inliers = {} /\ global_idx = 1
        /\ pc = "collect"
-----------------------------------------------------------------------------
Collect ==
  /\ pc = "collect"
  /\ constraints' = FlattenSeq([v \in 1 .. Vertices |->
                       [i \in 1 .. Len(measurements[v]) |-> <<v, i>>]])
  /\ pc' = IF num_abs_constraints' < MinConstraints THEN "done" ELSE "ransac"
  /\ UNCHANGED <<measurements, inliers, global_idx>>

\* RANSAC finds at least the constraint that it has sampled.
Sampled(n) == SUBSET (1 .. n) \ {{}}

\* The ratio is the default of its flag, one half.
Ransac ==
  /\ pc = "ransac"
  /\ inliers' \in Sampled(num_abs_constraints)
  /\ pc' = IF Cardinality(inliers') < num_abs_constraints \div 2
           THEN "done" ELSE "remove"
  /\ UNCHANGED <<measurements, constraints, global_idx>>

KeepInlier ==
  /\ pc = "remove" /\ global_idx <= num_abs_constraints
  /\ global_idx \in inliers
  /\ global_idx' = global_idx + 1
  /\ UNCHANGED <<measurements, constraints, inliers, pc>>

\* To erase behind the last element of a vector is undefined: we follow it no further.
RemoveOutlier ==
  LET v == constraints[global_idx][1]
      i == constraints[global_idx][2]
  IN  /\ pc = "remove" /\ global_idx <= num_abs_constraints
      /\ global_idx \notin inliers
      /\ \/ /\ i <= Len(measurements[v])
            /\ measurements' = [measurements EXCEPT ![v] = RemoveAt(@, i)]
            /\ global_idx' = global_idx + 1
            /\ UNCHANGED pc
         \/ /\ i > Len(measurements[v])
            /\ pc' = "undefined"
            /\ UNCHANGED <<measurements, global_idx>>
      /\ UNCHANGED <<constraints, inliers>>

Finish == /\ pc = "remove" /\ global_idx > num_abs_constraints
          /\ pc' = "removed"
          /\ UNCHANGED <<measurements, constraints, inliers, global_idx>>

Next == Collect \/ Ransac \/ KeepInlier \/ RemoveOutlier \/ Finish

Spec == Init /\ [][Next]_vars
-----------------------------------------------------------------------------
TypeOK ==
  /\ measurements \in [1 .. Vertices -> Seq(1 .. MaxPerVertex)]
  /\ constraints \in Seq((1 .. Vertices) \X (1 .. MaxPerVertex))
  /\ inliers \subseteq 1 .. num_abs_constraints
  /\ global_idx \in 1 .. num_abs_constraints + 1
  /\ pc \in {"collect", "ransac", "remove", "removed", "done", "undefined"}

InliersOf(v)  == {i \in 1 .. MaxPerVertex : \E k \in inliers : constraints[k] = <<v, i>>}
OutliersOf(v) == {i \in 1 .. MaxPerVertex :
                    \E k \in 1 .. num_abs_constraints :
                      k \notin inliers /\ constraints[k] = <<v, i>>}

\* What the function is for: exactly the outliers are removed.
OutliersRemoved ==
  /\ pc # "undefined"
  /\ pc = "removed" => \A v \in 1 .. Vertices : ToSet(measurements[v]) = InliersOf(v)

\* What it does: it is right about each vertex with one outlier at most, wherever the
\* outlier is and whatever happens at the other vertices.
SingleOutlierRemoved ==
  pc = "removed" =>
    \A v \in 1 .. Vertices :
      Cardinality(OutliersOf(v)) <= 1 => ToSet(measurements[v]) = InliersOf(v)
=============================================================================
