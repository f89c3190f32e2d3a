--------------------------- MODULE MCMapAnchoring ---------------------------
(***************************************************************************)
(* Instances of MapAnchoring.                                              *)
(***************************************************************************)
EXTENDS MapAnchoring

CONSTANTS m1, m2, m3, m4

OneMission     == {m1}
FourMissions   == {m1, m2, m3, m4}

\* Both of two missions are localized in each other, or neither is.
SymmetricRelations ==
  LET Pairs == {s \in SUBSET Missions : Cardinality(s) = 2}
  IN  {{p \in Missions \X Missions : {p[1], p[2]} \in pairs} : pairs \in SUBSET Pairs}

Symmetry == Permutations(Missions \ Constrained)
=============================================================================
