--------------------------- MODULE MCLoopClosure ---------------------------
(***************************************************************************)
(* A small instance of LoopClosure: a mission of two vertices, a and b,    *)
(* that share a landmark q or not, against the landmarks m1 and m2 of the  *)
(* vertex d of another mission, which they may observe already.            *)
(***************************************************************************)
EXTENDS LoopClosure, TLC

CONSTANTS a, b, d, query, base, k1, k2, q, m1, m2

MapOf(obs, edges) ==
    LET links == [l \in Landmarks |-> {k \in AllKeypoints : obs[k] = l}]
        store == [l \in Landmarks |->
                     CASE l # q /\ links[l] # {} -> d
                       [] l = q /\ \E k \in links[q] : k[1] = a -> a
                       [] l = q /\ \E k \in links[q] : k[1] = b -> b
                       [] OTHER -> None]
    IN [mission   |-> (a :> query) @@ (b :> query) @@ (d :> base),
        root      |-> (query :> a) @@ (base :> d),
        backbone  |-> {<<a, b>>},
        index     |-> store,
        stored    |-> [v \in Vertices |-> {l \in Landmarks : store[l] = v}],
        backlinks |-> links,
        observed  |-> obs,
        insertEdges |-> edges]

\* The keypoints of d observe m1 and m2.  a observes q or m1, with its other
\* keypoint q or nothing; b observes q, m1 or nothing.
Observing(oa, pa, ob) ==
    (<<a, k1>> :> oa) @@ (<<a, k2>> :> pa) @@ (<<b, k1>> :> ob) @@
    (<<b, k2>> :> None) @@ (<<d, k1>> :> m1) @@ (<<d, k2>> :> m2)

SmallMaps ==
    {MapOf(Observing(oa, pa, ob), FALSE)
        : oa \in {q, m1}, pa \in {None, q}, ob \in {None, q, m1}}
    \cup {MapOf(Observing(q, None, m1), TRUE)}
=============================================================================
