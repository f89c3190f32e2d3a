---------------------------- MODULE MCThreadPool ----------------------------
(***************************************************************************)
(* Small instances of ThreadPool.                                          *)
(***************************************************************************)
EXTENDS ThreadPool, TLC

\* Two tasks of one group, one of another, and two without a group.
MCGroupOf == [t \in Tasks |-> CASE t \in {"a1", "a2"} -> "A"
                                [] t \in {"b1", "b2"} -> "B"
                                [] OTHER -> NonExclusive]
=============================================================================
