--------------------------- MODULE MCMultiSession ---------------------------
(***************************************************************************)
(* A small instance of MultiSession: with two jobs at a time, three        *)
(* sessions make one full batch and one that is not.                       *)
(***************************************************************************)
EXTENDS MultiSession

Three == <<"a", "b", "c">>
=============================================================================
