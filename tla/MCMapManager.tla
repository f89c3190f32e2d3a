---------------------------- MODULE MCMapManager ----------------------------
(***************************************************************************)
(* Small instances of MapManager.                                          *)
(***************************************************************************)
EXTENDS MapManager, TLC

OneDirection   == {<<"k1", "k2">>}
BothDirections == {<<"k1", "k2">>, <<"k2", "k1">>}

=============================================================================
