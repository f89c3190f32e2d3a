--------------------------- MODULE MCSessionStages ---------------------------
(***************************************************************************)
(* Small instances of SessionStages and of the import in it.               *)
(***************************************************************************)
EXTENDS SessionStages

\* The import alone, as --to normalize calls it; sfm calls it for all stages.
ToNormalize == {<<1, 2>>}

\* The import is called alone while nothing has failed or been killed; after that,
\* as a part of sfm.
AloneBeforeFaults == faults = 0 \/ shell.pc # "idle" \/ run.pc = "idle"

\* All of it alone, and its second half alone.
FromAnywhere == {<<1, 4>>, <<3, 4>>}
=============================================================================
