--------------------------- MODULE MCGroupCommit ---------------------------
(***************************************************************************)
(* GroupCommit for TLC: two appenders, the syncer and the closer.  Threads *)
(* are model values; no symmetry, since the run checks liveness.           *)
(***************************************************************************)
EXTENDS GroupCommit
=============================================================================
