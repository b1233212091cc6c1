---------------------------- MODULE MCSegmentLog ----------------------------
(***************************************************************************)
(* SegmentLog for TLC.  Followers never touch what another process reads,  *)
(* so one is enough; no symmetry, since the run checks liveness.           *)
(***************************************************************************)
EXTENDS SegmentLog
=============================================================================
