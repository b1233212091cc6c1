---------------------------- MODULE MCSortedSet -----------------------------
(***************************************************************************)
(* Four members, two scores and three levels: a tie at each score, nodes   *)
(* taller and shorter than their neighbours, and a list whose level drops  *)
(* and grows again.                                                        *)
(***************************************************************************)
EXTENDS SortedSet
=============================================================================
