----------------------------- MODULE Selection -----------------------------
(***************************************************************************)
(* Records applied one after the other: what a log's replay and a stream's *)
(* filter have in common.                                                  *)
(***************************************************************************)
EXTENDS Integers, Sequences

\* start, and then the elements of sq at those of its first n positions that
\* are in D.  SelectSeq with a start and a set for the test, which a proof can
\* unfold.
Select(start, sq, D, n) ==
  LET upTo[i \in 0 .. n] ==
        IF i = 0 THEN start
        ELSE IF i \in D THEN Append(upTo[i - 1], sq[i]) ELSE upTo[i - 1]
  IN upTo[n]
=============================================================================
