-------------------------- MODULE MCFuzzySnapshot --------------------------
(***************************************************************************)
(* Instances of FuzzySnapshot for TLC.  Contents are the sequence of       *)
(* effects a shard has absorbed, so that applying one twice, dropping one  *)
(* or swapping two shows.                                                  *)
(***************************************************************************)
EXTENDS FuzzySnapshot, TLC

Local(id, ks) == [id |-> id, cross |-> FALSE, keys |-> ks, reads |-> {}, writes |-> ks]

\* INCR-like writes of either shard, MSET of both.
Incr0 == Local("incr0", {0})
Incr1 == Local("incr1", {1})
MSet == Local("mset", {0, 1})

\* RENAME of a key of shard 0 to a key of shard 1, and FLUSHALL.
Rename == [id |-> "rename", cross |-> TRUE, keys |-> {0, 1}, reads |-> {0},
           writes |-> {0, 1}]
FlushAll == [id |-> "flush", cross |-> TRUE, keys |-> {}, reads |-> {},
             writes |-> {0, 1}]

AllEffects == {Incr0, Incr1, MSet, Rename, FlushAll}
CoreEffects == {Incr1, MSet, Rename}
TwoShard == {MSet, Rename}

MCNewValue(e, s, view) ==
  CASE e.id = "flush" -> << >>
    [] e.id = "rename" /\ s = 0 -> << >>
    [] e.id = "rename" /\ s = 1 -> Append(view[0], e.id)
    [] OTHER -> Append(view[s], e.id)

NoContents == << >>

Interchangeable == Permutations(Clients)
=============================================================================
