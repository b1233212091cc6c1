----------------------------- MODULE MCSessions -----------------------------
(***************************************************************************)
(* Instances of Sessions for TLC: RPUSH, BLPOP of a priority list and a    *)
(* BLMOVE between two keys of database 0.                                  *)
(***************************************************************************)
EXTENDS Sessions

MCCmds ==
  { [op |-> "push", on |-> <<<<0, "j">>>>, to |-> {}],
    [op |-> "push", on |-> <<<<0, "k">>>>, to |-> {}],
    [op |-> "pop",  on |-> <<<<0, "j">>, <<0, "k">>>>, to |-> {}],
    [op |-> "move", on |-> <<<<0, "j">>>>, to |-> {<<0, "k">>}] }
MCWatched == {<<0, "k">>}
=============================================================================
