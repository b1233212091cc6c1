---------------------------- MODULE MCConnection ----------------------------
(***************************************************************************)
(* Instances of Connection for TLC: a channel and a pattern that matches   *)
(* it.  MONITOR's feed behaves as one more name would.                     *)
(***************************************************************************)
EXTENDS Connection

MCChannels == {"news"}
MCNames == {"news", "n*"}
MCHears == {<<"news", "news">>, <<"n*", "news">>}
=============================================================================
