------------------------------- MODULE MCDict -------------------------------
(***************************************************************************)
(* Instances of Dict for TLC.  Tables go from two buckets to eight.  Under *)
(* the first hash two keys share every bit and others part at each bit;    *)
(* under the second, which has no key f, one bucket holds every key, the   *)
(* only way to a chain long enough for compaction to repoint its middle.   *)
(***************************************************************************)
EXTENDS Dict

MCKeys == {"a", "b", "c", "d", "e", "f"}
MCHashes == {
  "a" :> 0 @@ "b" :> 4 @@ "c" :> 12 @@ "d" :> 6 @@ "e" :> 12 @@ "f" :> 3,
  "a" :> 12 @@ "b" :> 12 @@ "c" :> 12 @@ "d" :> 12 @@ "e" :> 12}
MCMatches == {"a", "c"}
=============================================================================
