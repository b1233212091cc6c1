--------------------------- MODULE CollectionOps ----------------------------
(***************************************************************************)
(* The list, set, hash and sorted-set commands, and SORT: the engine's     *)
(* methods and the handlers that decide what reaches the log.  As in       *)
(* StringOps an operator takes a call and returns it changed.              *)
(***************************************************************************)
EXTENDS StringOps, Functions

(* A map of one pair, and one map laid over another: :> and @@ of module   *)
(* TLC, written out.                                                       *)
Pair(x, v) == [y \in {x} |-> v]
Over(f, g) ==
  [x \in DOMAIN f \cup DOMAIN g |-> IF x \in DOMAIN f THEN f[x] ELSE g[x]]

(* The members of S in order: the i-th is the one with i at or before it. *)
Ordered(S, AtOrBefore(_, _)) ==
  [i \in 1..Cardinality(S) |->
     CHOOSE x \in S : Cardinality({y \in S : AtOrBefore(y, x)}) = i]

(***************************************************************************)
(* Lists.                                                                  *)
(***************************************************************************)
(* The inclusive range [start, stop], negative indices counting from the   *)
(* end, as one-based positions: lo > hi when it is empty.                  *)
clampRange(start, stop, len) ==
  LET lo == IF start < 0 THEN start + len ELSE start
      hi == IF stop < 0 THEN stop + len ELSE stop
  IN  [lo |-> (IF lo < 0 THEN 0 ELSE lo) + 1,
       hi |-> (IF hi >= len THEN len - 1 ELSE hi) + 1]

Index(i, len) == (IF i < 0 THEN i + len ELSE i) + 1

Push(l, v, front) == IF front THEN v \o l ELSE l \o v
Popped(l, front) == IF front THEN Tail(l) ELSE Front(l)
Top(l, front) == IF front THEN Head(l) ELSE Last(l)

LPush(s, k, v, front, mustExist) ==
  LET t == lookup(s, k)
      o == Found(t, k)
  IN  IF WrongType(o, "list") \/ (mustExist /\ o = Nil)
        THEN Return(t, FALSE)
        ELSE Return(Change(t, k, "list", Push(o.val, v, front)), TRUE)

LPop(s, k, front) ==
  LET t == lookup(s, k)
      o == Found(t, k)
  IN  IF o.type # "list"
        THEN Return(t, FALSE)
        ELSE Return(Change(t, k, "list", Popped(o.val, front)), TRUE)

LSet(s, k, i, v) ==
  LET t == lookup(s, k)
      o == Found(t, k)
      at == Index(i, Len(o.val))
  IN  IF o.type # "list" \/ at \notin DOMAIN o.val
        THEN Return(t, FALSE)
        ELSE Return(Change(t, k, "list", [o.val EXCEPT ![at] = v]), TRUE)

LInsert(s, k, pivot, v, before) ==
  LET t  == lookup(s, k)
      o  == Found(t, k)
      at == SelectInSeq(o.val, LAMBDA e : e = pivot)
  IN  IF o.type # "list" \/ at = 0
        THEN Return(t, FALSE)
        ELSE Return(Change(t, k, "list",
                           InsertAt(o.val, IF before THEN at ELSE at + 1, v)), TRUE)

(* A positive count removes from the head, a negative one from the tail,   *)
(* zero removes every occurrence.                                          *)
LRem(s, k, count, v) ==
  LET t == lookup(s, k)
      o == Found(t, k)
      matches == {i \in DOMAIN o.val : o.val[i] = v}
      gone == {i \in matches :
                 \/ count = 0
                 \/ count > 0 /\ Cardinality({j \in matches : j <= i}) <= count
                 \/ count < 0 /\ Cardinality({j \in matches : j >= i}) <= -count}
      keep == Ordered(DOMAIN o.val \ gone, <=)
  IN  IF o.type # "list" \/ matches = {}
        THEN Return(t, FALSE)
        ELSE Return(Change(t, k, "list", [i \in DOMAIN keep |-> o.val[keep[i]]]), TRUE)

(* LTRIM reports a change even where there was none to make. *)
LTrim(s, k, start, stop) ==
  LET t == lookup(s, k)
      o == Found(t, k)
      r == clampRange(start, stop, Len(o.val))
  IN  CASE WrongType(o, "list") -> Return(t, FALSE)
        [] o = Nil -> Return(t, TRUE)
        [] OTHER -> Return(Change(t, k, "list", SubSeq(o.val, r.lo, r.hi)), TRUE)

LMove(s, src, dst, srcFront, dstFront) ==
  LET t  == lookup(s, src)
      so == Found(t, src)
      u  == IF src = dst THEN t ELSE lookup(t, dst)
      do == Found(u, dst)
      v  == <<Top(so.val, srcFront)>>
      rest == Popped(so.val, srcFront)
      pushed ==
        IF do = Nil THEN touched(store(u, dst, Object("list", 0, v)), dst)
                    ELSE Change(u, dst, "list", Push(do.val, v, dstFront))
  IN  CASE so.type # "list" -> Return(t, FALSE)
        [] so.type = "list" /\ src = dst ->
             Return(Change(t, src, "list", Push(rest, v, dstFront)), TRUE)
        [] so.type = "list" /\ src # dst /\ WrongType(do, "list") -> Return(u, FALSE)
        [] OTHER -> Return(Change(pushed, src, "list", rest), TRUE)

(***************************************************************************)
(* Sets: ms is a set of members.                                           *)
(***************************************************************************)
AsSet(ms) == [m \in ms |-> 1]

SAdd(s, k, ms) ==
  LET t == lookup(s, k)
      o == Found(t, k)
  IN  IF WrongType(o, "set")
        THEN Return(t, FALSE)
        ELSE Return(Change(t, k, "set", AsSet(DOMAIN o.val \cup ms)),
                    ~(ms \subseteq DOMAIN o.val))

(* Members removed from the collection looked up: nothing removed, nothing *)
(* written.                                                                *)
RemoveFrom(u, k, t, ms) ==
  LET o == Found(u, k)
  IN  IF o.type # t \/ ms \cap DOMAIN o.val = {}
        THEN Return(u, FALSE)
        ELSE Return(Change(u, k, t, Restrict(o.val, DOMAIN o.val \ ms)), TRUE)

(* SREM, HDEL and ZREM alike. *)
RemoveMembers(s, k, t, ms) == RemoveFrom(lookup(s, k), k, t, ms)

(* The members popped are a choice of the engine: the caller names them. *)
SPop(s, k, ms) ==
  LET t == lookup(s, k)
      o == Found(t, k)
  IN  IF o.type # "set"
        THEN Return(t, {})
        ELSE Return(RemoveFrom(t, k, "set", ms), ms \cap DOMAIN o.val)

SMove(s, src, dst, m) ==
  LET t  == lookup(s, src)
      so == Found(t, src)
      u  == lookup(t, dst)
      do == Found(u, dst)
      added == IF do = Nil
                 THEN touched(store(u, dst, Object("set", 0, AsSet({m}))), dst)
                 ELSE Change(u, dst, "set", AsSet(DOMAIN do.val \cup {m}))
  IN  CASE so.type # "set" -> Return(t, FALSE)
        [] so.type = "set" /\ (WrongType(do, "set") \/ m \notin DOMAIN so.val) ->
             Return(u, FALSE)
        [] so.type = "set" /\ do.type = "set" /\ m \in DOMAIN so.val /\ src = dst ->
             Return(u, TRUE)
        [] OTHER -> Return(Change(added, src, "set",
                                  AsSet(DOMAIN so.val \ {m})), TRUE)

(* One source of a combination: the first of another type fails the        *)
(* command, and the ones after it are not looked at.                       *)
source(s, k, types) ==
  LET t == lookup(s, k)
      o == Found(t, k)
  IN  CASE s.err -> s
        [] ~s.err /\ o.type \notin types \cup {"none"} -> Fail(t)
        [] OTHER -> Return(t, Append(s.res, o.val))

(* The answer is the list of the values read. *)
Sources(s, k1, k2, types) == source(source(Return(s, <<>>), k1, types), k2, types)

combineLocked(op, a, b) ==
  AsSet(CASE op = "INTER" -> DOMAIN a \cap DOMAIN b
          [] op = "UNION" -> DOMAIN a \cup DOMAIN b
          [] op = "DIFF"  -> DOMAIN a \ DOMAIN b)

SetCombineStore(s, op, dst, k1, k2) ==
  LET t == Sources(s, k1, k2, {"set"})
  IN  IF t.err
        THEN t
        ELSE Return(Replace(t, dst, "set", combineLocked(op, t.res[1], t.res[2])), TRUE)

(***************************************************************************)
(* Hashes: a value is one character.                                       *)
(***************************************************************************)
HSet(s, k, pairs) ==
  LET t == lookup(s, k)
      o == Found(t, k)
  IN  IF WrongType(o, "hash")
        THEN Return(t, FALSE)
        ELSE Return(Change(t, k, "hash", Over(pairs, o.val)), TRUE)

HSetNX(s, k, pairs) ==
  LET t == lookup(s, k)
      o == Found(t, k)
  IN  IF WrongType(o, "hash") \/ DOMAIN pairs \cap DOMAIN o.val # {}
        THEN Return(t, FALSE)
        ELSE Return(Change(t, k, "hash", Over(pairs, o.val)), TRUE)

(* The hash is created before the increment is found to be impossible. *)
HIncrBy(s, k, f, delta) ==
  LET t    == lookup(s, k)
      o    == Found(t, k)
      made == IF o = Nil THEN newCollection(t, k, "hash") ELSE t
      cur  == IF f \in DOMAIN o.val THEN o.val[f] ELSE 0
  IN  CASE WrongType(o, "hash") -> Return(t, <<>>)
        [] ~WrongType(o, "hash") /\ (cur = Pad \/ cur + delta \notin 0..MaxInt) ->
             Return(made, <<>>)
        [] OTHER -> Return(Change(made, k, "hash", Over(Pair(f, cur + delta), o.val)),
                           <<cur + delta>>)

(* The same for a float, whose impossible results are the infinite ones. *)
HIncrByFloat(s, k, f, delta) == HIncrBy(s, k, f, delta)

(***************************************************************************)
(* Sorted sets.                                                            *)
(***************************************************************************)
(* The members in the order of their scores, equal scores by member. *)
All(z) ==
  Ordered(DOMAIN z, LAMBDA a, b : z[a] < z[b] \/ (z[a] = z[b] /\ a <= b))

Reversed(q, rev) == IF rev THEN Reverse(q) ELSE q

(* The members in a range of a sorted set, by rank, by score or by member. *)
rangeBy(z, by, lo, hi, rev) ==
  LET q == Reversed(All(z), rev)
      r == clampRange(lo, hi, Len(q))
  IN  {m \in DOMAIN z : CASE by = "RANK"  -> \E i \in r.lo..r.hi : q[i] = m
                          [] by = "SCORE" -> z[m] >= lo /\ z[m] <= hi
                          [] by = "LEX"   -> m >= lo /\ m <= hi}

(* ZADD of one member: the answer is the list of what was written. *)
ZAdd(s, k, m, score, flags) ==
  LET t  == lookup(s, k)
      o  == Found(t, k)
      in == m \in DOMAIN o.val
      made == IF o = Nil THEN newCollection(t, k, "zset") ELSE t
      next == IF "INCR" \in flags /\ in THEN o.val[m] + score ELSE score
      skip == \/ in /\ "NX" \in flags
              \/ ~in /\ "XX" \in flags
              \/ in /\ "GT" \in flags /\ next <= o.val[m]
              \/ in /\ "LT" \in flags /\ next >= o.val[m]
  IN  CASE WrongType(o, "zset") \/ (o = Nil /\ "XX" \in flags) -> Return(t, <<>>)
        [] o.type = "zset" /\ skip -> Return(Change(t, k, "zset", o.val), <<>>)
        [] OTHER -> Return(Change(made, k, "zset", Over(Pair(m, next), o.val)),
                           Pair(m, next))

(* Pops answer the members they took. *)
ZPop(s, k, highest) ==
  LET t == lookup(s, k)
      o == Found(t, k)
      m == Head(Reversed(All(o.val), highest))
  IN  IF o.type # "zset"
        THEN Return(t, {})
        ELSE Return(RemoveFrom(t, k, "zset", {m}), {m})

ZRemRange(s, k, by, lo, hi) ==
  LET t == lookup(s, k)
      o == Found(t, k)
  IN  RemoveFrom(t, k, "zset", IF o.type = "zset" THEN rangeBy(o.val, by, lo, hi, FALSE)
                                               ELSE {})

ZRangeStore(s, dst, src, by, lo, hi, rev) ==
  LET t == lookup(s, src)
      o == Found(t, src)
  IN  IF WrongType(o, "zset")
        THEN Return(t, FALSE)
        ELSE Return(Replace(t, dst, "zset",
                            Restrict(o.val, rangeBy(o.val, by, lo, hi, rev))), TRUE)

(* How two scores of one member combine. *)
Aggregate(agg, x, y) ==
  CASE agg = "SUM" -> x + y
    [] agg = "MIN" -> IF x < y THEN x ELSE y
    [] agg = "MAX" -> IF x > y THEN x ELSE y

zcombineLocked(op, agg, a, b) ==
  LET both == DOMAIN a \cap DOMAIN b
      ms   == CASE op = "INTER" -> both
                [] op = "UNION" -> DOMAIN a \cup DOMAIN b
                [] op = "DIFF"  -> DOMAIN a \ both
  IN  [m \in ms |-> IF m \in both THEN Aggregate(agg, a[m], b[m]) ELSE Over(a, b)[m]]

(* A plain set is read as the sorted set that scores its members 1; the    *)
(* second source has a weight.                                             *)
ZCombineStore(s, op, dst, k1, k2, weight, agg) ==
  LET t == Sources(s, k1, k2, {"zset", "set"})
      b == [m \in DOMAIN t.res[2] |-> weight * t.res[2][m]]
  IN  IF t.err
        THEN t
        ELSE Return(Replace(t, dst, "zset",
                            zcombineLocked(op, agg, t.res[1], b)), TRUE)

(***************************************************************************)
(* SORT.                                                                   *)
(***************************************************************************)
SortSource(s, k) ==
  LET t == lookup(s, k)
      o == Found(t, k)
  IN  CASE o.type \in {"none", "list"} -> Return(t, o.val)
        [] o.type \in {"set", "zset"} -> Return(t, All(o.val))
        [] OTHER -> Fail(t)

StoreList(s, k, q) == Replace(s, k, "list", q)

Sorted(q) ==
  LET order == Ordered(DOMAIN q, LAMBDA i, j : q[i] < q[j] \/ (q[i] = q[j] /\ i <= j))
  IN  [i \in DOMAIN q |-> q[order[i]]]

limitSlice(q, count) == SubSeq(q, 1, IF count < Len(q) THEN count ELSE Len(q))

(***************************************************************************)
(* The handlers of the list commands.  "FRONT" and "DSTFRONT" stand for    *)
(* the end the command's name or its LEFT and RIGHT arguments choose.      *)
(***************************************************************************)
Srcfront(c) == "FRONT" \in c.opts
Dstfront(c) == "DSTFRONT" \in c.opts

listPush(s, c) == Reported(LPush(s, c.key, c.val, Srcfront(c), "X" \in c.opts))
listPop(s, c) == Reported(LPop(s, c.key, Srcfront(c)))
cmdLSet(s, c) == Reported(LSet(s, c.key, c.n, c.val[1]))
cmdLInsert(s, c) ==
  Reported(LInsert(s, c.key, c.n, c.val[1], "BEFORE" \in c.opts))
cmdLRem(s, c) == Reported(LRem(s, c.key, c.n, c.val[1]))
cmdLTrim(s, c) == Reported(LTrim(s, c.key, c.val[1], c.val[2]))
listMove(s, c) ==
  Reported(LMove(s, c.key, c.dst, Srcfront(c), Dstfront(c)))

(* An attempt of BLPOP, BZPOPMIN or BLMOVE that is served is logged as the *)
(* command that does not block.                                            *)
blockingPop(s, c) ==
  LET t == LPop(s, c.key, Srcfront(c))
  IN  IF t.res THEN Propagate(t, [c EXCEPT !.name = "LPOP"]) ELSE t

blockingZPop(s, c) ==
  LET t == ZPop(s, c.key, "MAX" \in c.opts)
  IN  IF t.res # {} THEN Propagate(t, [c EXCEPT !.name = "ZPOP"]) ELSE t

blockingMove(s, c) ==
  LET t == LMove(s, c.key, c.dst, Srcfront(c), Dstfront(c))
  IN  IF t.res THEN Propagate(t, [c EXCEPT !.name = "LMOVE"]) ELSE t

(***************************************************************************)
(* The handlers of the set and hash commands.                              *)
(***************************************************************************)
cmdSAdd(s, c) == Reported(SAdd(s, c.key, DOMAIN c.val))
cmdSRem(s, c) == Reported(RemoveMembers(s, c.key, "set", DOMAIN c.val))

cmdSPop(s, c) ==
  LET t == SPop(s, c.key, DOMAIN c.val)
  IN  IF t.res # {}
        THEN Propagate(t, [Command("SREM", c.key) EXCEPT !.val = AsSet(t.res)])
        ELSE t

Op(c) == CASE "INTER" \in c.opts -> "INTER"
           [] "UNION" \in c.opts -> "UNION"
           [] OTHER -> "DIFF"

cmdSMove(s, c) == Reported(SMove(s, c.key, c.dst, c.n))
setCombineStore(s, c) ==
  Reported(SetCombineStore(s, Op(c), c.dst, c.key, c.dst))

cmdHSet(s, c) == Reported(HSet(s, c.key, c.val))

cmdHSetNX(s, c) ==
  LET t == HSetNX(s, c.key, c.val)
  IN  IF t.res THEN Propagate(t, [c EXCEPT !.name = "HSET"]) ELSE t

cmdHDel(s, c) == Reported(RemoveMembers(s, c.key, "hash", DOMAIN c.val))

cmdHIncrBy(s, c) ==
  LET t == HIncrBy(s, c.key, c.val[1], c.n)
  IN  IF t.res # <<>> THEN Dirty(t) ELSE t

cmdHIncrByFloat(s, c) ==
  LET t == HIncrByFloat(s, c.key, c.val[1], c.n)
  IN  IF t.res # <<>>
        THEN Propagate(t, [Command("HSET", c.key) EXCEPT !.val = Pair(c.val[1], t.res[1])])
        ELSE t

(***************************************************************************)
(* The handlers of the sorted-set commands, and of SORT.                   *)
(***************************************************************************)
cmdZAdd(s, c) ==
  LET m == CHOOSE x \in DOMAIN c.val : TRUE
      t == ZAdd(s, c.key, m, c.val[m], c.opts)
  IN  IF t.res # <<>>
        THEN Propagate(t, [Command("ZADD", c.key) EXCEPT !.val = t.res])
        ELSE t

cmdZIncrBy(s, c) == cmdZAdd(s, [c EXCEPT !.opts = {"INCR"}])

cmdZRem(s, c) == Reported(RemoveMembers(s, c.key, "zset", DOMAIN c.val))

propagateZRem(s, c, ms) ==
  Propagate(s, [Command("ZREM", c.key) EXCEPT !.val = AsSet(ms)])

zpop(s, c) ==
  LET t == ZPop(s, c.key, "MAX" \in c.opts)
  IN  IF t.res # {} THEN propagateZRem(t, c, t.res) ELSE t

By(c) == CASE "BYSCORE" \in c.opts -> "SCORE"
           [] "BYLEX" \in c.opts -> "LEX"
           [] OTHER -> "RANK"

zremrange(s, c) == Reported(ZRemRange(s, c.key, By(c), c.val[1], c.val[2]))

cmdZRangeStore(s, c) ==
  Reported(ZRangeStore(s, c.dst, c.key, By(c), c.val[1], c.val[2], "REV" \in c.opts))

zcombineStore(s, c) ==
  Reported(ZCombineStore(s, Op(c), c.dst, c.key, c.dst, c.n,
                         CASE "MIN" \in c.opts -> "MIN"
                           [] "MAX" \in c.opts -> "MAX"
                           [] OTHER -> "SUM"))

(* SORT ... STORE; n is LIMIT's count.  Without STORE it writes nothing. *)
cmdSort(s, c) ==
  LET t      == SortSource(s, c.key)
      sorted == Reversed(Sorted(t.res), "DESC" \in c.opts)
  IN  IF t.err
        THEN t
        ELSE Dirty(StoreList(t, c.dst, limitSlice(sorted, c.n)))
=============================================================================
