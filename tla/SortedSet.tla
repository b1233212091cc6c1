----------------------------- MODULE SortedSet ------------------------------
(***************************************************************************)
(* A sorted set (engine/zset.go) and the skiplist behind it                *)
(* (engine/skiplist.go).  A small set is a sorted listpack; past the       *)
(* threshold it is a skiplist, whose spans answer ranks, and a map, which  *)
(* answers scores.  The shard's mutex makes each operation one step.       *)
(*                                                                         *)
(* A member stands for its bytes and their order.  The level generator is  *)
(* left free: every height may come up at every insertion.                 *)
(***************************************************************************)
EXTENDS Integers, Sequences, FiniteSets, FiniteSetsExt, SequencesExt

CONSTANTS
  Members,            \* numbers, in the order bytes.Compare gives
  Long,               \* the members past ZSetMaxListpackValue bytes
  Scores,
  MaxLevel,           \* skiplistMaxLevel, 32 in the code
  MaxListpackEntries  \* ZSetMaxListpackEntries

ASSUME SortedSetAssumption ==
  /\ Members \subseteq Nat \ {0} /\ Long \subseteq Members
  /\ Scores \subseteq Int /\ IsFiniteSet(Scores)
  /\ MaxLevel \in Nat \ {0} /\ MaxListpackEntries \in Nat

VARIABLES
  zset,   \* lp, sl and m
  ref     \* history: the score last given to each member not removed since

vars == <<zset, ref>>

HeadNode == 0      \* the head node; it has no member
Nil == -1
Entry(m, x) == [member |-> m, score |-> x]

\* Op(v), with v computed once.
With(v, Op(_)) == CHOOSE r \in {Op(x) : x \in {v}} : TRUE

-----------------------------------------------------------------------------
(***************************************************************************)
(* The skiplist.  Level 1 is the code's level 0.                           *)
(***************************************************************************)
newSkiplist ==
  [node |-> (HeadNode :> [score |-> 0, back |-> Nil,
                          levels |-> [i \in 1 .. MaxLevel |-> [next |-> Nil, span |-> 0]]]),
   tail |-> Nil, length |-> 0, level |-> 1]

randomLevel == 1 .. MaxLevel

before(e, f) == e.score < f.score \/ (e.score = f.score /\ e.member < f.member)
after(e, f) == before(f, e)
At(sl, x) == Entry(x, sl.node[x].score)

(* Where the search stops at each level and the spans it crossed to get    *)
(* there.  It goes down from the top, at each level as far as Goes(x, r)   *)
(* lets it, to node x at rank r.                                           *)
Search(sl, Goes(_, _)) ==
  LET along[i \in 1 .. MaxLevel, at \in [node : DOMAIN sl.node, rank : Int]] ==
        LET e == sl.node[at.node].levels[i]
            r == at.rank + e.span
        IN  IF e.next # Nil /\ Goes(e.next, r) THEN along[i, [node |-> e.next, rank |-> r]] ELSE at
      update[i \in 1 .. sl.level] ==
        along[i, IF i = sl.level THEN [node |-> HeadNode, rank |-> 0] ELSE update[i + 1]]
  IN  update

First(sl) == sl.node[HeadNode].levels[1].next

(* A pointer the search stopped at, once the node is in: up to its height  *)
(* the pointer is cut in two, above it there is one more node underneath.  *)
linkAt_ShortLevels(e, member, gap, tall) == IF tall THEN [next |-> member, span |-> gap + 1] ELSE e
linkAt(e, member, gap, tall) ==
  IF tall THEN [next |-> member, span |-> gap + 1] ELSE [e EXCEPT !.span = @ + 1]

Insert(sl, score, member, height) ==
  LET found == Search(sl, LAMBDA x, r : before(At(sl, x), Entry(member, score)))
      level == IF height > sl.level THEN height ELSE sl.level
      update == [i \in 1 .. level |->
                   IF i <= sl.level THEN found[i] ELSE [node |-> HeadNode, rank |-> 0]]
      old == [i \in 1 .. level |->
                LET e == sl.node[update[i].node].levels[i]
                IN  IF i <= sl.level THEN e ELSE [e EXCEPT !.span = sl.length]]
      gap == [i \in 1 .. level |-> update[1].rank - update[i].rank]
      new == [score  |-> score,
              back   |-> IF update[1].node = HeadNode THEN Nil ELSE update[1].node,
              levels |-> [i \in 1 .. height |->
                            [next |-> old[i].next, span |-> old[i].span - gap[i]]]]
      others == [x \in DOMAIN sl.node |->
                   [sl.node[x] EXCEPT
                      !.back = IF x = old[1].next THEN member ELSE @,
                      !.levels = [i \in DOMAIN @ |->
                                    IF i <= level /\ update[i].node = x
                                      THEN linkAt(old[i], member, gap[i], i <= height) ELSE @[i]]]]
  IN  [node   |-> (member :> new) @@ others,
       tail   |-> IF old[1].next = Nil THEN member ELSE sl.tail,
       length |-> sl.length + 1,
       level  |-> level]

unlinkAt_KeepsSpan(e, member, gone, i) ==
  IF e.next = member
    THEN [next |-> gone.levels[i].next, span |-> e.span + gone.levels[i].span - 1]
    ELSE e
unlinkAt(e, member, gone, i) ==
  IF e.next = member
    THEN [next |-> gone.levels[i].next, span |-> e.span + gone.levels[i].span - 1]
    ELSE [e EXCEPT !.span = @ - 1]

unlink(sl, member, update) ==
  LET gone == sl.node[member]
      node == [x \in DOMAIN sl.node \ {member} |->
                 [sl.node[x] EXCEPT
                    !.back = IF x = gone.levels[1].next THEN gone.back ELSE @,
                    !.levels = [i \in DOMAIN @ |->
                                  IF i <= sl.level /\ update[i].node = x
                                    THEN unlinkAt(@[i], member, gone, i) ELSE @[i]]]]
  IN  [node   |-> node,
       tail   |-> IF gone.levels[1].next = Nil THEN gone.back ELSE sl.tail,
       length |-> sl.length - 1,
       level  |-> Max({1} \cup {i \in 1 .. sl.level : node[HeadNode].levels[i].next # Nil})]

Delete(sl, score, member) ==
  LET update == Search(sl, LAMBDA x, r : before(At(sl, x), Entry(member, score)))
      target == sl.node[update[1].node].levels[1].next
  IN  IF target = Nil \/ At(sl, target) # Entry(member, score)
        THEN sl ELSE unlink(sl, target, [i \in 1 .. sl.level |-> update[i]])

(* The 1-based position, or 0.  The search may end above the bottom level. *)
slRank(sl, score, member) ==
  LET path == Search(sl, LAMBDA x, r : ~after(At(sl, x), Entry(member, score)))
      hits == {i \in 1 .. sl.level : path[i].node = member /\ sl.node[member].score = score}
  IN  IF hits = {} THEN 0 ELSE path[Max(hits)].rank

NodeByRank(sl, rank) ==
  LET path == Search(sl, LAMBDA x, r : r <= rank)
      hits == {i \in 1 .. sl.level : path[i].rank = rank}
  IN  IF rank <= 0 \/ rank > sl.length \/ hits = {} THEN Nil ELSE path[Max(hits)].node

-----------------------------------------------------------------------------
(***************************************************************************)
(* Ranges: a pair of bounds, each open or closed.  An infinite lexical     *)
(* bound is a number outside Members.                                      *)
(***************************************************************************)
aboveMin(g, v) == IF g.minExcl THEN v > g.min ELSE v >= g.min
belowMax(g, v) == IF g.maxExcl THEN v < g.max ELSE v <= g.max
empty(g) == g.min > g.max \/ (g.min = g.max /\ (g.minExcl \/ g.maxExcl))

FirstIn(sl, g, By(_)) ==
  LET path == Search(sl, LAMBDA x, r : ~aboveMin(g, By(At(sl, x))))
      x == sl.node[path[1].node].levels[1].next
  IN  IF empty(g) \/ x = Nil \/ ~belowMax(g, By(At(sl, x))) THEN Nil ELSE x

LastIn(sl, g, By(_)) ==
  LET path == Search(sl, LAMBDA x, r : belowMax(g, By(At(sl, x))))
      x == path[1].node
  IN  IF empty(g) \/ x = HeadNode \/ ~aboveMin(g, By(At(sl, x))) THEN Nil ELSE x

ByScore(e) == e.score
ByMember(e) == e.member
FirstInScoreRange(sl, g) == FirstIn(sl, g, ByScore)
LastInScoreRange_Unchecked(sl, g) ==
  LET x == Search(sl, LAMBDA y, r : belowMax(g, sl.node[y].score))[1].node
  IN  IF empty(g) \/ x = HeadNode THEN Nil ELSE x
LastInScoreRange(sl, g) == LastIn(sl, g, ByScore)
FirstInLexRange(sl, g) == FirstIn(sl, g, ByMember)
LastInLexRange(sl, g) == LastIn(sl, g, ByMember)

-----------------------------------------------------------------------------
(***************************************************************************)
(* The sorted set.  A listpack, a sequence of entries, or a skiplist and a *)
(* map; packed says which.                                                *)
(***************************************************************************)
NoMap == [x \in {} |-> 0]
newZSet == [packed |-> TRUE, lp |-> <<>>, sl |-> newSkiplist, m |-> NoMap]

ZLen(z) == IF z.packed THEN Len(z.lp) ELSE Cardinality(DOMAIN z.m)

(* The level-1 chain, from a node on. *)
Chain(sl) ==
  LET from[x \in DOMAIN sl.node \cup {Nil}] ==
        IF x = Nil THEN <<>> ELSE <<At(sl, x)>> \o from[sl.node[x].levels[1].next]
  IN  from[First(sl)]

Each(z) == IF z.packed THEN z.lp ELSE Chain(z.sl)

lpFind(z, member) == {i \in DOMAIN z.lp : z.lp[i].member = member}

Score(z, member) ==
  IF z.packed THEN {z.lp[i].score : i \in lpFind(z, member)}
              ELSE IF member \in DOMAIN z.m THEN {z.m[member]} ELSE {}

(* sort.Search: the first entry not before the new one, found by halving. *)
lpSearch(lp, e) ==
  LET narrow[lo \in 1 .. Len(lp) + 1, hi \in 1 .. Len(lp) + 1] ==
        LET h == (lo + hi) \div 2
        IN  IF lo >= hi THEN lo
            ELSE IF before(lp[h], e) THEN narrow[h + 1, hi] ELSE narrow[lo, h]
  IN  narrow[1, Len(lp) + 1]

lpInsert(lp, e) == InsertAt(lp, lpSearch(lp, e), e)

(* Every entry of a sequence inserted into a fresh skiplist and map. *)
Rebuilt(entries, heights) ==
  LET sl[i \in 0 .. Len(entries)] ==
        IF i = 0 THEN newSkiplist
        ELSE With(sl[i - 1], LAMBDA l :
               Insert(l, entries[i].score, entries[i].member, heights[entries[i].member]))
  IN  [packed |-> FALSE, lp |-> <<>>, sl |-> sl[Len(entries)],
       m |-> [x \in {entries[i].member : i \in DOMAIN entries} |->
                (CHOOSE e \in Range(entries) : e.member = x).score]]

promoteIfNeeded_KeepsListpack(z, member, heights) ==
  IF Len(z.lp) <= MaxListpackEntries /\ member \notin Long THEN z
  ELSE [Rebuilt(z.lp, heights) EXCEPT !.packed = TRUE, !.lp = z.lp]

promoteIfNeeded(z, member, heights) ==
  IF Len(z.lp) <= MaxListpackEntries /\ member \notin Long THEN z ELSE Rebuilt(z.lp, heights)

Add(z, member, score, heights) ==
  LET e == Entry(member, score)
      old == Score(z, member)
      at == CHOOSE i \in lpFind(z, member) : TRUE
      sl == IF old = {} THEN z.sl ELSE Delete(z.sl, z.m[member], member)
  IN  CASE old = {score} -> z
        [] old # {score} /\ ~z.packed ->
             [z EXCEPT !.sl = With(sl, LAMBDA l : Insert(l, score, member, heights[member])),
                       !.m = (member :> score) @@ z.m]
        [] old # {score} /\ z.packed /\ old # {} ->
             [z EXCEPT !.lp = lpInsert(RemoveAt(z.lp, at), e)]
        [] OTHER -> promoteIfNeeded([z EXCEPT !.lp = lpInsert(z.lp, e)], member, heights)

ZRemove_KeepsMap(z, member) ==
  LET at == CHOOSE i \in lpFind(z, member) : TRUE
  IN  IF Score(z, member) = {} THEN z
      ELSE IF z.packed THEN [z EXCEPT !.lp = RemoveAt(z.lp, at)]
      ELSE [z EXCEPT !.sl = Delete(z.sl, z.m[member], member)]

ZRemove(z, member) ==
  LET at == CHOOSE i \in lpFind(z, member) : TRUE
  IN  IF Score(z, member) = {} THEN z
      ELSE IF z.packed THEN [z EXCEPT !.lp = RemoveAt(z.lp, at)]
      ELSE [z EXCEPT !.sl = Delete(z.sl, z.m[member], member),
                     !.m = [x \in DOMAIN z.m \ {member} |-> z.m[x]]]

(* The zero-based position of a member of the set. *)
Rank(z, member, reverse) ==
  LET rank == IF z.packed THEN (CHOOSE i \in lpFind(z, member) : TRUE) - 1
                          ELSE slRank(z.sl, z.m[member], member) - 1
  IN  IF reverse THEN ZLen(z) - 1 - rank ELSE rank

RemoveMembers(z, members) ==
  LET left[i \in 0 .. Len(members)] ==
        IF i = 0 THEN z ELSE With(left[i - 1], LAMBDA y : ZRemove(y, members[i].member))
  IN  left[Len(members)]

Pop(z, count, highest) ==
  LET all == IF highest THEN Reverse(Each(z)) ELSE Each(z)
  IN  RemoveMembers(z, SubSeq(all, 1, IF count > Len(all) THEN Len(all) ELSE count))

RangeByScore(z, g) == SelectSeq(Each(z), LAMBDA e : aboveMin(g, e.score) /\ belowMax(g, e.score))

Clone(z, heights) == IF z.packed THEN z ELSE Rebuilt(Chain(z.sl), heights)

-----------------------------------------------------------------------------
(***************************************************************************)
(* The operations.  A write that leaves the set empty removes its key; the *)
(* next one starts from newZSet.                                           *)
(***************************************************************************)
finishWrite(z) == With(z, LAMBDA y : IF ZLen(y) = 0 THEN newZSet ELSE y)

Init == zset = newZSet /\ ref = NoMap

(* A promotion draws a height for every member, any other insertion one.   *)
Heights(m) ==
  IF zset.packed /\ Score(zset, m) = {} /\ (ZLen(zset) = MaxListpackEntries \/ m \in Long)
    THEN [DOMAIN ref \cup {m} -> randomLevel]
    ELSE [{m} -> randomLevel]

ZAdd == \E m \in Members, x \in Scores : \E h \in Heights(m) :
  /\ zset' = finishWrite(Add(zset, m, x, h))
  /\ ref' = (m :> x) @@ ref

Forget(ms) == ref' = [m \in DOMAIN ref \ ms |-> ref[m]]

ZRem == \E m \in Members :
  /\ zset' = finishWrite(ZRemove(zset, m))
  /\ Forget({m})

InOrder(e) == Cardinality({m \in DOMAIN ref : before(Entry(m, ref[m]), e)})

ZPop == \E count \in 1 .. 2, highest \in BOOLEAN :
  /\ ref # NoMap
  /\ zset' = finishWrite(Pop(zset, count, highest))
  /\ Forget({m \in DOMAIN ref :
               LET below == InOrder(Entry(m, ref[m]))
               IN  IF highest THEN Cardinality(DOMAIN ref) - below <= count ELSE below < count})

ScoreRanges == [min : Scores, max : Scores, minExcl : BOOLEAN, maxExcl : BOOLEAN]
LexRanges == [min : Members \cup {0}, max : Members \cup {1 + Max(Members)},
              minExcl : BOOLEAN, maxExcl : BOOLEAN]
Within(g, v) == aboveMin(g, v) /\ belowMax(g, v)

ZRemRange == \E g \in ScoreRanges :
  /\ ref # NoMap
  /\ zset' = finishWrite(RemoveMembers(zset, RangeByScore(zset, g)))
  /\ Forget({m \in DOMAIN ref : Within(g, ref[m])})

(* COPY: the set is replaced by a clone, which draws its own heights. *)
Copy == \E h \in [DOMAIN ref -> randomLevel] :
  /\ ref # NoMap
  /\ zset' = Clone(zset, h)
  /\ UNCHANGED ref

Next == ZAdd \/ ZRem \/ ZPop \/ ZRemRange \/ Copy

Spec == Init /\ [][Next]_vars

-----------------------------------------------------------------------------
(* Each node has at least one level and links only to nodes of the list,   *)
(* and only one of the two encodings is in use.                            *)
TypeOK ==
  LET sl == zset.sl
      Node == DOMAIN sl.node
  IN  /\ DOMAIN ref \subseteq Members
      /\ IF zset.packed THEN sl = newSkiplist /\ zset.m = NoMap ELSE zset.lp = <<>>
      /\ Node \subseteq Members \cup {HeadNode}
      /\ sl.level \in 1 .. MaxLevel
      /\ sl.length = Cardinality(Node) - 1
      /\ \A x \in Node :
           /\ sl.node[x].back \in Node \cup {Nil}
           /\ DOMAIN sl.node[x].levels \in {1 .. n : n \in 1 .. MaxLevel}
           /\ \A i \in DOMAIN sl.node[x].levels : sl.node[x].levels[i].next \in Node \cup {Nil}

(* What the two structures must agree on (zset.go, checkInvariant): a walk *)
(* of the set gives the members last added, in order of score and then of  *)
(* member, and a lookup gives the same score, whatever adds, re-scores,    *)
(* promotions, pops and copies came before.                                *)
StructuresAgree ==
  LET all == Each(zset)
  IN  /\ TypeOK
      /\ Len(all) = Cardinality(DOMAIN ref)
      /\ {all[i] : i \in DOMAIN all} = {Entry(m, ref[m]) : m \in DOMAIN ref}
      /\ \A i \in 1 .. Len(all) - 1 : before(all[i], all[i + 1])
      /\ \A m \in Members : Score(zset, m) = IF m \in DOMAIN ref THEN {ref[m]} ELSE {}

Position(x) == IF x = HeadNode THEN 0 ELSE 1 + InOrder(Entry(x, ref[x]))

(* The arithmetic ranks rest on (skiplist.go, checkInvariants): every      *)
(* pointer in use spans exactly the nodes it jumps, the last of a level    *)
(* the rest of the list; it leads to the next node that tall; back         *)
(* pointers and the tail mirror the bottom level; no level is empty but    *)
(* the first.                                                              *)
SpansExact ==
  LET sl == zset.sl
      Node == DOMAIN sl.node
  IN  ~zset.packed =>
        /\ \A x \in Node : \A i \in DOMAIN sl.node[x].levels \cap (1 .. sl.level) :
             LET e == sl.node[x].levels[i]
                 taller == {y \in Node : Position(y) > Position(x) /\ i \in DOMAIN sl.node[y].levels}
             IN  IF taller = {}
                   THEN e = [next |-> Nil, span |-> sl.length - Position(x)]
                   ELSE /\ e.next \in taller
                        /\ e.span = Position(e.next) - Position(x)
                        /\ \A y \in taller : Position(e.next) <= Position(y)
        /\ \A x \in Node \ {HeadNode} :
             IF Position(x) = 1 THEN sl.node[x].back = Nil
             ELSE sl.node[x].back # Nil /\ Position(sl.node[x].back) = Position(x) - 1
        /\ Position(sl.tail) = sl.length
        /\ sl.level = Max({Cardinality(DOMAIN sl.node[x].levels) : x \in Node \ {HeadNode}})

(* ZRANK and ZREVRANK count the members on either side, and the node found *)
(* by a rank is the one that has it; a rank outside the list finds none.   *)
RanksExact ==
  /\ \A m \in DOMAIN ref :
       /\ Rank(zset, m, FALSE) = InOrder(Entry(m, ref[m]))
       /\ Rank(zset, m, TRUE) = Cardinality(DOMAIN ref) - 1 - InOrder(Entry(m, ref[m]))
  /\ ~zset.packed =>
       \A r \in 0 .. Cardinality(DOMAIN ref) + 1 :
         IF r \in 1 .. Cardinality(DOMAIN ref)
           THEN Position(NodeByRank(zset.sl, r)) = r
           ELSE NodeByRank(zset.sl, r) = Nil

(* The ends of a range found from the top of the skiplist are those a full *)
(* walk finds: of a score range always, of a lexical range when all scores *)
(* are equal.                                                              *)
RangesExact ==
  LET sl == zset.sl
      Ends(first, last, in) ==
        IF in = {} THEN first = Nil /\ last = Nil
        ELSE /\ first \in in /\ \A m \in in : Position(first) <= Position(m)
             /\ last \in in /\ \A m \in in : Position(last) >= Position(m)
  IN  ~zset.packed =>
        /\ \A g \in ScoreRanges :
             Ends(FirstInScoreRange(sl, g), LastInScoreRange(sl, g),
                  {m \in DOMAIN ref : Within(g, ref[m])})
        /\ \A g \in LexRanges :
             (\A m, n \in DOMAIN ref : ref[m] = ref[n]) =>
               Ends(FirstInLexRange(sl, g), LastInLexRange(sl, g),
                    {m \in DOMAIN ref : Within(g, m)})

(* What a skiplist has to be for every search from the top to be right,    *)
(* and the searches that rest on it.                                       *)
SkiplistSound == SpansExact /\ RanksExact /\ RangesExact
=============================================================================
