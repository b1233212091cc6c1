-------------------------------- MODULE Dict --------------------------------
(***************************************************************************)
(* The keyspace's hash table (engine/dict.go) and the SCAN cursor over the *)
(* shards that each hold one (engine/generic.go).                          *)
(*                                                                         *)
(* A table keeps the first entry of each chain in the bucket and the rest  *)
(* in a dense arena, chained by index.  While a rehash runs there are two  *)
(* tables; every write migrates a bucket, and so does the background pass. *)
(* A shard's mutex makes each operation one step.  The sizes are those of  *)
(* the code scaled down.                                                   *)
(***************************************************************************)
EXTENDS Integers, Sequences, FiniteSets, FiniteSetsExt, SequencesExt

CONSTANTS
  Keys, Vals,
  Hashes,      \* the 64-bit hashes the keys of a run may have
  Shards,      \* a power of two
  Matches,     \* the keys a MATCH pattern lets through
  Counts,      \* SCAN's COUNT arguments
  Width,       \* bits of a cursor, 64 in the code
  MinBuckets,  \* dictMinBuckets, 8 in the code
  ShrinkAt,    \* dictShrinkAt, 8 in the code
  EmptyBudget, \* empty buckets passed per bucket migrated, 10 in the code
  ScanBudget,  \* buckets walked per key asked for, 10 in the code
  Batch        \* rehashBatchBuckets, 128 in the code

ASSUME DictAssumption ==
  /\ \A h \in Hashes : DOMAIN h \subseteq Keys /\ \A k \in DOMAIN h : h[k] \in Nat
  /\ Matches \subseteq Keys /\ Counts \subseteq Nat \ {0}
  /\ \E b \in 0 .. Width : MinBuckets = 2 ^ b
  /\ \E b \in 0 .. Width : Shards = 2 ^ b
  /\ {ShrinkAt, EmptyBudget, ScanBudget, Batch} \subseteq Nat \ {0}

VARIABLES
  hash,      \* of each key of the run
  dict,      \* of each shard
  scanning, cursor, match,   \* the client's iteration: its cursor and filter
  due,       \* history: the keys present since it began and not yet returned
  map        \* history: what was last set under each key not deleted since

vars == <<hash, dict, scanning, cursor, match, due, map>>

noEntry == -1
noHead == -2
NoKey == "-"
EmptyHead == [key |-> NoKey, val |-> 0, next |-> noHead]

-----------------------------------------------------------------------------
(***************************************************************************)
(* One table.                                                              *)
(***************************************************************************)
newTable(buckets) == [heads |-> [b \in 0 .. buckets - 1 |-> EmptyHead], over |-> << >>]
NoTable == newTable(0)

size(t) == Cardinality(DOMAIN t.heads)
live(t) == Cardinality({b \in DOMAIN t.heads : t.heads[b].next # noHead}) + Len(t.over)

\* The low bits of a hash choose the shard, the high ones the bucket.
ShardOf(k) == hash[k] % Shards
bucketOf(t, k) == (hash[k] \div Shards) % size(t)

\* The arena slots of a chain in order, 0 being the arena's first.
Slots(t, b) ==
  LET link[i \in 0 .. Len(t.over)] ==
        IF i = 0 THEN t.heads[b].next
        ELSE LET s == link[i - 1] IN IF s < 0 THEN noEntry ELSE t.over[s + 1].next
  IN SelectSeq([i \in 1 .. Len(t.over) |-> link[i - 1]], LAMBDA s : s >= 0)

\* visit: the entries of one bucket.
Chain(t, b) ==
  LET slots == Slots(t, b)
  IN IF t.heads[b].next = noHead THEN << >>
     ELSE <<t.heads[b]>> \o [i \in DOMAIN slots |-> t.over[slots[i] + 1]]

Holds(t, k) == size(t) > 0 /\ \E e \in ToSet(Chain(t, bucketOf(t, k))) : e.key = k

lookup(t, k) ==
  LET chain == Chain(t, bucketOf(t, k))
  IN chain[Min({i \in DOMAIN chain : chain[i].key = k})].val

replace(t, k, v) ==
  LET b == bucketOf(t, k)
      found == {s \in ToSet(Slots(t, b)) : t.over[s + 1].key = k}
  IN IF t.heads[b].key = k THEN [t EXCEPT !.heads[b].val = v]
     ELSE [t EXCEPT !.over[(CHOOSE s \in found : TRUE) + 1].val = v]

insert(t, k, v) ==
  LET b == bucketOf(t, k)
  IN IF t.heads[b].next = noHead
     THEN [t EXCEPT !.heads[b] = [key |-> k, val |-> v, next |-> noEntry]]
     ELSE [heads |-> [t.heads EXCEPT ![b].next = Len(t.over)],
           over |-> Append(t.over, [key |-> k, val |-> v, next |-> t.heads[b].next])]

\* A bug: only the head of a chain is repointed.
dropOverflow_HeadOnly(t, i) ==
  LET last == Len(t.over) - 1
      b == bucketOf(t, t.over[last + 1].key)
      c == [t EXCEPT !.over = SubSeq([@ EXCEPT ![i + 1] = t.over[last + 1]], 1, last)]
  IN IF i # last /\ t.heads[b].next = last THEN [c EXCEPT !.heads[b].next = i] ELSE c

\* The last slot of the arena moves into slot i, which no chain refers to any
\* more, and what referred to the last slot is repointed.
dropOverflow(t, i) ==
  LET last == Len(t.over) - 1
      moved == [t EXCEPT !.over[i + 1] = t.over[last + 1]]
      b == bucketOf(t, t.over[last + 1].key)
      before == {s \in ToSet(Slots(moved, b)) : moved.over[s + 1].next = last}
      repointed == IF i = last THEN moved
                   ELSE IF moved.heads[b].next = last THEN [moved EXCEPT !.heads[b].next = i]
                   ELSE IF before = {} THEN moved
                   ELSE [moved EXCEPT !.over[(CHOOSE s \in before : TRUE) + 1].next = i]
  IN [repointed EXCEPT !.over = SubSeq(repointed.over, 1, last)]

\* A bug: the rest of the chain is left behind.
unlinkHead_Forgets(t, b) == [t EXCEPT !.heads[b] = EmptyHead]

unlinkHead(t, b) ==
  LET i == t.heads[b].next
  IN IF i = noEntry THEN [t EXCEPT !.heads[b] = EmptyHead]
     ELSE dropOverflow([t EXCEPT !.heads[b] = t.over[i + 1]], i)

\* The predecessor is linked past the slot before the arena is compacted.
unlinkOverflow(t, b, at) ==
  LET slots == Slots(t, b)
      n == CHOOSE j \in DOMAIN slots : slots[j] = at
      next == t.over[at + 1].next
  IN dropOverflow(IF n = 1 THEN [t EXCEPT !.heads[b].next = next]
                  ELSE [t EXCEPT !.over[slots[n - 1] + 1].next = next], at)

remove(t, k) ==
  LET b == bucketOf(t, k)
  IN IF t.heads[b].key = k THEN unlinkHead(t, b)
     ELSE unlinkOverflow(t, b, CHOOSE s \in ToSet(Slots(t, b)) : t.over[s + 1].key = k)

-----------------------------------------------------------------------------
(***************************************************************************)
(* One dict: tab[0], tab[1] and rehashAt.                                  *)
(***************************************************************************)
newDict == [tab0 |-> newTable(MinBuckets), tab1 |-> NoTable, rehashAt |-> -1]

rehashing(d) == d.rehashAt >= 0

resize(d, n) ==
  IF rehashing(d) THEN d
  ELSE [d EXCEPT !.tab1 = newTable(IF n < MinBuckets THEN MinBuckets ELSE n), !.rehashAt = 0]

growIfFull(d) ==
  IF ~rehashing(d) /\ live(d.tab0) >= size(d.tab0) THEN resize(d, size(d.tab0) * 2) ELSE d

shrinkIfSparse(d) ==
  IF rehashing(d) \/ size(d.tab0) <= MinBuckets \/ live(d.tab0) * ShrinkAt >= size(d.tab0)
  THEN d ELSE resize(d, size(d.tab0) \div 2)

\* The chain of bucket rehashAt goes to tab[1], from the head each time.
MigrateBucket(d) ==
  LET b == d.rehashAt
      Move(acc, e) == [acc EXCEPT !.tab0 = unlinkHead(acc.tab0, b),
                                  !.tab1 = insert(acc.tab1, e.key, e.val)]
  IN [FoldLeft(Move, d, Chain(d.tab0, b)) EXCEPT !.rehashAt = b + 1]

\* A bug: the tables are exchanged one bucket early.
Settled_Early(d) ==
  IF d.rehashAt >= size(d.tab0) - 1
  THEN [tab0 |-> d.tab1, tab1 |-> NoTable, rehashAt |-> -1] ELSE d

Settled(d) ==
  IF d.rehashAt >= size(d.tab0)
  THEN [tab0 |-> d.tab1, tab1 |-> NoTable, rehashAt |-> -1] ELSE d

\* n non-empty buckets migrate, or as many as the budget of empty ones allows;
\* spending that budget returns before the tables are exchanged.
rehashBuckets(d, n) ==
  LET all == size(d.tab0)
      at[i \in 0 .. all] ==
        IF i = 0 THEN [d |-> d, n |-> n, empty |-> n * EmptyBudget]
        ELSE LET p == at[i - 1]
             IN IF p.n = 0 \/ p.empty = 0 \/ p.d.rehashAt >= all THEN p
                ELSE IF p.d.tab0.heads[p.d.rehashAt].next = noHead
                     THEN [p EXCEPT !.d.rehashAt = @ + 1, !.empty = @ - 1]
                     ELSE [p EXCEPT !.d = MigrateBucket(p.d), !.n = @ - 1]
      end == at[all]
  IN IF ~rehashing(d) THEN d ELSE IF end.empty = 0 THEN end.d ELSE Settled(end.d)

\* A bug: writes leave the rehash to the background pass.
step_Never(d) == d

step(d) == rehashBuckets(d, 1)

Get(d, k) == IF Holds(d.tab0, k) THEN lookup(d.tab0, k) ELSE lookup(d.tab1, k)
Has(d, k) == Holds(d.tab0, k) \/ (rehashing(d) /\ Holds(d.tab1, k))

\* A bug: a key that has migrated is not looked for.
setHashed_OneTable(d, k, v) ==
  LET s == step(d)
      g == growIfFull(s)
  IN IF Holds(s.tab0, k) THEN [s EXCEPT !.tab0 = replace(@, k, v)]
     ELSE IF rehashing(g) THEN [g EXCEPT !.tab1 = insert(@, k, v)]
     ELSE [g EXCEPT !.tab0 = insert(@, k, v)]

setHashed(d, k, v) ==
  LET s == step(d)
      g == growIfFull(s)
  IN IF Holds(s.tab0, k) THEN [s EXCEPT !.tab0 = replace(@, k, v)]
     ELSE IF rehashing(s) /\ Holds(s.tab1, k) THEN [s EXCEPT !.tab1 = replace(@, k, v)]
     ELSE IF rehashing(g) THEN [g EXCEPT !.tab1 = insert(@, k, v)]
     ELSE [g EXCEPT !.tab0 = insert(@, k, v)]

deleteHashed(d, k) ==
  LET s == step(d)
  IN IF Holds(s.tab0, k) THEN shrinkIfSparse([s EXCEPT !.tab0 = remove(@, k)])
     ELSE IF rehashing(s) /\ Holds(s.tab1, k)
          THEN shrinkIfSparse([s EXCEPT !.tab1 = remove(@, k)])
     ELSE s

\* forEach, which the map of a shard is read with.
Contents(d) == {k \in DOMAIN hash : Has(d, k)}

-----------------------------------------------------------------------------
(***************************************************************************)
(* The cursor.                                                             *)
(***************************************************************************)
Reverse64 ==
  [v \in 0 .. 2 ^ Width - 1 |->
     MapThenSumSet(LAMBDA i : ((v \div 2 ^ i) % 2) * 2 ^ (Width - 1 - i), 0 .. Width - 1)]

\* A bug: the cursor counts up from the low bit.
nextCursor_Forward(v, n) == (v + 1) % n

\* The bits above the mask of an n-bucket table are set, and the carry runs
\* from the top of the index down.
nextCursor(v, n) ==
  Reverse64[(Reverse64[(v % n) + (2 ^ Width - n)] + 1) % 2 ^ Width] % n

KeysOf(chain) == {e.key : e \in ToSet(chain)}

\* A bug: during a rehash only the table keys are leaving is visited.
scan_OneTable(d, c) ==
  LET n == size(d.tab0)
  IN IF Contents(d) = {} THEN [cursor |-> 0, keys |-> {}]
     ELSE [cursor |-> nextCursor(c, n), keys |-> KeysOf(Chain(d.tab0, c % n))]

\* scan: one bucket, or during a rehash the bucket of the smaller table and
\* every bucket of the larger that its index expands into.
scan(d, c) ==
  LET n0 == IF size(d.tab0) <= size(d.tab1) THEN size(d.tab0) ELSE size(d.tab1)
      n1 == IF size(d.tab0) <= size(d.tab1) THEN size(d.tab1) ELSE size(d.tab0)
      small == IF size(d.tab0) <= size(d.tab1) THEN d.tab0 ELSE d.tab1
      large == IF size(d.tab0) <= size(d.tab1) THEN d.tab1 ELSE d.tab0
      at[i \in 0 .. n1] == IF i = 0 THEN c ELSE nextCursor(at[i - 1], n1)
      last == Min({i \in 1 .. n1 : at[i] \div n0 = 0})
  IN IF Contents(d) = {} THEN [cursor |-> 0, keys |-> {}]
     ELSE IF ~rehashing(d)
     THEN [cursor |-> nextCursor(c, size(d.tab0)), keys |-> KeysOf(Chain(d.tab0, c % size(d.tab0)))]
     ELSE [cursor |-> at[last],
           keys |-> KeysOf(Chain(small, c % n0))
                      \cup UNION {KeysOf(Chain(large, at[i] % n1)) : i \in 0 .. last - 1}]

\* DB.Scan, and scanCount with a single shard: buckets are walked until count
\* entries passed the filter, the budget is spent or the last shard is done.
Scan(c, filter, count) ==
  LET walk[i \in 0 .. count * ScanBudget] ==
        IF i = 0 THEN [idx |-> c % Shards, bucket |-> c \div Shards, out |-> {}, n |-> 0]
        ELSE LET p == walk[i - 1]
                 r == scan(dict[p.idx], p.bucket)
                 kept == r.keys \cap filter
             IN IF p.idx >= Shards \/ p.n >= count THEN p
                ELSE [idx |-> IF r.cursor = 0 THEN p.idx + 1 ELSE p.idx,
                      bucket |-> r.cursor, out |-> p.out \cup kept, n |-> p.n + Cardinality(kept)]
      end == walk[count * ScanBudget]
  IN [cursor |-> IF end.idx >= Shards THEN 0 ELSE end.bucket * Shards + end.idx, out |-> end.out]

-----------------------------------------------------------------------------
Init ==
  /\ hash \in Hashes
  /\ dict = [s \in 0 .. Shards - 1 |-> newDict]
  /\ scanning = FALSE /\ cursor = 0 /\ match = {} /\ due = {} /\ map = << >>

Set(k, v) ==
  /\ dict' = [dict EXCEPT ![ShardOf(k)] = setHashed(@, k, v)]
  /\ map' = [x \in DOMAIN map \cup {k} |-> IF x = k THEN v ELSE map[x]]
  /\ UNCHANGED <<hash, scanning, cursor, match, due>>

Delete(k) ==
  /\ dict' = [dict EXCEPT ![ShardOf(k)] = deleteHashed(@, k)]
  /\ map' = [x \in DOMAIN map \ {k} |-> map[x]]
  /\ due' = due \ {k}
  /\ UNCHANGED <<hash, scanning, cursor, match>>

\* RehashPass, one batch.
RehashPass(s) ==
  /\ rehashing(dict[s])
  /\ dict' = [dict EXCEPT ![s] = rehashBuckets(@, Batch)]
  /\ UNCHANGED <<hash, scanning, cursor, match, due, map>>

ScanCall(count) ==
  /\ match' \in IF scanning THEN {match} ELSE {Keys, Matches}
  /\ LET r == Scan(cursor, match', count)
         owed == IF scanning THEN due ELSE DOMAIN map \cap match'
     IN /\ cursor' = r.cursor
        /\ scanning' = (r.cursor # 0)
        /\ due' = owed \ r.out
  /\ UNCHANGED <<hash, dict, map>>

Next ==
  \/ \E k \in DOMAIN hash : Delete(k) \/ \E v \in Vals : Set(k, v)
  \/ \E s \in 0 .. Shards - 1 : RehashPass(s)
  \/ \E count \in Counts : ScanCall(count)

Spec == Init /\ [][Next]_vars

-----------------------------------------------------------------------------
(***************************************************************************)
(* What makes it correct.                                                  *)
(***************************************************************************)
Tables == UNION {{dict[s].tab0, dict[s].tab1} : s \in 0 .. Shards - 1}

\* The type invariant: a table is a power of two of buckets, and a link is a
\* slot of the arena.
TypeOK ==
  /\ \A t \in Tables :
       /\ size(t) = 0 \/ \E b \in 0 .. Width : size(t) = 2 ^ b
       /\ \A b \in DOMAIN t.heads : t.heads[b].next \in -2 .. Len(t.over) - 1
       /\ \A i \in DOMAIN t.over : t.over[i].next \in -1 .. Len(t.over) - 1
  /\ \A s \in 0 .. Shards - 1 : dict[s].rehashAt \in -1 .. size(dict[s].tab0)
  /\ scanning \in BOOLEAN /\ cursor \in Nat
  /\ match \subseteq Keys /\ due \subseteq match

\* The arena is dense and the chains share nothing: every slot is in exactly
\* one chain, in the bucket its hash says, through any compaction.
ChainsIntact ==
  \A t \in Tables :
    /\ \A b \in DOMAIN t.heads : \A e \in ToSet(Chain(t, b)) : bucketOf(t, e.key) = b
    /\ MapThenSumSet(LAMBDA b : Len(Chain(t, b)), DOMAIN t.heads) = live(t)

\* No key is in both tables or twice in one, so no write leaves a stale copy a
\* later rehash could bring back.
NoKeyTwice ==
  \A s \in 0 .. Shards - 1 :
    live(dict[s].tab0) + live(dict[s].tab1) = Cardinality(Contents(dict[s]))

\* A rehash ends before its target needs to grow in turn.
RehashKeepsUp ==
  \A s \in 0 .. Shards - 1 : rehashing(dict[s]) => live(dict[s].tab1) <= size(dict[s].tab1)

\* Through every rehash, compaction and resize a lookup finds what was last
\* set, and nothing that was deleted.
LookupsCurrent ==
  \A k \in DOMAIN hash :
    LET d == dict[ShardOf(k)]
    IN Has(d, k) = (k \in DOMAIN map) /\ (Has(d, k) => Get(d, k) = map[k])

\* An iteration that has ended returned every key that was there from its
\* first call to its last, however the table grew and shrank meanwhile.
ScanComplete == ~scanning => due = {}

\* How far a cursor is: its shard, then its bucket's bits read from the low end.
Position(c) == (c % Shards) * 2 ^ Width + Reverse64[c \div Shards]

\* Every call takes an iteration further, whatever the tables did since the
\* last, and every step takes a rehash further: neither goes on for ever.
AlwaysForward ==
  /\ scanning => \A count \in Counts :
       LET next == Scan(cursor, match, count).cursor
       IN next = 0 \/ Position(next) > Position(cursor)
  /\ \A s \in 0 .. Shards - 1 : rehashing(dict[s]) =>
       LET after == step(dict[s]).rehashAt IN after = -1 \/ after > dict[s].rehashAt

\* The tables hold what was set, through every rehash, compaction and resize.
TablesSound == TypeOK /\ ChainsIntact /\ NoKeyTwice /\ RehashKeepsUp /\ LookupsCurrent

\* A cursor held across all of that misses nothing and comes to an end.
ScanSound == ScanComplete /\ AlwaysForward
=============================================================================
