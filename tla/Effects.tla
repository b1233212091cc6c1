------------------------------ MODULE Effects -------------------------------
(***************************************************************************)
(* What the commands do to a leader's keyspace, and what reaches its log.  *)
(*                                                                         *)
(* db is the leader's keyspace.  Every step of it, a command, the active   *)
(* expiry or an eviction, appends effects to the log, and copy is the      *)
(* keyspace that has executed those effects: at a restart, by a keyspace   *)
(* that is loading the log at some later time; or on a replica.  seen is   *)
(* the table as a client knows it that rereads a key each time the key is  *)
(* signalled, which is all WATCH and the blocked clients have to go by.    *)
(* ideal is the keyspace in which keys vanish at the very instant they     *)
(* expire, run through the same commands.                                  *)
(*                                                                         *)
(* A command is one step: it holds the ordering locks of its keys from     *)
(* before it reads them until its effect is logged (module LockOrder).     *)
(***************************************************************************)
EXTENDS CollectionOps

CONSTANTS
  CopyMode,    \* "loading" or "replica": how copy executes the effects
  MaxNow,      \* the last instant of the clock
  Elems,       \* characters, elements, fields and members: integers
  Deltas,      \* increments
  SplitReadings, \* whether the clock may tick between two readings that one
                 \* command makes for the same key
  MaxSize      \* bound: the elements and expiries the table may hold in all

(* The integers a call can add are in range (an infinite float is not one  *)
(* of them), and a string may have a character.                            *)
ASSUME EffectsAssumption ==
  /\ IsFiniteSet(Keys) /\ IsFiniteSet(Elems) /\ Elems # {}
  /\ MaxNow \in Nat \ {0} /\ MaxInt \in Nat /\ MaxSize \in Nat /\ Deltas \subseteq 0..MaxInt
  /\ MaxStringLength \in Nat \ {0} /\ SplitReadings \in BOOLEAN

VARIABLES db, copy, seen, ideal, now

vars == <<db, copy, seen, ideal, now>>

(* The instants a command can name: past, present and future ones. *)
Instants == 1..MaxNow + 1

Empty == [obj |-> [k \in Keys |-> Nil], ttl |-> {}, mem |-> 0]

Init == /\ db = Empty
        /\ copy = Empty
        /\ seen = Empty.obj
        /\ ideal = Empty
        /\ now = 1

(***************************************************************************)
(* The handler a command's name leads to.                                  *)
(***************************************************************************)
StringHandler(s, c) ==
  CASE c.name = "SET" -> cmdSet(s, c)
    [] c.name = "SETNX" -> cmdSetNX(s, c)
    [] c.name = "PSETEX" -> cmdSetEx(s, c)
    [] c.name = "GETSET" -> cmdGetSet(s, c)
    [] c.name = "GETDEL" -> cmdGetDel(s, c)
    [] c.name = "GETEX" -> cmdGetEx(s, c)
    [] c.name = "MSET" -> cmdMSet(s, c)
    [] c.name = "MSETNX" -> cmdMSetNX(s, c)
    [] c.name = "INCRBY" -> cmdIncrDecr(s, c)
    [] c.name = "INCRBYFLOAT" -> cmdIncrByFloat(s, c)
    [] c.name = "APPEND" -> cmdAppend(s, c)
    [] c.name = "SETRANGE" -> cmdSetRange(s, c)

KeyHandler(s, c) ==
  CASE c.name = "DEL" -> cmdDel(s, c)
    [] c.name = "RENAME" -> cmdRename(s, c)
    [] c.name = "COPY" -> cmdCopy(s, c)
    [] c.name = "PEXPIREAT" -> cmdExpire(s, c)
    [] c.name = "PERSIST" -> cmdPersist(s, c)
    [] c.name = "SORT" -> cmdSort(s, c)

ListHandler(s, c) ==
  CASE c.name = "LPUSH" -> listPush(s, c)
    [] c.name = "LPOP" -> listPop(s, c)
    [] c.name = "BLPOP" -> blockingPop(s, c)
    [] c.name = "LSET" -> cmdLSet(s, c)
    [] c.name = "LINSERT" -> cmdLInsert(s, c)
    [] c.name = "LREM" -> cmdLRem(s, c)
    [] c.name = "LTRIM" -> cmdLTrim(s, c)
    [] c.name = "LMOVE" -> listMove(s, c)
    [] c.name = "BLMOVE" -> blockingMove(s, c)

SetHandler(s, c) ==
  CASE c.name = "SADD" -> cmdSAdd(s, c)
    [] c.name = "SREM" -> cmdSRem(s, c)
    [] c.name = "SPOP" -> cmdSPop(s, c)
    [] c.name = "SMOVE" -> cmdSMove(s, c)
    [] c.name = "SSTORE" -> setCombineStore(s, c)

HashHandler(s, c) ==
  CASE c.name = "HSET" -> cmdHSet(s, c)
    [] c.name = "HSETNX" -> cmdHSetNX(s, c)
    [] c.name = "HDEL" -> cmdHDel(s, c)
    [] c.name = "HINCRBY" -> cmdHIncrBy(s, c)
    [] c.name = "HINCRBYFLOAT" -> cmdHIncrByFloat(s, c)

ZSetHandler(s, c) ==
  CASE c.name = "ZADD" -> cmdZAdd(s, c)
    [] c.name = "ZINCRBY" -> cmdZIncrBy(s, c)
    [] c.name = "ZREM" -> cmdZRem(s, c)
    [] c.name = "ZPOP" -> zpop(s, c)
    [] c.name = "BZPOP" -> blockingZPop(s, c)
    [] c.name = "ZREMRANGE" -> zremrange(s, c)
    [] c.name = "ZRANGESTORE" -> cmdZRangeStore(s, c)
    [] c.name = "ZSTORE" -> zcombineStore(s, c)

StringNames ==
  {"SET", "SETNX", "PSETEX", "GETSET", "GETDEL", "GETEX", "MSET", "MSETNX",
   "INCRBY", "INCRBYFLOAT", "APPEND", "SETRANGE"}
KeyNames ==
  {"DEL", "RENAME", "COPY", "PEXPIREAT", "PERSIST", "SORT"}
ListNames ==
  {"LPUSH", "LPOP", "BLPOP", "LSET", "LINSERT", "LREM", "LTRIM", "LMOVE",
   "BLMOVE"}
SetNames ==
  {"SADD", "SREM", "SPOP", "SMOVE", "SSTORE"}
HashNames ==
  {"HSET", "HSETNX", "HDEL", "HINCRBY", "HINCRBYFLOAT"}

Handler(s, c) ==
  CASE c.name \in StringNames -> StringHandler(s, c)
    [] c.name \in KeyNames -> KeyHandler(s, c)
    [] c.name \in ListNames -> ListHandler(s, c)
    [] c.name \in SetNames -> SetHandler(s, c)
    [] c.name \in HashNames -> HashHandler(s, c)
    [] OTHER -> ZSetHandler(s, c)

(* The commands whose handlers must name their effect themselves. *)
Canonical == {"SET", "SETNX", "PSETEX", "GETSET", "GETDEL", "GETEX", "MSETNX",
              "INCRBYFLOAT", "COPY", "PEXPIREAT", "BLPOP", "BLMOVE", "SPOP",
              "HSETNX", "HINCRBYFLOAT", "ZADD", "ZINCRBY", "ZPOP", "BZPOP"}

(* What the finished call s of command c has put on the log: the keys it   *)
(* reaped, then its explicit effects, or else its own arguments if it      *)
(* changed anything.  A canonical command with no effect of its own to     *)
(* show for a change panics: the change is not logged.                     *)
propagate(s, c) ==
  s.log \o CASE s.eff # <<>> -> s.eff
             [] s.eff = <<>> /\ s.dirty /\ c.name \notin Canonical -> <<c>>
             [] OTHER -> <<>>

(* One effect executed.  A log is loaded at a time when every instant it   *)
(* names has passed.                                                       *)
Apply(d, e) ==
  Table(Handler(Call(d, CopyMode,
                     Steady(IF CopyMode = "loading" THEN MaxNow + 2 ELSE now)), e))

(* The effects of a log executed, in order. *)
InOrder(Do(_, _), d, log) ==
  LET after[i \in 0..Len(log)] ==
        IF i = 0 THEN d ELSE Do(after[i - 1], log[i])
  IN  after[Len(log)]

Replayed(d, log) == InOrder(Apply, d, log)

(***************************************************************************)
(* Keys that have expired, as if they had gone at once.                    *)
(***************************************************************************)
Visible(obj, at) == [k \in Keys |-> IF Due(obj[k], at) THEN Nil ELSE obj[k]]
Purged(d, at) ==
  [d EXCEPT !.obj = Visible(d.obj, at),
            !.ttl = {k \in @ : ~Due(d.obj[k], at)}]

(* The common end of every step: s is the finished call on the leader, i   *)
(* the same call on the ideal keyspace, and n the instant they end at.     *)
Step(s, log, i, n) ==
  /\ db' = Table(s)
  /\ copy' = Replayed(copy, log)
  /\ seen' = [k \in Keys |-> IF k \in s.sig THEN s.obj[k] ELSE seen[k]]
  /\ ideal' = Purged(Table(i), n)
  /\ now' = n

(* The bounds: elements and expiries in all, and scores. *)
Total(obj) == Cardinality(UNION {{k} \X DOMAIN obj[k].val : k \in Keys})
Bounded(s) ==
  /\ Total(s.obj) + Cardinality(s.ttl) <= MaxSize
  /\ \A k \in Keys : s.obj[k].type = "zset" =>
                       \A m \in DOMAIN s.obj[k].val : s.obj[k].val[m] <= MaxInt

(***************************************************************************)
(* The commands a client can send.                                         *)
(***************************************************************************)
With(name, k, val, n, opts) ==
  [Command(name, k) EXCEPT !.val = val, !.n = n, !.opts = opts]
Between(name, k, d, val, n, opts) == [With(name, k, val, n, opts) EXCEPT !.dst = d]
Members == {AsSet(ms) : ms \in (SUBSET Elems) \ {{}}}
One(e) == <<e>>                     \* one character, element or field
Pairs == {Pair(f, v) : f, v \in Elems}
Some == CHOOSE e \in Elems : TRUE   \* where which element it is does not matter
Distinct(cs) == {c \in cs : c.key # c.dst}

StringCommands ==
  UNION {
    {With("SET", k, One(Some), 0, opts) : k \in Keys,
       opts \in {{"NX"}, {"XX"}, {"KEEPTTL"}, {"XX", "KEEPTTL", "GET"}}},
    {With("SET", k, One(Some), at, {"PXAT"}) : k \in Keys, at \in Instants},
    {With(name, k, One(e), 0, {}) : k \in Keys, e \in Elems,
       name \in {"SET", "SETNX", "GETSET", "APPEND"}},
    {With("PSETEX", k, One(Some), 1, {}) : k \in Keys},
    {With("GETEX", k, <<>>, at, {"PXAT"}) : k \in Keys, at \in Instants},
    {With("GETEX", k, <<>>, 0, opts) : k \in Keys, opts \in {{}, {"PERSIST"}}},
    {Command("GETDEL", k) : k \in Keys},
    Distinct({Between(name, k, d, One(e), 0, {}) : k, d \in Keys, e \in Elems,
                name \in {"MSET", "MSETNX"}}),
    {With(name, k, <<>>, n, {}) : k \in Keys, n \in Deltas,
       name \in {"INCRBY", "INCRBYFLOAT"}},
    {With("SETRANGE", k, One(e), n, {}) : k \in Keys, e \in Elems, n \in 0..1}}

KeyCommands ==
  UNION {
    {Between("DEL", k, d, <<>>, 0, {}) : k, d \in Keys},
    {Between("RENAME", k, d, <<>>, 0, opts) : k, d \in Keys, opts \in {{}, {"NX"}}},
    Distinct({Between("COPY", k, d, <<>>, 0, opts) : k, d \in Keys,
                opts \in {{}, {"REPLACE"}}}),
    {With("PEXPIREAT", k, <<>>, at, opts) : k \in Keys, at \in Instants,
       opts \in {{}, {"NX"}, {"XX"}, {"GT"}, {"LT"}}},
    {Command("PERSIST", k) : k \in Keys},
    {Between("SORT", k, d, <<>>, 1, {"DESC"}) : k, d \in Keys},
    {Between("SORT", k, d, <<>>, 2, {}) : k, d \in Keys}}

ListCommands ==
  UNION {
    {With("LPUSH", k, One(e), 0, opts) : k \in Keys, e \in Elems,
       opts \in SUBSET {"FRONT", "X"}},
    {With(name, k, <<>>, 0, opts) : k \in Keys, opts \in SUBSET {"FRONT"},
       name \in {"LPOP", "BLPOP"}},
    {With("LSET", k, One(e), i, {}) : k \in Keys, e \in Elems, i \in {0, -1}},
    {With("LINSERT", k, One(Some), p, opts) : k \in Keys, p \in Elems,
       opts \in {{}, {"BEFORE"}}},
    {With("LREM", k, One(e), n, {}) : k \in Keys, e \in Elems, n \in -1..1},
    {With("LTRIM", k, r, 0, {}) : k \in Keys, r \in {<<0, 0>>, <<1, -1>>}},
    {Between("LMOVE", k, d, <<>>, 0, opts) : k, d \in Keys,
       opts \in SUBSET {"FRONT", "DSTFRONT"}},
    {Between("BLMOVE", k, d, <<>>, 0, {"FRONT"}) : k, d \in Keys}}

SetCommands ==
  UNION {
    {With(name, k, ms, 0, {}) : k \in Keys, ms \in Members,
       name \in {"SADD", "SREM", "SPOP"}},
    {Between("SMOVE", k, d, <<>>, e, {}) : k, d \in Keys, e \in Elems},
    {Between("SSTORE", k, d, <<>>, 0, {op}) : k, d \in Keys,
       op \in {"INTER", "UNION", "DIFF"}}}

HashCommands ==
  UNION {
    {With("HSET", k, p, 0, {}) : k \in Keys, p \in Pairs \cup {Pair(f, Pad) : f \in Elems}},
    {With("HSETNX", k, Pair(f, Some), 0, {}) : k \in Keys, f \in Elems},
    {With("HDEL", k, ms, 0, {}) : k \in Keys, ms \in Members},
    {With(name, k, One(f), n, {}) : k \in Keys, f \in Elems, n \in Deltas,
       name \in {"HINCRBY", "HINCRBYFLOAT"}}}

ZSetCommands ==
  UNION {
    {With(name, k, p, 0, {}) : k \in Keys, p \in Pairs, name \in {"ZADD", "ZINCRBY"}},
    {With("ZADD", k, Pair(Some, v), 0, opts) : k \in Keys, v \in Elems,
       opts \in {{"NX"}, {"XX"}, {"GT"}, {"LT"}}},
    {With("ZREM", k, ms, 0, {}) : k \in Keys, ms \in Members},
    {With(name, k, <<>>, 0, opts) : k \in Keys, opts \in {{}, {"MAX"}},
       name \in {"ZPOP", "BZPOP"}},
    {With("ZREMRANGE", k, <<0, 1>>, 0, {by}) : k \in Keys,
       by \in {"BYRANK", "BYSCORE", "BYLEX"}},
    {Between("ZRANGESTORE", k, d, <<0, 0>>, 0, {"BYRANK"}) : k, d \in Keys},
    {Between("ZRANGESTORE", k, d, <<0, 1>>, 0, {"BYSCORE", "REV"}) : k, d \in Keys},
    {Between("ZSTORE", k, d, <<>>, 1, {op, agg}) : k, d \in Keys,
       op \in {"INTER", "UNION"}, agg \in {"SUM", "MIN", "MAX"}},
    {Between("ZSTORE", k, d, <<>>, 1, {"DIFF"}) : k, d \in Keys}}

(* What the clock can show to command c if it shows now at its start and n *)
(* at its end.  Every command looks its first key up before its second,    *)
(* and only the second more than once, three times at most.                *)
Clocks(c, n) ==
  {[Steady(now) EXCEPT !.at[c.dst] = n]}
    \cup {[Steady(now) EXCEPT !.later[c.dst] = q] :
            q \in IF SplitReadings THEN {<<now, n>>, <<now, now, n>>} ELSE {}}

(* One command executed, in both keyspaces: they are the same as long as   *)
(* no key in the table has expired.                                        *)
Execute(c) ==
  \E n \in now..MaxNow : \E clock \in Clocks(c, n) :
    \E s \in {Handler(Call(db, "leader", clock), c)} :
      /\ Bounded(s)
      /\ \E i \in {IF ideal = db THEN s ELSE Handler(Call(ideal, "leader", clock), c)} :
           Step(s, propagate(s, c), i, n)

(***************************************************************************)
(* What the keyspace does on its own.                                      *)
(***************************************************************************)
(* One entry of the TTL index examined by the active expiry, which takes   *)
(* the shard's ordering lock for it.                                       *)
expireSample(k) ==
  LET s == Call(db, "leader", Steady(now))
      i == Call(ideal, "leader", Steady(now)) IN
  /\ k \in db.ttl
  /\ IF s.obj[k] = Nil
       THEN Step([s EXCEPT !.ttl = @ \ {k}], <<>>, i, now)
       ELSE expired(s, k) /\ Step(expireKey(s, k), expireKey(s, k).log, i, now)

(* One key evicted.  The policy only narrows the choice, from a sample     *)
(* taken before the shard's locks are.                                     *)
evictOne(k) ==
  LET s == Call(db, "leader", Steady(now))
      e == [touched(removeLocked(s, k), k) EXCEPT !.log = <<Command("DEL", k)>>]
  IN  /\ s.obj[k] # Nil
      /\ Step(e, e.log, removeLocked(Call(ideal, "leader", Steady(now)), k), now)

Tick == /\ now < MaxNow
        /\ now' = now + 1
        /\ ideal' = Purged(ideal, now + 1)
        /\ UNCHANGED <<db, copy, seen>>

Next ==
  \/ \E c \in StringCommands : Execute(c)
  \/ \E c \in KeyCommands : Execute(c)
  \/ \E c \in ListCommands : Execute(c)
  \/ \E c \in SetCommands : Execute(c)
  \/ \E c \in HashCommands : Execute(c)
  \/ \E c \in ZSetCommands : Execute(c)
  \/ \E k \in Keys : expireSample(k)
  \/ \E k \in Keys : evictOne(k)
  \/ Tick

Spec == Init /\ [][Next]_vars

(***************************************************************************)
(* Properties.                                                             *)
(***************************************************************************)
Payloads == {"string", "list", "set", "hash", "zset", "none"}

IsTable(d) ==
  /\ DOMAIN d.obj = Keys
  /\ \A k \in Keys :
       /\ d.obj[k].type \in Payloads
       /\ d.obj[k].at \in 0..MaxNow + 1
       /\ d.obj[k].type \in {"string", "list"} => DOMAIN d.obj[k].val \subseteq 1..MaxSize
       /\ d.obj[k].type \in {"set", "hash", "zset"} => DOMAIN d.obj[k].val \subseteq Elems
  /\ d.ttl \subseteq Keys
  /\ d.mem \in Int

(* The tables are tables: strings and lists are sequences, the other       *)
(* collections functions on members, and only keys are indexed; so no      *)
(* command leaves a value of another type's shape under a key (the         *)
(* type assertions of engine/keyspace.go).                                 *)
TypeOK == /\ IsTable(db) /\ IsTable(copy) /\ IsTable(ideal)
          /\ DOMAIN seen = Keys
          /\ now \in 1..MaxNow

(* The log is replay-safe (ADR-008): a keyspace that loads it, whenever it *)
(* does, holds exactly the objects, values, instants and TTL index of the  *)
(* keyspace that wrote it, whatever conditional, relative, random or       *)
(* clock-dependent commands, lazy and active expiry and evictions it went  *)
(* through.  It takes the readings that one command makes for one key to   *)
(* agree (~SplitReadings): a command that finds its source alive and its   *)
(* destination, the same key, expired logs a DEL before what it computed   *)
(* from that key, which is then not what the loading keyspace computes.    *)
ReplaySafe == copy.obj = db.obj /\ copy.ttl = db.ttl

(* The TTL index, all that the active expiry and the volatile eviction     *)
(* policies look at, lists exactly the keys that have an instant to expire *)
(* at (store, removeLocked and setExpireLocked of engine/keyspace.go).     *)
IndexExact == db.ttl = {k \in Keys : db.obj[k].at > 0}

(* "Exists" and "is not empty" are the same question for a collection,     *)
(* whichever command took its last element out (finishWrite of             *)
(* engine/collection.go).                                                  *)
NoEmptyCollection ==
  \A k \in Keys : db.obj[k].type \in {"list", "set", "hash", "zset"} =>
                   DOMAIN db.obj[k].val # {}

(* A client that rereads a key only when the key is signalled knows every  *)
(* key: no command, expiry or eviction changes a key, its value or its     *)
(* instant, without KeyModified for it, which is what makes WATCH sound    *)
(* and wakes a blocked client (DB.touched of engine/keyspace.go).          *)
SignalsEveryChange == seen = db.obj

(* An expired key is indistinguishable from an absent one, though it is    *)
(* still in the table until a write, the active expiry or an eviction      *)
(* comes by: the keys that have not expired are at every moment those of a *)
(* keyspace that removes each key at its instant (lookup and expired).     *)
ExpiredIsAbsent == Visible(db.obj, now) = ideal.obj

(* What every command leaves of a keyspace, beside its effects and signals. *)
KeyspaceSound == TypeOK /\ IndexExact /\ NoEmptyCollection /\ ExpiredIsAbsent

-----------------------------------------------------------------------------
(***************************************************************************)
(* What the comments say and the code does not do.                         *)
(***************************************************************************)
(* The memory estimate is the size of what is stored, which is what        *)
(* maxmemory is compared with (engine/memory.go, engine/collection.go).    *)
MemoryExact == db.mem = FoldFunction(LAMBDA o, n : n + objectSize(o), 0, db.obj)

(* A replica leaves the deleting of an expired key to its leader, and the  *)
(* leader's DEL does delete it there (lookup of engine/keyspace.go).       *)
ReplicaDeletes == \A k \in Keys : db.obj[k] = Nil => copy.obj[k] = Nil
=============================================================================
