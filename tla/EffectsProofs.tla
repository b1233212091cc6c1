--------------------------- MODULE EffectsProofs ----------------------------
(***************************************************************************)
(* The proofs about Effects: that the effects a leader logs, replayed,     *)
(* make its keyspace again, that every change is signalled, and that an    *)
(* expired key is indistinguishable from an absent one.                    *)
(*                                                                         *)
(* The argument is in two halves.  Every command is Safe: whatever the     *)
(* table, it changes only keys it signals, answers an expired key as it    *)
(* does a missing one, and what it logs, loaded after the deletions of the *)
(* keys it reaped, makes the same table again (CommandsSafe).  Then the    *)
(* invariants LeaderInv and CopyInv are inductive: a step is a safe        *)
(* command, an expiry, an eviction or a tick, and Replayed is followed     *)
(* along the log it appends.                                               *)
(*                                                                         *)
(* A command is proved Safe in three steps: what its engine operation does *)
(* for each object it can find at its keys (the lemmas ending in Does),    *)
(* what the handler then logs, and what that effect does when it is loaded *)
(* (the lemmas ending in Redone).                                          *)
(***************************************************************************)
EXTENDS Effects, FiniteSetTheorems, WellFoundedInduction, TLAPS

-----------------------------------------------------------------------------
(* Calls, objects and tables.                                              *)

\* A call has the fields of one; a sequence, the shape of one.
IsCall(s) == DOMAIN s = {"obj", "ttl", "mem", "mode", "clock", "log", "sig", "dirty", "eff",
                         "res", "err"}

IsSeq(v) == \E n \in Nat : v = [i \in 1 .. n |-> v[i]]

\* The values an object of each type can have.
Shape(t, v) ==
  /\ t \in {"string", "list"} => IsSeq(v)
  /\ t \in {"set", "hash", "zset"} => DOMAIN v \subseteq Elems
  /\ t # "string" => DOMAIN v # {}
  /\ t = "set" => v = AsSet(DOMAIN v)

\* An object, a table of objects, and the keys that have an instant.
Proper(o) ==
  /\ o = Object(o.type, o.at, o.val)
  /\ o.type \in Types /\ o.at \in 0 .. MaxNow + 1 /\ Shape(o.type, o.val)

GoodObj(o) == o = Nil \/ Proper(o)

Whole(obj) == obj = [k \in Keys |-> obj[k]] /\ \A k \in Keys : GoodObj(obj[k])

Indexed(obj) == {k \in Keys : obj[k].at > 0}

\* A log of deletions, of exactly the keys of D.
Reaps(log, D) ==
  /\ log \in Seq({Command("DEL", k) : k \in D})
  /\ \A k \in D : \E i \in DOMAIN log : log[i] = Command("DEL", k)

\* A table, and the call that starts from it.
GoodTable(d) == Whole(d.obj) /\ d.ttl = Indexed(d.obj) /\ d.mem \in Int

\* A clock that shows one instant for all the readings of a key, and the ones a leader's command
\* can start at.
Still(n) == n.start \in Nat /\ \A k \in Keys : n.at[k] \in Nat /\ n.later[k] = <<>>
Stills == [start : 1 .. MaxNow, at : [Keys -> Nat], later : [Keys -> {<<>>}]]

\* A call that starts: nothing looked up, written, logged or answered.
Start(s) ==
  /\ IsCall(s) /\ Whole(s.obj) /\ s.ttl = Indexed(s.obj) /\ s.mem \in Int
  /\ s.mode \in {"leader", "loading"} /\ Still(s.clock)
  /\ s.log = <<>> /\ s.sig = {} /\ s.dirty = FALSE /\ s.eff = <<>> /\ s.err = FALSE

\* The call s has looked up the keys of R and written those of W.
At(s0, s, R, W) ==
  /\ IsCall(s) /\ s.mode = s0.mode /\ s.clock = s0.clock
  /\ Whole(s.obj) /\ s.ttl = Indexed(s.obj) /\ s.mem \in Int
  /\ \A k \in Keys \ W : s.obj[k] = IF k \in R THEN Found(s0, k) ELSE s0.obj[k]
  /\ W \subseteq s.sig /\ \A k \in R : expired(s0, k) => k \in s.sig
  /\ Reaps(s.log, {k \in R : expired(s0, k)})

\* t is s but for what it answers.
SameFields(s, t) == t.eff = s.eff /\ t.dirty = s.dirty /\ t.res = s.res /\ t.err = s.err

\* A call that looked up k alone, and one that then wrote it too.
Looks(s, t, k) == At(s, t, {k}, {})
Puts(s, t, k, new) == At(s, t, {k}, {k}) /\ t.obj[k] = new

\* A call that has not reported anything.
Quiet(t) == t.eff = <<>> /\ t.dirty = FALSE /\ t.err = FALSE

\* t is s but for its effects and its answer; or it has written o at k, with or without the
\* signal.
SameTable(s, t) ==
  /\ IsCall(t) /\ t.obj = s.obj /\ t.ttl = s.ttl /\ t.mem = s.mem
  /\ t.mode = s.mode /\ t.clock = s.clock /\ t.log = s.log /\ t.sig = s.sig

Wrote(s, t, k, o) ==
  /\ IsCall(t) /\ t.mode = s.mode /\ t.clock = s.clock /\ t.log = s.log /\ SameFields(s, t)
  /\ t.obj = [s.obj EXCEPT ![k] = o]
  /\ t.ttl = IF o.at > 0 THEN s.ttl \cup {k} ELSE s.ttl \ {k}
  /\ t.sig = s.sig \cup {k} /\ t.mem \in Int

\* A still clock reads the same again, and the clocks of Stills are still.
LEMMA StillFacts ==
  /\ \A s, k : Still(s.clock) /\ k \in Keys
               => Reading(s, k) = s /\ lookup(s, k) = Reaped(s, k) /\ Now(s, k) \in Nat
  /\ \A n \in Stills : Still(n) /\ n.start \in 1 .. MaxNow
  /\ \A n \in Nat : Still(Steady(n))
<1>1. \A s, k : Still(s.clock) /\ k \in Keys
                 => Reading(s, k) = s /\ lookup(s, k) = Reaped(s, k) /\ Now(s, k) \in Nat
  BY DEF Still, Reading, lookup, Now
<1>2. \A n \in Stills : Still(n) /\ n.start \in 1 .. MaxNow
  BY EffectsAssumption DEF Still, Stills
<1>3. \A n \in Nat : Still(Steady(n))
  BY DEF Still, Steady
<1>4. QED BY <1>1, <1>2, <1>3

\* What the object of a missing key looks like; it is a good one.
LEMMA NilFacts == Nil.type = "none" /\ Nil.at = 0 /\ Nil.val = <<>> /\ DOMAIN Nil.val = {} /\ GoodObj(Nil)
BY DEF Nil, GoodObj

\* The fields of an object, and that one with a type is there.
LEMMA ObjectFacts ==
  ASSUME NEW t, NEW at, NEW v
  PROVE  /\ Object(t, at, v).type = t /\ Object(t, at, v).at = at /\ Object(t, at, v).val = v
         /\ t # "none" => Object(t, at, v) # Nil
BY DEF Object, Nil

\* A good object has one of the types, an instant in range, and no type only if it is missing.
LEMMA GoodFacts ==
  ASSUME NEW o, GoodObj(o)
  PROVE  /\ o.type \in Payloads /\ o.at \in 0 .. MaxNow + 1 /\ o.at \in Nat
         /\ o.type = "none" <=> o = Nil
         /\ o # Nil => Proper(o)
         /\ o.val = <<>> \/ Proper(o)
BY NilFacts, EffectsAssumption DEF GoodObj, Proper, Payloads, Types

\* Values are finite and sizes are numbers.
LEMMA ShapeFinite ==
  ASSUME NEW t \in Types, NEW v, Shape(t, v)
  PROVE  IsFiniteSet(DOMAIN v)
<1>1. CASE t \in {"string", "list"}
  <2>1. PICK n \in Nat : v = [i \in 1 .. n |-> v[i]]
    BY <1>1 DEF Shape, IsSeq
  <2>2. DOMAIN v = 1 .. n
    BY <2>1
  <2>3. QED BY <2>2, FS_Interval
<1>2. CASE t \in {"set", "hash", "zset"}
  BY <1>2, FS_Subset, EffectsAssumption DEF Shape
<1>3. QED BY <1>1, <1>2 DEF Types

\* The size of an object with finitely many elements is a number.
LEMMA SizeOf ==
  ASSUME NEW o, IsFiniteSet(DOMAIN o.val)
  PROVE  objectSize(o) \in Int
<1>1. Cardinality(DOMAIN o.val) \in Nat
  BY FS_CardinalityType
<1>2. QED BY <1>1 DEF objectSize

\* So is that of a good one.
LEMMA SizeType == ASSUME NEW o, GoodObj(o) PROVE objectSize(o) \in Int
<1>1. CASE o = Nil
  BY <1>1 DEF objectSize
<1>2. CASE o # Nil
  BY <1>2, ShapeFinite, SizeOf DEF GoodObj, Proper
<1>3. QED BY <1>1, <1>2

-----------------------------------------------------------------------------
(* The primitives.                                                         *)

\* Charging memory changes the estimate alone.
LEMMA ChargeFacts ==
  ASSUME NEW s, IsCall(s), s.mem \in Int, NEW n \in Int
  PROVE  /\ IsCall(Charge(s, n)) /\ SameFields(s, Charge(s, n)) /\ Charge(s, n).mem \in Int
         /\ Charge(s, n).obj = s.obj /\ Charge(s, n).ttl = s.ttl /\ Charge(s, n).mode = s.mode
         /\ Charge(s, n).clock = s.clock /\ Charge(s, n).log = s.log /\ Charge(s, n).sig = s.sig
BY DEF Charge, IsCall, SameFields

\* A signal changes the keys signalled and nothing else.
LEMMA TouchedFacts ==
  ASSUME NEW s, IsCall(s), NEW k
  PROVE  /\ IsCall(touched(s, k)) /\ SameFields(s, touched(s, k)) /\ touched(s, k).mem = s.mem
         /\ touched(s, k).obj = s.obj /\ touched(s, k).ttl = s.ttl
         /\ touched(s, k).mode = s.mode /\ touched(s, k).clock = s.clock
         /\ touched(s, k).log = s.log /\ touched(s, k).sig = s.sig \cup {k}
BY DEF touched, IsCall, SameFields

\* An answer changes the result alone.
LEMMA ReturnFacts ==
  ASSUME NEW s, IsCall(s), NEW r
  PROVE  LET t == Return(s, r) IN
         /\ SameTable(s, t)
         /\ t.eff = s.eff /\ t.dirty = s.dirty /\ t.err = s.err /\ t.res = r
BY DEF Return, IsCall, SameTable

\* An error changes the result and the error flag alone.
LEMMA FailFacts ==
  ASSUME NEW s, IsCall(s)
  PROVE  LET t == Fail(s) IN
         /\ SameTable(s, t)
         /\ t.eff = s.eff /\ t.dirty = s.dirty /\ t.err = TRUE /\ t.res = FALSE
BY DEF Fail, IsCall, SameTable

\* Counting a change leaves the table and the effects alone.
LEMMA DirtyFacts ==
  ASSUME NEW s, IsCall(s)
  PROVE  LET t == Dirty(s) IN
         /\ SameTable(s, t)
         /\ t.eff = s.eff /\ t.dirty = TRUE
BY DEF Dirty, IsCall, SameTable

\* An explicit effect is one more effect, and leaves the table alone.
LEMMA PropagateFacts ==
  ASSUME NEW s, IsCall(s), NEW e
  PROVE  LET t == Propagate(s, e) IN
         /\ SameTable(s, t)
         /\ t.eff = Append(s.eff, e)
BY DEF Propagate, IsCall, SameTable

-----------------------------------------------------------------------------
(* Writing one key.                                                        *)

\* A call whose table is one.
Table0(s) == IsCall(s) /\ Whole(s.obj) /\ s.ttl = Indexed(s.obj) /\ s.mem \in Int

\* A write without its signal.
Stored(s, t, k, o) ==
  /\ IsCall(t) /\ t.mode = s.mode /\ t.clock = s.clock /\ t.log = s.log /\ SameFields(s, t)
  /\ t.obj = [s.obj EXCEPT ![k] = o]
  /\ t.ttl = IF o.at > 0 THEN s.ttl \cup {k} ELSE s.ttl \ {k}
  /\ t.sig = s.sig /\ t.mem \in Int

\* store writes its key, keeps the TTL index in step, and leaves the rest of the call alone.
LEMMA StoreFields ==
  ASSUME NEW s, IsCall(s), s.mem \in Int, NEW k, objectSize(s.obj[k]) \in Int,
         s.obj[k].at \in Nat, k \in s.ttl <=> s.obj[k].at > 0,
         NEW o, objectSize(o) \in Int, o.at \in Nat
  PROVE  Stored(s, store(s, k, o), k, o)
<1> DEFINE r == [s EXCEPT !.obj[k] = o,
                          !.ttl = CASE o.at > 0 -> @ \cup {k}
                                    [] o.at = 0 /\ s.obj[k].at > 0 -> @ \ {k}
                                    [] OTHER -> @]
           n == objectSize(o) - objectSize(s.obj[k])
<1>2. n \in Int
  OBVIOUS
<1>4. /\ IsCall(r) /\ SameFields(s, r) /\ r.mem = s.mem /\ r.mode = s.mode /\ r.clock = s.clock
      /\ r.log = s.log /\ r.sig = s.sig /\ r.obj = [s.obj EXCEPT ![k] = o]
  BY DEF IsCall, SameFields
<1>5. r.ttl = CASE o.at > 0 -> s.ttl \cup {k}
                [] o.at = 0 /\ s.obj[k].at > 0 -> s.ttl \ {k}
                [] OTHER -> s.ttl
  BY DEF IsCall
<1>6. r.ttl = IF o.at > 0 THEN s.ttl \cup {k} ELSE s.ttl \ {k}
  BY <1>5
<1>7. store(s, k, o) = Charge(r, n)
  BY DEF store
<1> HIDE DEF r, n
<1>8. r.mem \in Int
  BY <1>4
<1>9. PICK q : q = store(s, k, o) /\ q = Charge(r, n)
  BY <1>7
<1>10. /\ IsCall(q) /\ SameFields(r, q) /\ q.mem \in Int
       /\ q.obj = r.obj /\ q.ttl = r.ttl /\ q.mode = r.mode
       /\ q.clock = r.clock /\ q.log = r.log /\ q.sig = r.sig
  <2>1. IsCall(r)
    BY <1>4
  <2>2. QED BY ONLY <1>2, <1>8, <1>9, <2>1, ChargeFacts, SMTT(30)
<1>11. Stored(s, q, k, o)
  BY <1>4, <1>6, <1>10 DEF Stored, SameFields
<1>12. QED BY <1>9, <1>11

\* removeLocked takes its key out of the table and of the TTL index.
LEMMA RemoveFields ==
  ASSUME NEW s, IsCall(s), s.mem \in Int, NEW k, objectSize(s.obj[k]) \in Int
  PROVE  Stored(s, removeLocked(s, k), k, Nil)
<1> DEFINE r == [s EXCEPT !.obj[k] = Nil, !.ttl = @ \ {k}]
           n == -objectSize(s.obj[k])
<1>2. n \in Int
  OBVIOUS
<1>4. /\ IsCall(r) /\ SameFields(s, r) /\ r.mem = s.mem /\ r.mode = s.mode /\ r.clock = s.clock
      /\ r.log = s.log /\ r.sig = s.sig /\ r.obj = [s.obj EXCEPT ![k] = Nil]
      /\ r.ttl = s.ttl \ {k}
  BY DEF IsCall, SameFields
<1>7. removeLocked(s, k) = Charge(r, n)
  BY DEF removeLocked
<1> HIDE DEF r, n
<1>8. r.mem \in Int
  BY <1>4
<1>9. PICK q : q = removeLocked(s, k) /\ q = Charge(r, n)
  BY <1>7
<1>10. /\ IsCall(q) /\ SameFields(r, q) /\ q.mem \in Int
       /\ q.obj = r.obj /\ q.ttl = r.ttl /\ q.mode = r.mode
       /\ q.clock = r.clock /\ q.log = r.log /\ q.sig = r.sig
  <2>1. IsCall(r)
    BY <1>4
  <2>2. QED BY ONLY <1>2, <1>8, <1>9, <2>1, ChargeFacts, SMTT(30)
<1>11. Stored(s, q, k, Nil)
  BY <1>4, <1>10, NilFacts DEF Stored, SameFields
<1>12. QED BY <1>9, <1>11

\* A key written and signalled.
LEMMA TouchStored ==
  ASSUME NEW s, NEW t, NEW k, NEW o, Stored(s, t, k, o)
  PROVE  Wrote(s, touched(t, k), k, o)
BY TouchedFacts DEF Stored, Wrote, SameFields

\* Of two writes of a key, the second stays.
LEMMA StoredTwice ==
  ASSUME NEW s, NEW m, NEW t, NEW k, NEW a, NEW b, Stored(s, m, k, a), Stored(m, t, k, b)
  PROVE  Stored(s, t, k, b)
<1>1. t.obj = [s.obj EXCEPT ![k] = b]
  <2>1. ASSUME NEW f PROVE [[f EXCEPT ![k] = a] EXCEPT ![k] = b] = [f EXCEPT ![k] = b]
    OBVIOUS
  <2>2. QED BY <2>1 DEF Stored
<1>2. t.ttl = IF b.at > 0 THEN s.ttl \cup {k} ELSE s.ttl \ {k}
  <2>1. m.ttl = s.ttl \cup {k} \/ m.ttl = s.ttl \ {k}
    BY DEF Stored
  <2>2. t.ttl = IF b.at > 0 THEN m.ttl \cup {k} ELSE m.ttl \ {k}
    BY DEF Stored
  <2>3. QED BY <2>1, <2>2
<1>3. QED BY <1>1, <1>2 DEF Stored, SameFields

\* A store with its signal, in any table.
LEMMA StoreWrites ==
  ASSUME NEW s, Table0(s), NEW k \in Keys, NEW o, GoodObj(o)
  PROVE  Wrote(s, touched(store(s, k, o), k), k, o)
<1>1. /\ GoodObj(s.obj[k]) /\ o.at \in Nat /\ s.obj[k].at \in Nat
      /\ k \in s.ttl <=> s.obj[k].at > 0
  BY GoodFacts DEF Table0, Whole, Indexed
<1>2. QED BY <1>1, SizeType, StoreFields, TouchStored DEF Table0

\* A removal with its signal, in any table.
LEMMA RemoveWrites ==
  ASSUME NEW s, Table0(s), NEW k \in Keys
  PROVE  Wrote(s, touched(removeLocked(s, k), k), k, Nil)
<1>1. GoodObj(s.obj[k])
  BY DEF Table0, Whole
<1>2. QED BY <1>1, SizeType, RemoveFields, TouchStored DEF Table0

\* The object a collection is left as.
Put(o, t, v) == IF DOMAIN v = {} THEN Nil ELSE Object(t, o.at, v)

\* The types finishWrite removes when they are empty, and the values they can be left with.
Collections == {"list", "set", "hash", "zset"}
Fits(t, v) == DOMAIN v = {} \/ Shape(t, v)

\* A collection that fits its type is a good object, or gone when it is empty.
LEMMA PutGood ==
  ASSUME NEW o, GoodObj(o), NEW t \in Collections, NEW v, Fits(t, v)
  PROVE  GoodObj(Put(o, t, v))
BY ObjectFacts, GoodFacts DEF Put, GoodObj, Proper, Fits, Collections, Types

\* A write finished, whether it emptied the collection or not.
LEMMA FinishWrites ==
  ASSUME NEW s, NEW m, NEW k \in Keys, NEW t \in Collections, NEW at \in Nat, NEW v, Fits(t, v),
         Whole(s.obj), Stored(s, m, k, Object(t, at, v))
  PROVE  Wrote(s, finishWrite(m, k), k, IF DOMAIN v = {} THEN Nil ELSE Object(t, at, v))
<1> DEFINE o == Object(t, at, v)
<1>1. o.val = v /\ o.at = at
  BY ObjectFacts
<1>2. IsFiniteSet(DOMAIN v)
  BY ShapeFinite, FS_EmptySet DEF Fits, Collections, Types
<1> HIDE DEF o
<1>3. m.obj[k] = o
  BY DEF Stored, Whole, o
<1>4. objectSize(m.obj[k]) \in Int
  BY <1>1, <1>2, <1>3, SizeOf
<1>5. CASE DOMAIN v = {}
  <2>1. finishWrite(m, k) = touched(removeLocked(m, k), k)
    BY <1>1, <1>3, <1>5 DEF finishWrite
  <2>2. Stored(m, removeLocked(m, k), k, Nil)
    BY <1>4, RemoveFields DEF Stored
  <2>3. QED BY <1>5, <2>1, <2>2, StoredTwice, TouchStored
<1>6. CASE DOMAIN v # {}
  <2> DEFINE q == Charge(m, objectSize(m.obj[k]) - objectSize(m.obj[k]))
  <2>1. finishWrite(m, k) = touched(q, k)
    BY <1>1, <1>3, <1>6 DEF finishWrite
  <2>2. objectSize(m.obj[k]) - objectSize(m.obj[k]) \in Int /\ IsCall(m) /\ m.mem \in Int
    BY <1>4 DEF Stored
  <2>3. /\ IsCall(q) /\ SameFields(m, q) /\ q.mem \in Int
        /\ q.obj = m.obj /\ q.ttl = m.ttl /\ q.mode = m.mode
        /\ q.clock = m.clock /\ q.log = m.log /\ q.sig = m.sig
    BY <2>2, ChargeFacts
  <2> HIDE DEF q
  <2>4. Stored(s, q, k, o)
    BY <2>3 DEF Stored, SameFields, o
  <2>5. QED BY <1>6, <2>1, <2>4, TouchStored DEF o
<1>7. QED BY <1>5, <1>6

\* A value changed in place.
LEMMA ValStored ==
  ASSUME NEW s, NEW m, NEW k \in Keys, NEW o, o = Object(o.type, o.at, o.val), NEW v,
         Whole(s.obj), Stored(s, m, k, o)
  PROVE  Stored(s, [m EXCEPT !.obj[k].val = v], k, Object(o.type, o.at, v))
<1> DEFINE q == [m EXCEPT !.obj[k].val = v]
<1>1. /\ IsCall(q) /\ SameFields(m, q) /\ q.mem = m.mem /\ q.mode = m.mode /\ q.clock = m.clock
      /\ q.log = m.log /\ q.sig = m.sig /\ q.ttl = m.ttl
      /\ q.obj = [m.obj EXCEPT ![k] = [m.obj[k] EXCEPT !.val = v]]
  BY DEF Stored, IsCall, SameFields
<1>2. [o EXCEPT !.val = v] = Object(o.type, o.at, v)
  BY DEF Object
<1>3. m.obj[k] = o /\ m.obj = [s.obj EXCEPT ![k] = o]
  BY DEF Stored, Whole
<1>4. q.obj = [s.obj EXCEPT ![k] = Object(o.type, o.at, v)]
  BY <1>1, <1>2, <1>3
<1>5. Object(o.type, o.at, v).at = o.at
  BY ObjectFacts
<1> HIDE DEF q
<1>6. Stored(s, q, k, Object(o.type, o.at, v))
  BY <1>1, <1>4, <1>5 DEF Stored, SameFields
<1>7. QED BY <1>6 DEF q

\* newCollection stores an empty collection with no instant.
LEMMA NewStored ==
  ASSUME NEW s, Table0(s), NEW k \in Keys, NEW t
  PROVE  Stored(s, newCollection(s, k, t), k, Object(t, 0, <<>>))
<1>1. objectSize(Object(t, 0, <<>>)) \in Int
  <2>1. DOMAIN Object(t, 0, <<>>).val = {}
    BY ObjectFacts
  <2>2. QED BY <2>1, FS_EmptySet, SizeOf
<1>2. /\ GoodObj(s.obj[k]) /\ s.obj[k].at \in Nat /\ Object(t, 0, <<>>).at = 0
      /\ k \in s.ttl <=> s.obj[k].at > 0
  BY GoodFacts, ObjectFacts DEF Table0, Whole, Indexed
<1>3. QED BY <1>1, <1>2, SizeType, StoreFields DEF Table0, newCollection

\* Nothing is changed yet.
LEMMA StoredSelf ==
  ASSUME NEW s, Table0(s), NEW k \in Keys
  PROVE  Stored(s, s, k, s.obj[k])
<1>1. s.obj = [s.obj EXCEPT ![k] = s.obj[k]]
  BY DEF Table0, Whole
<1>2. s.ttl = IF s.obj[k].at > 0 THEN s.ttl \cup {k} ELSE s.ttl \ {k}
  BY DEF Table0, Indexed
<1>3. QED BY <1>1, <1>2 DEF Stored, SameFields, Table0

\* Change leaves the collection with its new value, its instant kept, or no key when it is empty.
LEMMA ChangeWrites ==
  ASSUME NEW s, Table0(s), NEW k \in Keys, ~expired(s, k), NEW t \in Collections,
         s.obj[k] = Nil \/ s.obj[k].type = t, NEW v, Fits(t, v)
  PROVE  Wrote(s, Change(s, k, t, v), k, Put(s.obj[k], t, v)) /\ GoodObj(Put(s.obj[k], t, v))
<1>1. Found(s, k) = s.obj[k] /\ GoodObj(s.obj[k]) /\ s.obj[k].at \in Nat
  BY GoodFacts DEF Found, Table0, Whole
<1>2. GoodObj(Put(s.obj[k], t, v))
  BY <1>1, PutGood
<1>3. CASE s.obj[k] = Nil
  <2> DEFINE m == newCollection(s, k, t)
             E == Object(t, 0, <<>>)
  <2>1. Stored(s, m, k, E)
    BY NewStored
  <2>2. E.type = t /\ E.at = 0 /\ E.val = <<>> /\ E = Object(E.type, E.at, E.val)
    BY ObjectFacts
  <2>3. Change(s, k, t, v) = finishWrite([m EXCEPT !.obj[k].val = v], k)
    BY <1>1, <1>3 DEF Change
  <2> HIDE DEF m, E
  <2>4. Stored(s, [m EXCEPT !.obj[k].val = v], k, Object(t, 0, v))
    BY <2>1, <2>2, ValStored DEF Table0
  <2>5. s.obj[k].at = 0
    BY <1>3, NilFacts
  <2>6. PICK f : f = Change(s, k, t, v) /\ f = finishWrite([m EXCEPT !.obj[k].val = v], k)
    BY <2>3
  <2>7. Wrote(s, f, k, IF DOMAIN v = {} THEN Nil ELSE Object(t, 0, v))
    BY <2>4, <2>6, FinishWrites DEF Table0
  <2>8. QED BY <1>2, <2>5, <2>6, <2>7 DEF Put
<1>4. CASE s.obj[k] # Nil
  <2> DEFINE o == s.obj[k]
  <2>1. Stored(s, s, k, o) /\ o.type = t /\ o = Object(o.type, o.at, o.val) /\ o.at \in Nat
    BY <1>1, <1>4, StoredSelf DEF GoodObj, Proper
  <2>2. Change(s, k, t, v) = finishWrite([s EXCEPT !.obj[k].val = v], k)
    BY <1>1, <1>4 DEF Change
  <2> HIDE DEF o
  <2>4. Stored(s, [s EXCEPT !.obj[k].val = v], k, Object(t, o.at, v))
    BY <2>1, ValStored DEF Table0
  <2>6. QED BY <1>2, <2>1, <2>2, <2>4, FinishWrites DEF Table0, Put, o
<1>5. QED BY <1>3, <1>4

\* setExpireLocked changes the instant of an object that is there, and its entry in the index.
LEMMA ExpireWrites ==
  ASSUME NEW s, Table0(s), NEW k \in Keys, s.obj[k] # Nil, NEW at \in 0 .. MaxNow + 1
  PROVE  LET o == Object(s.obj[k].type, at, s.obj[k].val)
         IN  GoodObj(o) /\ Wrote(s, touched(setExpireLocked(s, k, at), k), k, o)
<1> DEFINE o == Object(s.obj[k].type, at, s.obj[k].val)
           r == setExpireLocked(s, k, at)
<1>1. Proper(s.obj[k])
  BY DEF Table0, Whole, GoodObj
<1>2. o = [s.obj[k] EXCEPT !.at = at]
  <2>1. ASSUME NEW p, p = Object(p.type, p.at, p.val)
        PROVE  Object(p.type, at, p.val) = [p EXCEPT !.at = at]
    BY <2>1 DEF Object
  <2>2. QED BY <1>1, <2>1 DEF Proper
<1>3. GoodObj(o) /\ o.at = at
  BY <1>1, ObjectFacts DEF GoodObj, Proper
<1>4. at > 0 \/ ~(at > 0)
  OBVIOUS
<1>5. /\ IsCall(r) /\ SameFields(s, r) /\ r.mem = s.mem /\ r.mode = s.mode /\ r.clock = s.clock
      /\ r.log = s.log /\ r.sig = s.sig
      /\ r.obj = [s.obj EXCEPT ![k] = [s.obj[k] EXCEPT !.at = at]]
      /\ r.ttl = IF at > 0 THEN s.ttl \cup {k} ELSE s.ttl \ {k}
  BY DEF IsCall, Table0, SameFields, setExpireLocked
<1> HIDE DEF r, o
<1>6. r.mem \in Int
  BY <1>5 DEF Table0
<1>7. Wrote(s, touched(r, k), k, o)
  BY <1>2, <1>3, <1>5, <1>6, TouchedFacts DEF Wrote, SameFields
<1>8. QED BY <1>3, <1>7 DEF r, o

\* What one write does to every key.
LEMMA WroteObj ==
  ASSUME NEW s, Whole(s.obj), NEW k \in Keys, NEW o, GoodObj(o), NEW t, Wrote(s, t, k, o)
  PROVE  /\ t.obj[k] = o /\ \A j \in Keys \ {k} : t.obj[j] = s.obj[j]
         /\ Whole(t.obj)
BY DEF Wrote, Whole

\* One write leaves a table.
LEMMA WroteTable ==
  ASSUME NEW s, Table0(s), NEW k \in Keys, NEW o, GoodObj(o), NEW t, Wrote(s, t, k, o)
  PROVE  Table0(t)
<1>1. /\ t.obj[k] = o /\ \A j \in Keys \ {k} : t.obj[j] = s.obj[j]
      /\ Whole(t.obj)
  BY WroteObj DEF Table0
<1>2. t.ttl = IF o.at > 0 THEN s.ttl \cup {k} ELSE s.ttl \ {k}
  BY DEF Wrote
<1>3. t.ttl = Indexed(t.obj)
  BY <1>1, <1>2 DEF Indexed, Table0
<1>4. QED BY <1>1, <1>3 DEF Table0, Wrote

\* A key written is one more in W.
LEMMA WroteAt ==
  ASSUME NEW s0, NEW s, NEW R, NEW W, At(s0, s, R, W), NEW k \in Keys, NEW o, GoodObj(o),
         NEW t, Wrote(s, t, k, o), NEW V, V = W \cup {k}
  PROVE  /\ At(s0, t, R, V) /\ SameFields(s, t)
         /\ t.obj[k] = o /\ \A j \in Keys \ {k} : t.obj[j] = s.obj[j]
<1>1. Table0(s)
  BY DEF At, Table0
<1>2. Table0(t) /\ t.obj[k] = o /\ \A j \in Keys \ {k} : t.obj[j] = s.obj[j]
  BY <1>1, WroteTable, WroteObj DEF Table0
<1>3. IsCall(t) /\ t.mode = s.mode /\ t.clock = s.clock /\ t.log = s.log /\ t.sig = s.sig \cup {k}
  BY DEF Wrote
<1>4. QED BY <1>2, <1>3 DEF At, Table0, Wrote

\* Answers and effects do not change what a call has looked up and written.
LEMMA SameAt ==
  ASSUME NEW s0, NEW s, NEW R, NEW W, At(s0, s, R, W), NEW t, SameTable(s, t)
  PROVE  At(s0, t, R, W)
BY DEF At, SameTable

\* A call that starts has looked up and written nothing.
LEMMA StartAt == ASSUME NEW s, Start(s) PROVE At(s, s, {}, {})
<1>1. <<>> \in Seq({Command("DEL", k) : k \in {}})
  OBVIOUS
<1>2. Reaps(<<>>, {k \in {} : expired(s, k)})
  BY <1>1 DEF Reaps
<1>3. QED BY <1>2 DEF Start, At

\* A sequence over a set is one over any larger set.
LEMMA SeqMono ==
  ASSUME NEW A, NEW B, A \subseteq B, NEW x \in Seq(A)
  PROVE  x \in Seq(B)
<1>1. x = [i \in 1 .. Len(x) |-> x[i]] /\ Len(x) \in Nat /\ \A i \in 1 .. Len(x) : x[i] \in B
  OBVIOUS
<1>2. QED BY <1>1

\* One more deletion on a log of deletions.
LEMMA ReapsMore ==
  ASSUME NEW log, NEW D, Reaps(log, D), NEW k
  PROVE  Reaps(Append(log, Command("DEL", k)), D \cup {k})
<1> DEFINE C(S) == {Command("DEL", j) : j \in S}
           e == Command("DEL", k)
<1>1. C(D) \subseteq C(D \cup {k}) /\ e \in C(D \cup {k})
  BY Zenon
<1>2. log \in Seq(C(D \cup {k}))
  <2>1. log \in Seq(C(D))
    BY DEF Reaps
  <2>2. QED BY <1>1, <2>1, SeqMono, Zenon
<1>3. ASSUME NEW j \in D \cup {k} PROVE \E i \in DOMAIN Append(log, e) : Append(log, e)[i] = Command("DEL", j)
  <2> HIDE DEF C, e
  <2>1. Len(log) \in Nat /\ DOMAIN log = 1 .. Len(log) /\ DOMAIN Append(log, e) = 1 .. Len(log) + 1
        /\ Append(log, e)[Len(log) + 1] = e /\ \A i \in DOMAIN log : Append(log, e)[i] = log[i]
    BY <1>1, <1>2
  <2>2. CASE j = k
    BY <2>1, <2>2 DEF e
  <2>3. CASE j \in D
    <3>1. PICK i \in DOMAIN log : log[i] = Command("DEL", j)
      BY <2>3 DEF Reaps
    <3>2. QED BY <2>1, <3>1
  <2>4. QED BY <1>3, <2>2, <2>3
<1>4. Append(log, e) \in Seq(C(D \cup {k}))
  <2> HIDE DEF C, e
  <2>1. QED BY <1>1, <1>2
<1>5. QED BY <1>3, <1>4 DEF Reaps

\* What a lookup finds: the object of a live key, and nothing for an expired one.
LEMMA FoundFacts ==
  ASSUME NEW s, NEW k, NEW t, t.mode = s.mode, t.clock = s.clock
  PROVE  /\ Found(s, k) # Nil => Found(s, k) = s.obj[k] /\ ~expired(s, k)
         /\ t.obj[k] = s.obj[k] => Found(t, k) = Found(s, k) /\ (expired(t, k) <=> expired(s, k))
         /\ t.obj[k] = Found(s, k) => Found(t, k) = Found(s, k) /\ ~expired(t, k)
         /\ ~expired(s, k) => Found(s, k) = s.obj[k]
         /\ expired(s, k) => Found(s, k) = Nil
BY NilFacts DEF Found, expired, Now, Due

\* expireKey removes its key, signals it and logs its deletion.
LEMMA ReapFacts ==
  ASSUME NEW s, Table0(s), NEW k \in Keys
  PROVE  LET t == expireKey(s, k) IN
         /\ IsCall(t) /\ t.mode = s.mode /\ t.clock = s.clock /\ SameFields(s, t)
         /\ t.log = Append(s.log, Command("DEL", k)) /\ t.sig = s.sig \cup {k}
         /\ t.obj[k] = Nil /\ \A j \in Keys \ {k} : t.obj[j] = s.obj[j]
         /\ Whole(t.obj) /\ t.ttl = Indexed(t.obj) /\ t.mem \in Int
<1> DEFINE r == removeLocked(s, k)
           q == [r EXCEPT !.log = Append(@, Command("DEL", k))]
<1>1. PICK w : w = touched(r, k)
  OBVIOUS
<1>2. Wrote(s, w, k, Nil)
  BY <1>1, RemoveWrites
<1>3. Table0(w) /\ w.obj[k] = Nil /\ \A j \in Keys \ {k} : w.obj[j] = s.obj[j]
  BY <1>2, WroteTable, WroteObj, NilFacts DEF Table0
<1>4. DOMAIN r = DOMAIN w
  BY <1>1 DEF touched
<1>5. IsCall(r)
  BY <1>3, <1>4 DEF Table0, IsCall
<1>6. SameFields(r, w) /\ w.obj = r.obj /\ w.ttl = r.ttl /\ w.mem = r.mem /\ w.mode = r.mode
      /\ w.clock = r.clock /\ w.log = r.log
  BY <1>1, <1>5, TouchedFacts
<1>7. r.sig \cup {k} = w.sig
  BY <1>1, <1>5, TouchedFacts
<1>8. /\ IsCall(q) /\ SameFields(r, q) /\ q.obj = r.obj /\ q.ttl = r.ttl /\ q.mem = r.mem
      /\ q.mode = r.mode /\ q.clock = r.clock /\ q.sig = r.sig
      /\ q.log = Append(r.log, Command("DEL", k))
  BY <1>5 DEF IsCall, SameFields
<1>9. PICK t : t = expireKey(s, k) /\ t = touched(q, k)
  BY DEF expireKey
<1> HIDE DEF q, r
<1>10. /\ IsCall(t) /\ SameFields(q, t) /\ t.mem = q.mem /\ t.obj = q.obj /\ t.ttl = q.ttl
       /\ t.mode = q.mode /\ t.clock = q.clock /\ t.log = q.log /\ t.sig = q.sig \cup {k}
  BY <1>8, <1>9, TouchedFacts
<1>11. t.obj = w.obj /\ t.ttl = w.ttl /\ t.mem = w.mem /\ SameFields(s, t)
  BY <1>2, <1>6, <1>8, <1>10 DEF SameFields, Wrote
<1>12. t.mode = s.mode /\ t.clock = s.clock /\ t.log = Append(s.log, Command("DEL", k))
  BY <1>2, <1>6, <1>8, <1>10 DEF Wrote
<1>13. t.sig = s.sig \cup {k}
  BY <1>2, <1>7, <1>8, <1>10 DEF Wrote
<1>14. QED BY <1>3, <1>9, <1>10, <1>11, <1>12, <1>13 DEF Table0

-----------------------------------------------------------------------------
(* Lookups, and the writes of one key that follow them.                    *)

\* A lookup is one more key in R: an expired one is reaped, and any other is left as it is.
LEMMA LookupAt ==
  ASSUME NEW s0, Start(s0), NEW s, NEW R, NEW W, At(s0, s, R, W), NEW k \in Keys \ W,
         NEW Q, Q = R \cup {k}
  PROVE  LET t == lookup(s, k) IN
         /\ At(s0, t, Q, W) /\ SameFields(s, t)
         /\ Found(t, k) = Found(s0, k) /\ t.obj[k] = Found(s0, k)
         /\ \A j \in Keys \ {k} : t.obj[j] = s.obj[j]
<1>0. s.mode = s0.mode /\ s.clock = s0.clock /\ s0.mode \in {"leader", "loading"} /\ Table0(s)
  BY DEF At, Start, Table0
<1>00. lookup(s, k) = Reaped(s, k)
  BY <1>0, StillFacts DEF Start
<1>1. s.obj[k] = IF k \in R THEN Found(s0, k) ELSE s0.obj[k]
  BY DEF At
<1>2. CASE expired(s, k) /\ s.mode = "leader"
  <2>1. k \notin R /\ s.obj[k] = s0.obj[k] /\ expired(s0, k)
    BY <1>0, <1>1, <1>2, FoundFacts
  <2>2. PICK t : t = lookup(s, k) /\ t = expireKey(s, k)
    BY <1>00, <1>2 DEF Reaped
  <2>3. /\ IsCall(t) /\ t.mode = s.mode /\ t.clock = s.clock /\ SameFields(s, t)
        /\ t.log = Append(s.log, Command("DEL", k)) /\ t.sig = s.sig \cup {k}
        /\ t.obj[k] = Nil /\ \A j \in Keys \ {k} : t.obj[j] = s.obj[j]
        /\ Whole(t.obj) /\ t.ttl = Indexed(t.obj) /\ t.mem \in Int
    BY <1>0, <2>2, ReapFacts
  <2>4. Found(s0, k) = Nil /\ Found(t, k) = Nil
    BY <2>1, <2>3, NilFacts, FoundFacts DEF Found
  <2>5. {j \in Q : expired(s0, j)} = {j \in R : expired(s0, j)} \cup {k}
    BY <2>1
  <2>6. Reaps(t.log, {j \in Q : expired(s0, j)})
    BY <2>3, <2>5, ReapsMore DEF At
  <2>7. At(s0, t, Q, W)
    <3>1. \A j \in Keys \ W : t.obj[j] = IF j \in Q THEN Found(s0, j) ELSE s0.obj[j]
      BY <2>3, <2>4 DEF At
    <3>2. W \subseteq t.sig /\ \A j \in Q : expired(s0, j) => j \in t.sig
      BY <2>3 DEF At
    <3>3. QED BY <1>0, <2>3, <2>6, <3>1, <3>2 DEF At
  <2>8. QED BY <2>2, <2>3, <2>4, <2>7
<1>3. CASE ~(expired(s, k) /\ s.mode = "leader")
  <2>1. lookup(s, k) = s /\ ~expired(s, k)
    BY <1>0, <1>00, <1>3 DEF Reaped, expired
  <2>2. Found(s, k) = s.obj[k] /\ s.obj[k] = Found(s0, k) /\ (k \notin R => ~expired(s0, k))
    BY <1>0, <1>1, <2>1, FoundFacts
  <2>3. {j \in Q : expired(s0, j)} = {j \in R : expired(s0, j)}
    BY <2>2
  <2>4. At(s0, s, Q, W)
    BY <2>2, <2>3 DEF At
  <2>5. QED BY <2>1, <2>2, <2>4 DEF SameFields
<1>4. QED BY <1>2, <1>3

\* One write without its signal leaves a table.
LEMMA StoredTable ==
  ASSUME NEW s, Table0(s), NEW k \in Keys, NEW o, GoodObj(o), NEW t, Stored(s, t, k, o)
  PROVE  Table0(t) /\ t.obj[k] = o
<1>1. Wrote(s, touched(t, k), k, o)
  BY TouchStored
<1>2. Table0(touched(t, k)) /\ touched(t, k).obj[k] = o
  BY <1>1, WroteTable, WroteObj DEF Table0
<1>3. QED BY <1>2, TouchedFacts DEF Table0, Stored

\* Replace leaves its key with the new collection and no instant, or removed when that is empty.
LEMMA ReplaceWrites ==
  ASSUME NEW s, Table0(s), NEW k \in Keys, ~expired(s, k), NEW t \in Collections, NEW v, Fits(t, v),
         NEW r, lookup(r, k) = s
  PROVE  Wrote(s, Replace(r, k, t, v), k, Put(Nil, t, v)) /\ GoodObj(Put(Nil, t, v))
<1> DEFINE m == IF Found(s, k) # Nil THEN removeLocked(s, k) ELSE s
<1>1. Found(s, k) = s.obj[k] /\ GoodObj(s.obj[k])
  BY DEF Found, Table0, Whole
<1>2. Stored(s, m, k, Nil)
  <2>1. CASE Found(s, k) = Nil
    BY <1>1, <2>1, StoredSelf
  <2>2. CASE Found(s, k) # Nil
    BY <1>1, <2>2, SizeType, RemoveFields DEF Table0
  <2>3. QED BY <2>1, <2>2
<1>3. GoodObj(Put(Nil, t, v))
  BY NilFacts, PutGood
<1>4. Replace(r, k, t, v) = IF DOMAIN v = {} THEN touched(m, k)
                            ELSE finishWrite([newCollection(m, k, t) EXCEPT !.obj[k].val = v], k)
  BY DEF Replace
<1> HIDE DEF m
<1>5. Table0(m) /\ m.obj[k] = Nil
  BY <1>2, NilFacts, StoredTable
<1>6. CASE DOMAIN v = {}
  BY <1>2, <1>3, <1>4, <1>6, TouchStored DEF Put
<1>7. CASE DOMAIN v # {}
  <2> DEFINE n == newCollection(m, k, t)
             E == Object(t, 0, <<>>)
  <2>1. Stored(s, n, k, E)
    BY <1>2, <1>5, NewStored, StoredTwice
  <2>2. E.type = t /\ E.at = 0 /\ E.val = <<>> /\ E = Object(E.type, E.at, E.val)
    BY ObjectFacts
  <2>3. PICK f : f = Replace(r, k, t, v) /\ f = finishWrite([n EXCEPT !.obj[k].val = v], k)
    BY <1>4, <1>7
  <2> HIDE DEF n, E
  <2>4. Stored(s, [n EXCEPT !.obj[k].val = v], k, Object(t, 0, v))
    BY <2>1, <2>2, ValStored DEF Table0
  <2>7. Wrote(s, f, k, IF DOMAIN v = {} THEN Nil ELSE Object(t, 0, v))
    BY <2>3, <2>4, FinishWrites DEF Table0
  <2>8. QED BY <1>3, <1>7, <2>3, <2>7, NilFacts DEF Put
<1>8. QED BY <1>6, <1>7

\* A call underway works on a table.
LEMMA AtTable == ASSUME NEW s0, NEW s, NEW R, NEW W, At(s0, s, R, W) PROVE Table0(s)
BY DEF At, Table0

\* Change is one more key in W.
LEMMA ChangeAt ==
  ASSUME NEW s0, NEW s, NEW R, NEW W, At(s0, s, R, W), NEW k \in Keys, ~expired(s, k),
         NEW t \in Collections, s.obj[k] = Nil \/ s.obj[k].type = t, NEW v, Fits(t, v),
         NEW V, V = W \cup {k}, NEW r, r = Change(s, k, t, v)
  PROVE  /\ At(s0, r, R, V) /\ SameFields(s, r) /\ r.obj[k] = Put(s.obj[k], t, v)
         /\ \A j \in Keys \ {k} : r.obj[j] = s.obj[j]
<1>1. Table0(s)
  BY AtTable
<1>2. Wrote(s, r, k, Put(s.obj[k], t, v)) /\ GoodObj(Put(s.obj[k], t, v))
  BY <1>1, ChangeWrites
<1>3. QED BY <1>2, WroteAt

\* Replace is one more key in R and in W.
LEMMA ReplacedAt ==
  ASSUME NEW s0, Start(s0), NEW s, NEW R, NEW W, At(s0, s, R, W), NEW k \in Keys, k \notin W,
         NEW t \in Collections, NEW v, Fits(t, v), NEW V, V = W \cup {k}, NEW Q, Q = R \cup {k},
         NEW r, r = Replace(s, k, t, v)
  PROVE  /\ At(s0, r, Q, V) /\ SameFields(s, r) /\ r.obj[k] = Put(Nil, t, v)
         /\ \A j \in Keys \ {k} : r.obj[j] = s.obj[j]
<1>1. PICK u : u = lookup(s, k)
  OBVIOUS
<1>2. At(s0, u, Q, W) /\ SameFields(s, u)
  BY <1>1, LookupAt
<1>3. Found(u, k) = Found(s0, k) /\ u.obj[k] = Found(s0, k)
  BY <1>1, LookupAt
<1>4. \A j \in Keys \ {k} : u.obj[j] = s.obj[j]
  BY <1>1, LookupAt
<1>5. Table0(u) /\ ~expired(u, k)
  <2>1. u.mode = s0.mode /\ u.clock = s0.clock
    BY <1>2 DEF At
  <2>2. QED BY <1>2, <1>3, <2>1, AtTable, FoundFacts
<1>6. Wrote(u, r, k, Put(Nil, t, v)) /\ GoodObj(Put(Nil, t, v))
  BY <1>1, <1>5, ReplaceWrites
<1>7. At(s0, r, Q, V) /\ SameFields(u, r) /\ r.obj[k] = Put(Nil, t, v)
  BY <1>2, <1>6, WroteAt
<1>8. \A j \in Keys \ {k} : r.obj[j] = u.obj[j]
  BY <1>2, <1>6, WroteAt
<1>9. SameFields(s, r)
  BY <1>2, <1>7 DEF SameFields
<1>10. \A j \in Keys \ {k} : r.obj[j] = s.obj[j]
  BY <1>4, <1>8
<1>11. QED BY <1>7, <1>9, <1>10

\* What a lookup begins.
LEMMA LookedUp ==
  ASSUME NEW s, Start(s), NEW k \in Keys
  PROVE  LET u == lookup(s, k) IN
         /\ At(s, u, {k}, {}) /\ Quiet(u) /\ Found(u, k) = Found(s, k)
         /\ u.obj[k] = Found(s, k) /\ ~expired(u, k) /\ Table0(u) /\ GoodObj(Found(s, k))
         /\ \A j \in Keys \ {k} : u.obj[j] = s.obj[j]
         /\ u.clock = s.clock /\ u.mode = s.mode
<1>1. At(s, s, {}, {}) /\ {} \cup {k} = {k} /\ k \in Keys \ {}
  BY StartAt
<1>2. PICK u : u = lookup(s, k)
  OBVIOUS
<1>3. /\ At(s, u, {k}, {}) /\ SameFields(s, u) /\ Found(u, k) = Found(s, k)
      /\ u.obj[k] = Found(s, k) /\ \A j \in Keys \ {k} : u.obj[j] = s.obj[j]
  BY <1>1, <1>2, LookupAt
<1>4. Quiet(u)
  BY <1>3 DEF SameFields, Start, Quiet
<1>5. u.mode = s.mode /\ u.clock = s.clock
  BY <1>3 DEF At
<1>6. Table0(u) /\ ~expired(u, k)
  BY <1>3, <1>5, AtTable, FoundFacts
<1>7. GoodObj(Found(s, k))
  BY <1>3, <1>6 DEF Table0, Whole
<1>8. QED BY <1>2, <1>3, <1>4, <1>5, <1>6, <1>7

\* A handler that looks its key up, writes it and answers.
LEMMA WrotePuts ==
  ASSUME NEW s, Start(s), NEW k \in Keys, NEW o, GoodObj(o), NEW w, Wrote(lookup(s, k), w, k, o),
         NEW r, NEW t, t = Return(w, r)
  PROVE  Puts(s, t, k, o) /\ Quiet(t) /\ t.res = r /\ IsCall(t)
<1>1. PICK u : u = lookup(s, k)
  OBVIOUS
<1>2. At(s, u, {k}, {}) /\ Quiet(u)
  BY <1>1, LookedUp
<1>3. At(s, w, {k}, {k}) /\ SameFields(u, w) /\ w.obj[k] = o /\ IsCall(w)
  <2>1. Wrote(u, w, k, o)
    BY <1>1
  <2>2. IsCall(w)
    BY <2>1 DEF Wrote
  <2>3. {k} = {} \cup {k}
    OBVIOUS
  <2>4. QED BY <1>2, <2>1, <2>2, <2>3, WroteAt
<1>4. SameTable(w, t) /\ t.eff = w.eff /\ t.dirty = w.dirty /\ t.err = w.err /\ t.res = r
  BY <1>3, ReturnFacts
<1>6. At(s, t, {k}, {k})
  BY <1>3, <1>4, SameAt
<1>7. t.obj[k] = o /\ Quiet(t) /\ IsCall(t)
  BY <1>2, <1>3, <1>4 DEF SameTable, SameFields, Quiet
<1>8. QED BY <1>4, <1>6, <1>7 DEF Puts

\* A handler that looks its key up and answers.
LEMMA LookupLooks ==
  ASSUME NEW s, Start(s), NEW k \in Keys, NEW r, NEW t, t = Return(lookup(s, k), r)
  PROVE  Looks(s, t, k) /\ Quiet(t) /\ t.res = r /\ IsCall(t)
<1>1. PICK u : u = lookup(s, k)
  OBVIOUS
<1>2. At(s, u, {k}, {}) /\ Quiet(u) /\ IsCall(u)
  BY <1>1, LookedUp DEF Table0
<1>4. SameTable(u, t) /\ t.eff = u.eff /\ t.dirty = u.dirty /\ t.err = u.err /\ t.res = r
  BY <1>1, <1>2, ReturnFacts
<1>6. At(s, t, {k}, {})
  BY <1>2, <1>4, SameAt
<1>8. QED BY <1>2, <1>4, <1>6 DEF Looks, Quiet, SameTable

\* A collection changed after a lookup.
LEMMA ChangePuts ==
  ASSUME NEW s, Start(s), NEW k \in Keys, NEW ty \in Collections, NEW v, Fits(ty, v),
         Found(s, k) = Nil \/ Found(s, k).type = ty,
         NEW r, NEW t, t = Return(Change(lookup(s, k), k, ty, v), r)
  PROVE  Puts(s, t, k, Put(Found(s, k), ty, v)) /\ Quiet(t) /\ t.res = r /\ IsCall(t)
<1>1. PICK u, w, p : u = lookup(s, k) /\ w = Change(u, k, ty, v) /\ p = Put(Found(s, k), ty, v)
  OBVIOUS
<1>2. Table0(u) /\ ~expired(u, k) /\ u.obj[k] = Found(s, k)
  BY <1>1, LookedUp
<1>3. Wrote(u, w, k, p) /\ GoodObj(p)
  BY <1>1, <1>2, ChangeWrites
<1>4. Wrote(lookup(s, k), w, k, p) /\ t = Return(w, r)
  BY <1>1, <1>3
<1>5. Puts(s, t, k, p) /\ Quiet(t) /\ t.res = r /\ IsCall(t)
  BY <1>3, <1>4, WrotePuts
<1>6. QED BY <1>1, <1>5

\* An object stored after a lookup, and one removed.
LEMMA StorePuts ==
  ASSUME NEW s, Start(s), NEW k \in Keys, NEW o, GoodObj(o),
         NEW r, NEW t, t = Return(touched(store(lookup(s, k), k, o), k), r)
  PROVE  Puts(s, t, k, o) /\ Quiet(t) /\ t.res = r /\ IsCall(t)
<1>1. PICK u, w : u = lookup(s, k) /\ w = touched(store(u, k, o), k)
  OBVIOUS
<1>2. Wrote(u, w, k, o)
  BY <1>1, LookedUp, StoreWrites
<1>3. QED BY <1>1, <1>2, WrotePuts

\* A handler that looks its key up, removes it and answers.
LEMMA RemovePuts ==
  ASSUME NEW s, Start(s), NEW k \in Keys,
         NEW r, NEW t, t = Return(touched(removeLocked(lookup(s, k), k), k), r)
  PROVE  Puts(s, t, k, Nil) /\ Quiet(t) /\ t.res = r /\ IsCall(t)
<1>1. PICK u, w : u = lookup(s, k) /\ w = touched(removeLocked(u, k), k)
  OBVIOUS
<1>2. Wrote(u, w, k, Nil)
  BY <1>1, LookedUp, RemoveWrites
<1>3. QED BY <1>1, <1>2, WrotePuts, NilFacts

\* A new instant for an object that is there.
Until(o, at) == Object(o.type, at, o.val)

\* A handler that looks its key up, changes its instant and answers.
LEMMA ExpirePuts ==
  ASSUME NEW s, Start(s), NEW k \in Keys, Found(s, k) # Nil, NEW at \in 0 .. MaxNow + 1,
         NEW r, NEW t, t = Return(touched(setExpireLocked(lookup(s, k), k, at), k), r)
  PROVE  Puts(s, t, k, Until(Found(s, k), at)) /\ Quiet(t) /\ t.res = r /\ IsCall(t)
<1>1. PICK u, w, p : /\ u = lookup(s, k) /\ w = touched(setExpireLocked(u, k, at), k)
                     /\ p = Until(Found(s, k), at)
  OBVIOUS
<1>2. Table0(u) /\ u.obj[k] = Found(s, k)
  BY <1>1, LookedUp
<1>3. Wrote(u, w, k, p) /\ GoodObj(p)
  BY <1>1, <1>2, ExpireWrites DEF Until
<1>4. Wrote(lookup(s, k), w, k, p) /\ t = Return(w, r)
  BY <1>1, <1>3
<1>5. Puts(s, t, k, p) /\ Quiet(t) /\ t.res = r /\ IsCall(t)
  BY <1>3, <1>4, WrotePuts
<1>6. QED BY <1>1, <1>5

\* What was looked up once is found again.
LEMMA FoundAgain ==
  ASSUME NEW s, Start(s), NEW k \in Keys
  PROVE  Found(lookup(s, k), k) = Found(s, k) /\ GoodObj(Found(s, k)) /\ lookup(s, k).clock = s.clock
         /\ lookup(s, k).mode = s.mode
BY LookedUp

\* The two answers of most methods: nothing was done, or the key was written.
No(s, t, k) == Looks(s, t, k) /\ Quiet(t) /\ t.res = FALSE /\ IsCall(t)
Yes(s, t, k, new) == Puts(s, t, k, new) /\ Quiet(t) /\ t.res = TRUE /\ IsCall(t)

\* A handler that refuses what it found.
LEMMA LookupNo ==
  ASSUME NEW s, Start(s), NEW k \in Keys, NEW t, t = Return(lookup(s, k), FALSE)
  PROVE  No(s, t, k)
<1>1. PICK r : r = FALSE /\ t = Return(lookup(s, k), r)
  OBVIOUS
<1>2. Looks(s, t, k) /\ Quiet(t) /\ t.res = r /\ IsCall(t)
  BY <1>1, LookupLooks
<1>3. QED BY <1>1, <1>2 DEF No

\* A handler that accepts what it found and changes nothing.
LEMMA LookupYes ==
  ASSUME NEW s, Start(s), NEW k \in Keys, NEW t, t = Return(lookup(s, k), TRUE)
  PROVE  Looks(s, t, k) /\ Quiet(t) /\ t.res = TRUE /\ IsCall(t)
<1>1. PICK r : r = TRUE /\ t = Return(lookup(s, k), r)
  OBVIOUS
<1>2. Looks(s, t, k) /\ Quiet(t) /\ t.res = r /\ IsCall(t)
  BY <1>1, LookupLooks
<1>3. QED BY <1>1, <1>2

\* A handler that writes what it found anew.
LEMMA WroteYes ==
  ASSUME NEW s, Start(s), NEW k \in Keys, NEW o, GoodObj(o), NEW w, Wrote(lookup(s, k), w, k, o),
         NEW t, t = Return(w, TRUE)
  PROVE  Yes(s, t, k, o)
<1>1. PICK u : u = lookup(s, k)
  OBVIOUS
<1>2. At(s, u, {k}, {}) /\ Quiet(u)
  BY <1>1, LookedUp
<1>3. At(s, w, {k}, {k}) /\ SameFields(u, w) /\ w.obj[k] = o /\ IsCall(w)
  <2>1. Wrote(u, w, k, o)
    BY <1>1
  <2>2. IsCall(w)
    BY <2>1 DEF Wrote
  <2>3. {k} = {} \cup {k}
    OBVIOUS
  <2>4. QED BY <1>2, <2>1, <2>2, <2>3, WroteAt
<1>4. SameTable(w, t) /\ t.eff = w.eff /\ t.dirty = w.dirty /\ t.err = w.err /\ t.res = TRUE
  BY <1>3 DEF Return, SameTable, IsCall
<1>6. At(s, t, {k}, {k})
  BY <1>3, <1>4, SameAt
<1>7. t.obj[k] = o /\ Quiet(t) /\ IsCall(t)
  BY <1>2, <1>3, <1>4 DEF SameTable, SameFields, Quiet
<1>8. QED BY <1>4, <1>6, <1>7 DEF Puts, Yes

\* A handler that changes a collection.
LEMMA ChangeYes ==
  ASSUME NEW s, Start(s), NEW k \in Keys, NEW ty \in Collections, NEW v, Fits(ty, v),
         Found(s, k) = Nil \/ Found(s, k).type = ty,
         NEW t, t = Return(Change(lookup(s, k), k, ty, v), TRUE)
  PROVE  Yes(s, t, k, Put(Found(s, k), ty, v))
<1>1. PICK u, w, p : u = lookup(s, k) /\ w = Change(u, k, ty, v) /\ p = Put(Found(s, k), ty, v)
  OBVIOUS
<1>2. Table0(u) /\ ~expired(u, k) /\ u.obj[k] = Found(s, k)
  BY <1>1, LookedUp
<1>3. Wrote(u, w, k, p) /\ GoodObj(p)
  BY <1>1, <1>2, ChangeWrites
<1>4. Wrote(lookup(s, k), w, k, p) /\ t = Return(w, TRUE)
  BY <1>1, <1>3
<1>5. Yes(s, t, k, p)
  BY <1>3, <1>4, WroteYes
<1>6. QED BY <1>1, <1>5

\* A handler that stores an object.
LEMMA StoreYes ==
  ASSUME NEW s, Start(s), NEW k \in Keys, NEW o, GoodObj(o),
         NEW t, t = Return(touched(store(lookup(s, k), k, o), k), TRUE)
  PROVE  Yes(s, t, k, o)
<1>1. PICK u, w : u = lookup(s, k) /\ w = touched(store(u, k, o), k)
  OBVIOUS
<1>2. Wrote(u, w, k, o)
  BY <1>1, LookedUp, StoreWrites
<1>3. QED BY <1>1, <1>2, WroteYes

\* A handler that removes the key.
LEMMA RemoveYes ==
  ASSUME NEW s, Start(s), NEW k \in Keys,
         NEW t, t = Return(touched(removeLocked(lookup(s, k), k), k), TRUE)
  PROVE  Yes(s, t, k, Nil)
<1>1. PICK u, w : u = lookup(s, k) /\ w = touched(removeLocked(u, k), k)
  OBVIOUS
<1>2. Wrote(u, w, k, Nil)
  BY <1>1, LookedUp, RemoveWrites
<1>3. QED BY <1>1, <1>2, WroteYes, NilFacts

\* A handler that changes the instant of the key.
LEMMA ExpireYes ==
  ASSUME NEW s, Start(s), NEW k \in Keys, Found(s, k) # Nil, NEW at \in 0 .. MaxNow + 1,
         NEW t, t = Return(touched(setExpireLocked(lookup(s, k), k, at), k), TRUE)
  PROVE  Yes(s, t, k, Until(Found(s, k), at))
<1>1. PICK u, w, p : /\ u = lookup(s, k) /\ w = touched(setExpireLocked(u, k, at), k)
                     /\ p = Until(Found(s, k), at)
  OBVIOUS
<1>2. Table0(u) /\ u.obj[k] = Found(s, k)
  BY <1>1, LookedUp
<1>3. Wrote(u, w, k, p) /\ GoodObj(p)
  BY <1>1, <1>2, ExpireWrites DEF Until
<1>4. Wrote(lookup(s, k), w, k, p) /\ t = Return(w, TRUE)
  BY <1>1, <1>3
<1>5. Yes(s, t, k, p)
  BY <1>3, <1>4, WroteYes
<1>6. QED BY <1>1, <1>5

\* What a finished call adds to the log beside the keys it reaped.
Logged(t, c) ==
  CASE t.eff # <<>> -> t.eff
    [] t.eff = <<>> /\ t.dirty /\ c.name \notin Canonical -> <<c>>
    [] OTHER -> <<>>

\* The table of s with the expired keys among R gone, and a keyspace loading it.
Base(s, R) == [j \in Keys |-> IF j \in R THEN Found(s, j) ELSE s.obj[j]]
Loads(s1, s, R) == Start(s1) /\ s1.mode = "loading" /\ s1.obj = Base(s, R)

\* The effect e executed by any keyspace that loads Base(s, R) makes the table of t.
Redoes(e, s, t, R) ==
  \A s1 : Loads(s1, s, R) => Table0(Handler(s1, e)) /\ Handler(s1, e).obj = t.obj

\* What a command logs, loaded after the deletions of the keys it reaped, makes its table again.
Faithful(c, s) ==
  \E R, W : /\ R \subseteq Keys /\ At(s, Handler(s, c), R, W)
            /\ \/ W = {} /\ Logged(Handler(s, c), c) = <<>>
               \/ \E e : Logged(Handler(s, c), c) = <<e>> /\ Redoes(e, s, Handler(s, c), R)

Leads(s, n) == Start(s) /\ s.mode = "leader" /\ s.clock = n
Alike(s1, s2) == \A k \in Keys : Found(s1, k) = Found(s2, k)

\* A command is safe: it is faithful, and does not tell an expired key from an absent one.
Safe(c) ==
  /\ \A n \in Stills : \A s : Leads(s, n) => Faithful(c, s)
  /\ \A n \in Stills : \A s1, s2 : Leads(s1, n) /\ Leads(s2, n) /\ Alike(s1, s2)
                                      => Alike(Handler(s1, c), Handler(s2, c))

\* c leaves a keyspace in which k is o alone; or it makes it new, and is logged as e.
Idle(c, k, o, n) ==
  \A s : Leads(s, n) /\ Found(s, k) = o
           => Looks(s, Handler(s, c), k) /\ Logged(Handler(s, c), c) = <<>>
Does(c, k, o, n, e, new) ==
  /\ \A s : Leads(s, n) /\ Found(s, k) = o
              => Puts(s, Handler(s, c), k, new) /\ Logged(Handler(s, c), c) = <<e>>
  /\ \A s : Start(s) /\ s.mode = "loading" /\ Found(s, k) = o
              => Puts(s, Handler(s, e), k, new)

\* c leaves the keyspace alone, and is logged as e, which does so too.
Notes(c, k, o, n, e) ==
  /\ \A s : Leads(s, n) /\ Found(s, k) = o
              => Looks(s, Handler(s, c), k) /\ Logged(Handler(s, c), c) = <<e>>
  /\ \A s : Start(s) /\ s.mode = "loading" /\ Found(s, k) = o
              => Looks(s, Handler(s, e), k)

\* Two calls that looked up, and wrote, the same keys alike.
LEMMA AtAlike ==
  ASSUME NEW s1, NEW s2, Alike(s1, s2), s1.mode = s2.mode, s1.clock = s2.clock,
         NEW t1, NEW t2, NEW R, NEW W, At(s1, t1, R, W), At(s2, t2, R, W),
         \A j \in W : t1.obj[j] = t2.obj[j]
  PROVE  Alike(t1, t2)
<1> SUFFICES ASSUME NEW j \in Keys PROVE Found(t1, j) = Found(t2, j)
  BY DEF Alike
<1>1. t1.mode = s1.mode /\ t1.clock = s1.clock /\ t2.mode = s2.mode /\ t2.clock = s2.clock
  BY DEF At
<1>2. CASE j \in W
  BY <1>1, <1>2 DEF Found, expired, Now
<1>3. CASE j \notin W /\ j \in R
  <2>1. t1.obj[j] = Found(s1, j) /\ t2.obj[j] = Found(s2, j)
    BY <1>3 DEF At
  <2>2. QED BY <1>1, <2>1, FoundFacts DEF Alike
<1>4. CASE j \notin W /\ j \notin R
  <2>1. t1.obj[j] = s1.obj[j] /\ t2.obj[j] = s2.obj[j]
    BY <1>4 DEF At
  <2>2. QED BY <1>1, <2>1, FoundFacts DEF Alike
<1>5. QED BY <1>2, <1>3, <1>4

\* A keyspace that loads a table has no expired keys.
LEMMA LoadsFacts ==
  ASSUME NEW s1, NEW s, NEW R, Loads(s1, s, R), NEW k \in Keys
  PROVE  Found(s1, k) = IF k \in R THEN Found(s, k) ELSE s.obj[k]
BY DEF Loads, Base, Found, expired, Now

\* The objects of a call underway are a function on the keys.
LEMMA AtObj == ASSUME NEW s0, NEW s, NEW R, NEW W, At(s0, s, R, W)
               PROVE  s.obj = [j \in Keys |-> s.obj[j]]
BY DEF At, Whole

\* A write redone makes the same table.
LEMMA AtRedoes ==
  ASSUME NEW s, NEW t, NEW R, NEW W, At(s, t, R, W), NEW s1, Loads(s1, s, R),
         NEW u, NEW R1, At(s1, u, R1, W), \A j \in W : u.obj[j] = t.obj[j]
  PROVE  Table0(u) /\ u.obj = t.obj
<1>1. Table0(u)
  BY AtTable
<1>2. ASSUME NEW j \in Keys PROVE u.obj[j] = t.obj[j]
  <2>1. CASE j \in W
    BY <2>1
  <2>2. CASE j \notin W
    <3>1. u.obj[j] = s1.obj[j]
      BY <2>2 DEF At, Loads, Found, expired, Now
    <3>2. s1.obj[j] = IF j \in R THEN Found(s, j) ELSE s.obj[j]
      BY DEF Loads, Base
    <3>3. QED BY <2>2, <3>1, <3>2 DEF At
  <2>3. QED BY <2>1, <2>2
<1>3. QED BY <1>1, <1>2, AtObj

\* The commands that look at one key.
OneKey(c, k) ==
  \A o, n : GoodObj(o) /\ n \in Stills
              => \/ Idle(c, k, o, n)
                 \/ \E e, new : Does(c, k, o, n, e, new)
                 \/ \E e : Notes(c, k, o, n, e)

-----------------------------------------------------------------------------
(* Commands on one key: from what they find to what they log.              *)

\* A command on one key is safe if what it finds there decides what it does, and its effect,
\* loaded, does that too.
LEMMA OneKeySafe == ASSUME NEW c, NEW k \in Keys, OneKey(c, k) PROVE Safe(c)
<1>1. ASSUME NEW n \in Stills, NEW s, Leads(s, n) PROVE Faithful(c, s)
  <2> DEFINE o == Found(s, k)
             t == Handler(s, c)
  <2>0. GoodObj(o) /\ {k} \subseteq Keys
    BY <1>1, FoundAgain DEF Leads
  <2>1. CASE Idle(c, k, o, n)
    <3>1. Looks(s, t, k) /\ Logged(t, c) = <<>>
      BY <1>1, <2>1 DEF Idle
    <3>2. QED BY <2>0, <3>1 DEF Faithful, Looks
  <2>2. ASSUME NEW e, NEW new, Does(c, k, o, n, e, new) PROVE Faithful(c, s)
    <3>1. Puts(s, t, k, new) /\ Logged(t, c) = <<e>>
      BY <1>1, <2>2 DEF Does
    <3>2. ASSUME NEW s1, Loads(s1, s, {k}) PROVE Table0(Handler(s1, e)) /\ Handler(s1, e).obj = t.obj
      <4>1. Found(s1, k) = o
        BY <3>2, LoadsFacts
      <4>2. Puts(s1, Handler(s1, e), k, new)
        BY <2>2, <3>2, <4>1 DEF Does, Loads
      <4> HIDE DEF t
      <4>3. PICK u : u = Handler(s1, e)
        OBVIOUS
      <4>4. At(s, t, {k}, {k}) /\ At(s1, u, {k}, {k}) /\ \A j \in {k} : u.obj[j] = t.obj[j]
        BY <3>1, <4>2, <4>3 DEF Puts
      <4>5. QED BY <3>2, <4>3, <4>4, AtRedoes
    <3>3. Redoes(e, s, t, {k})
      BY <3>2 DEF Redoes
    <3>4. At(s, t, {k}, {k})
      BY <3>1 DEF Puts
    <3>5. QED BY <2>0, <3>1, <3>3, <3>4 DEF Faithful
  <2>3. ASSUME NEW e, Notes(c, k, o, n, e) PROVE Faithful(c, s)
    <3>1. Looks(s, t, k) /\ Logged(t, c) = <<e>>
      BY <1>1, <2>3 DEF Notes
    <3>2. ASSUME NEW s1, Loads(s1, s, {k}) PROVE Table0(Handler(s1, e)) /\ Handler(s1, e).obj = t.obj
      <4>1. Found(s1, k) = o
        BY <3>2, LoadsFacts
      <4>2. Looks(s1, Handler(s1, e), k)
        BY <2>3, <3>2, <4>1 DEF Notes, Loads
      <4> HIDE DEF t
      <4>3. PICK u : u = Handler(s1, e)
        OBVIOUS
      <4>4. At(s, t, {k}, {}) /\ At(s1, u, {k}, {})
        BY <3>1, <4>2, <4>3 DEF Looks
      <4>5. QED BY <3>2, <4>3, <4>4, AtRedoes
    <3>3. Redoes(e, s, t, {k})
      BY <3>2 DEF Redoes
    <3>4. At(s, t, {k}, {})
      BY <3>1 DEF Looks
    <3>5. QED BY <2>0, <3>1, <3>3, <3>4 DEF Faithful
  <2>4. QED BY <2>0, <2>1, <2>2, <2>3 DEF OneKey
<1>2. ASSUME NEW n \in Stills, NEW s1, NEW s2, Leads(s1, n), Leads(s2, n), Alike(s1, s2)
      PROVE  Alike(Handler(s1, c), Handler(s2, c))
  <2> DEFINE o == Found(s1, k)
             t1 == Handler(s1, c)
             t2 == Handler(s2, c)
  <2>0. GoodObj(o) /\ Found(s2, k) = o /\ s1.mode = s2.mode /\ s1.clock = s2.clock
    BY <1>2, FoundAgain DEF Leads, Alike
  <2>1. CASE Idle(c, k, o, n)
    <3>1. At(s1, t1, {k}, {}) /\ At(s2, t2, {k}, {})
      BY <1>2, <2>0, <2>1 DEF Idle, Looks
    <3>2. QED BY <1>2, <2>0, <3>1, AtAlike
  <2>2. ASSUME NEW e, NEW new, Does(c, k, o, n, e, new) PROVE Alike(t1, t2)
    <3>1. Puts(s1, t1, k, new) /\ Puts(s2, t2, k, new)
      BY <1>2, <2>0, <2>2 DEF Does
    <3> HIDE DEF t1, t2
    <3>2. At(s1, t1, {k}, {k}) /\ At(s2, t2, {k}, {k}) /\ \A j \in {k} : t1.obj[j] = t2.obj[j]
      BY <3>1 DEF Puts
    <3>3. QED BY <1>2, <2>0, <3>2, AtAlike
  <2>3. ASSUME NEW e, Notes(c, k, o, n, e) PROVE Alike(t1, t2)
    <3>1. At(s1, t1, {k}, {}) /\ At(s2, t2, {k}, {})
      BY <1>2, <2>0, <2>3 DEF Notes, Looks
    <3>2. QED BY <1>2, <2>0, <3>1, AtAlike
  <2>4. QED BY <2>0, <2>1, <2>2, <2>3 DEF OneKey
<1>3. QED BY <1>1, <1>2 DEF Safe

\* An answer changes nothing of what was looked up or written.
LEMMA SamePuts ==
  ASSUME NEW s, NEW t, NEW u, NEW k, SameTable(t, u)
  PROVE  /\ Looks(s, t, k) => Looks(s, u, k)
         /\ \A new : Puts(s, t, k, new) => Puts(s, u, k, new)
BY SameAt DEF Looks, Puts, SameTable

\* A call that did nothing is not logged.
LEMMA ReportedNo ==
  ASSUME NEW s, NEW t, NEW k, No(s, t, k), NEW c, NEW u, u = Reported(t)
  PROVE  Looks(s, u, k) /\ Logged(u, c) = <<>>
BY DEF No, Reported, Logged, Quiet

\* A call that did something is logged as it was sent, unless it must name its own effect.
LEMMA ReportedYes ==
  ASSUME NEW s, NEW t, NEW k, NEW new, Yes(s, t, k, new), NEW c, c.name \notin Canonical,
         NEW u, u = Reported(t)
  PROVE  Puts(s, u, k, new) /\ Logged(u, c) = <<c>>
<1>1. u = Dirty(t)
  BY DEF Yes, Reported
<1>2. SameTable(t, u) /\ u.eff = t.eff /\ u.dirty = TRUE
  BY <1>1, DirtyFacts DEF Yes
<1>3. Puts(s, u, k, new)
  BY <1>2, SamePuts DEF Yes
<1>4. Logged(u, c) = <<c>>
  BY <1>2 DEF Logged, Yes, Quiet
<1>5. QED BY <1>3, <1>4

\* A call that names its effect is logged as that effect.
LEMMA PropagatedYes ==
  ASSUME NEW s, NEW t, NEW k, NEW new, Puts(s, t, k, new), Quiet(t), IsCall(t), NEW c, NEW e,
         NEW u, u = Propagate(t, e)
  PROVE  Puts(s, u, k, new) /\ Logged(u, c) = <<e>>
<1>2. SameTable(t, u) /\ u.eff = Append(t.eff, e)
  BY PropagateFacts
<1>3. Puts(s, u, k, new)
  BY <1>2, SamePuts
<1>4. Logged(u, c) = <<e>>
  BY <1>2 DEF Logged, Quiet
<1>5. QED BY <1>3, <1>4

\* A call that reports nothing is not logged.
LEMMA QuietLogged == ASSUME NEW t, Quiet(t), NEW c PROVE Logged(t, c) = <<>>
BY DEF Quiet, Logged

\* The commands that are logged as they are.
Verbatim(c, k) ==
  \A o : GoodObj(o) =>
    \/ \A s : Start(s) /\ Found(s, k) = o => \E t : No(s, t, k) /\ Handler(s, c) = Reported(t)
    \/ \E new : \A s : Start(s) /\ Found(s, k) = o
                         => \E t : Yes(s, t, k, new) /\ Handler(s, c) = Reported(t)

\* A command that is logged as it was sent is safe if what it finds decides what it does.
LEMMA VerbatimSafe ==
  ASSUME NEW c, NEW k \in Keys, c.name \notin Canonical, Verbatim(c, k)
  PROVE  Safe(c)
<1>1. ASSUME NEW o, NEW n \in Stills, GoodObj(o)
      PROVE  Idle(c, k, o, n) \/ \E e, new : Does(c, k, o, n, e, new)
  <2>1. CASE \A s : Start(s) /\ Found(s, k) = o => \E t : No(s, t, k) /\ Handler(s, c) = Reported(t)
    <3>1. Idle(c, k, o, n)
      BY <2>1, ReportedNo DEF Idle, Leads
    <3>2. QED BY <3>1
  <2>2. ASSUME NEW new,
               \A s : Start(s) /\ Found(s, k) = o
                        => \E t : Yes(s, t, k, new) /\ Handler(s, c) = Reported(t)
        PROVE  Does(c, k, o, n, c, new)
    BY <2>2, ReportedYes DEF Does, Leads
  <2>3. QED BY <1>1, <2>1, <2>2 DEF Verbatim
<1>2. QED BY <1>1, OneKeySafe DEF OneKey

-----------------------------------------------------------------------------
(* Sequences.                                                              *)

\* What Seq calls a sequence is one.
LEMMA SeqIs == ASSUME NEW S, NEW v \in Seq(S)
               PROVE  IsSeq(v) /\ Len(v) \in Nat /\ DOMAIN v = 1 .. Len(v)
<1>1. v = [i \in 1 .. Len(v) |-> v[i]] /\ Len(v) \in Nat
  OBVIOUS
<1>2. QED BY <1>1 DEF IsSeq

\* A sequence is one over some set.
LEMMA IsSeqIn == ASSUME NEW v, IsSeq(v) PROVE \E S : v \in Seq(S)
<1>1. PICK n \in Nat : v = [i \in 1 .. n |-> v[i]]
  BY DEF IsSeq
<1> DEFINE S == {v[i] : i \in 1 .. n}
<1>2. \A i \in 1 .. n : v[i] \in S
  OBVIOUS
<1> HIDE DEF S
<1>3. v \in Seq(S)
  BY <1>1, <1>2
<1>4. QED BY <1>3

\* Two sequences are over a common set.
LEMMA IsSeqIn2 == ASSUME NEW v, IsSeq(v), NEW w, IsSeq(w) PROVE \E S : v \in Seq(S) /\ w \in Seq(S)
<1>1. PICK A, B : v \in Seq(A) /\ w \in Seq(B)
  BY IsSeqIn
<1>2. v \in Seq(A \cup B) /\ w \in Seq(A \cup B)
  BY <1>1, SeqMono
<1>3. QED BY <1>2

\* The length and the domain of a sequence.
LEMMA IsSeqLen == ASSUME NEW v, IsSeq(v) PROVE Len(v) \in Nat /\ DOMAIN v = 1 .. Len(v)
BY IsSeqIn, SeqIs

\* The empty sequence.
LEMMA NilSeq == IsSeq(<<>>) /\ DOMAIN <<>> = {}
<1>1. <<>> \in Seq({}) /\ DOMAIN <<>> = {}
  OBVIOUS
<1>2. QED BY <1>1, SeqIs

\* A sequence of one.
LEMMA OneSeq == ASSUME NEW x PROVE IsSeq(<<x>>) /\ Len(<<x>>) = 1 /\ <<x>>[1] = x
<1>1. <<x>> \in Seq({x})
  OBVIOUS
<1>2. QED BY <1>1, SeqIs

\* The concatenation of sequences is one.
LEMMA ConcatSeq == ASSUME NEW v, IsSeq(v), NEW w, IsSeq(w) PROVE IsSeq(v \o w)
<1>1. PICK S : v \in Seq(S) /\ w \in Seq(S)
  BY IsSeqIn2
<1>2. v \o w \in Seq(S)
  BY <1>1
<1>3. QED BY <1>2, SeqIs

\* A function on the first numbers is a sequence.
LEMMA MakeSeq == ASSUME NEW n \in Nat, NEW f, f = [i \in 1 .. n |-> f[i]] PROVE IsSeq(f)
BY DEF IsSeq

\* A part of a sequence is one.
LEMMA SubSeqSeq == ASSUME NEW v, IsSeq(v), NEW a \in Int, NEW b \in Int PROVE IsSeq(SubSeq(v, a, b))
<1>1. SubSeq(v, a, b) = [i \in 1 .. (IF a <= b THEN b - a + 1 ELSE 0) |-> v[i + a - 1]]
  OBVIOUS
<1> DEFINE n == IF a <= b THEN b - a + 1 ELSE 0
<1>2. n \in Nat
  OBVIOUS
<1>3. QED BY <1>1, <1>2 DEF IsSeq

\* A string object is good whatever its characters.
LEMMA StringGood ==
  ASSUME NEW at \in 0 .. MaxNow + 1, NEW v, IsSeq(v)
  PROVE  GoodObj(Object("string", at, v))
BY ObjectFacts DEF GoodObj, Proper, Shape, Types

\* Strings and lists have sequences for values, and a missing key the empty one.
LEMMA ValSeq == ASSUME NEW o, GoodObj(o), o.type \in {"none", "string", "list"} PROVE IsSeq(o.val)
BY GoodFacts, NilFacts, NilSeq DEF Proper, Shape

\* When Set refuses, and the instant it stores.
SetRefused(o, opts) == \/ "GET" \in opts /\ WrongType(o, "string")
                       \/ "NX" \in opts /\ o # Nil
                       \/ "XX" \in opts /\ o = Nil
SetWhen(o, opts, at) == CASE at > 0 -> at
                          [] at = 0 /\ "KEEPTTL" \in opts -> o.at
                          [] OTHER -> 0

-----------------------------------------------------------------------------
(* The operations on strings and instants.                                 *)

\* Set, by what it finds: it refuses, or stores the value with the instant its options ask for.
LEMMA SetDoes ==
  ASSUME NEW s, Start(s), NEW k \in Keys, NEW o, o = Found(s, k), NEW val, IsSeq(val),
         Len(val) <= MaxStringLength, NEW opts, NEW at \in 0 .. MaxNow + 1,
         NEW t, t = Set(s, k, val, opts, at)
  PROVE  /\ SetRefused(o, opts) => No(s, t, k)
         /\ ~SetRefused(o, opts) => Yes(s, t, k, Object("string", SetWhen(o, opts, at), val))
<1>0. ~(Len(val) > MaxStringLength) /\ Found(lookup(s, k), k) = o /\ GoodObj(o)
  BY IsSeqLen, FoundAgain, EffectsAssumption
<1>1. CASE SetRefused(o, opts)
  <2>1. t = Return(lookup(s, k), FALSE)
    BY <1>0, <1>1 DEF Set, SetRefused
  <2>2. QED BY <1>1, <2>1, LookupNo
<1>2. CASE ~SetRefused(o, opts)
  <2>1. t = Return(touched(store(lookup(s, k), k, Object("string", SetWhen(o, opts, at), val)), k), TRUE)
    BY <1>0, <1>2 DEF Set, SetRefused, SetWhen
  <2>2. SetWhen(o, opts, at) \in 0 .. MaxNow + 1
    BY <1>0, GoodFacts DEF SetWhen
  <2>3. GoodObj(Object("string", SetWhen(o, opts, at), val))
    BY <2>2, StringGood
  <2>4. QED BY <1>2, <2>1, <2>3, StoreYes
<1>3. QED BY <1>1, <1>2

\* GetDel removes a string and leaves anything else alone.
LEMMA GetDelDoes ==
  ASSUME NEW s, Start(s), NEW k \in Keys, NEW o, o = Found(s, k), NEW t, t = GetDel(s, k)
  PROVE  /\ o.type # "string" => No(s, t, k)
         /\ o.type = "string" => Yes(s, t, k, Nil)
<1>1. CASE o.type # "string"
  <2>1. t = Return(lookup(s, k), FALSE)
    BY <1>1, FoundAgain DEF GetDel
  <2>2. QED BY <1>1, <2>1, LookupNo
<1>2. CASE o.type = "string"
  <2>1. t = Return(touched(removeLocked(lookup(s, k), k), k), TRUE)
    BY <1>2, FoundAgain DEF GetDel
  <2>2. QED BY <1>2, <2>1, RemoveYes
<1>3. QED BY <1>1, <1>2

\* An answer without a write.
Ok(s, t, k) == Looks(s, t, k) /\ Quiet(t) /\ t.res = TRUE /\ IsCall(t)

\* GetEx changes the instant of a string as asked: dropped, set, or already past, which removes
\* the key.
LEMMA GetExDoes ==
  ASSUME NEW s, Start(s), NEW k \in Keys, NEW o, o = Found(s, k), NEW at \in 0 .. MaxNow + 1,
         NEW persist, NEW t, t = GetEx(s, k, at, persist)
  PROVE  /\ o.type # "string" => No(s, t, k)
         /\ o.type = "string" /\ persist /\ o.at # 0 => Yes(s, t, k, Until(o, 0))
         /\ o.type = "string" /\ persist /\ o.at = 0 => Ok(s, t, k)
         /\ o.type = "string" /\ ~persist /\ at > 0 /\ at <= Now(s, k) => Yes(s, t, k, Nil)
         /\ o.type = "string" /\ ~persist /\ at > Now(s, k) => Yes(s, t, k, Until(o, at))
         /\ o.type = "string" /\ ~persist /\ at = 0 => Ok(s, t, k)
<1>0. /\ Found(lookup(s, k), k) = o /\ GoodObj(o) /\ Now(s, k) \in Nat /\ at \in Nat
      /\ reDate(Reading(lookup(s, k), k), k, at)
           = touched(IF at <= Now(s, k) THEN removeLocked(lookup(s, k), k)
                                        ELSE setExpireLocked(lookup(s, k), k, at), k)
  <2>1. at \in Nat
    BY EffectsAssumption
  <2>2. PICK u : u = lookup(s, k)
    OBVIOUS
  <2>3. Found(u, k) = o /\ GoodObj(o) /\ u.clock = s.clock
    BY <2>2, FoundAgain
  <2>4. Reading(u, k) = u /\ Now(s, k) \in Nat /\ Now(u, k) = Now(s, k)
    BY <2>3, StillFacts DEF Start, Now
  <2>5. QED BY <2>1, <2>2, <2>3, <2>4 DEF reDate
<1>1. CASE o.type # "string"
  <2>1. t = Return(lookup(s, k), FALSE)
    BY <1>0, <1>1 DEF GetEx
  <2>2. QED BY <1>1, <2>1, LookupNo
<1>2. CASE o.type = "string" /\ persist /\ o.at # 0
  <2>1. t = Return(touched(setExpireLocked(lookup(s, k), k, 0), k), TRUE)
    BY <1>0, <1>2 DEF GetEx
  <2>2. o # Nil /\ 0 \in 0 .. MaxNow + 1
    BY <1>2, NilFacts, EffectsAssumption
  <2>3. QED BY <1>2, <2>1, <2>2, ExpireYes
<1>3. CASE o.type = "string" /\ persist /\ o.at = 0
  <2>1. t = Return(lookup(s, k), TRUE)
    BY <1>0, <1>3 DEF GetEx
  <2>2. QED BY <1>3, <2>1, LookupYes DEF Ok
<1>4. CASE o.type = "string" /\ ~persist /\ at > 0 /\ at <= Now(s, k)
  <2>1. t = Return(touched(removeLocked(lookup(s, k), k), k), TRUE)
    BY <1>0, <1>4 DEF GetEx
  <2>2. Yes(s, t, k, Nil)
    BY <2>1, RemoveYes
  <2>3. QED BY <1>0, <1>4, <2>2
<1>5. CASE o.type = "string" /\ ~persist /\ at > Now(s, k)
  <2>0. at > 0 /\ ~(at <= Now(s, k))
    BY <1>0, <1>5
  <2>1. t = Return(touched(setExpireLocked(lookup(s, k), k, at), k), TRUE)
    BY <1>0, <1>5, <2>0 DEF GetEx
  <2>2. o # Nil
    BY <1>5, NilFacts
  <2>3. Yes(s, t, k, Until(o, at))
    BY <2>1, <2>2, ExpireYes
  <2>4. QED BY <1>0, <1>5, <2>3
<1>6. CASE o.type = "string" /\ ~persist /\ at = 0
  <2>1. t = Return(lookup(s, k), TRUE)
    BY <1>0, <1>6 DEF GetEx
  <2>2. Ok(s, t, k)
    BY <2>1, LookupYes DEF Ok
  <2>3. QED BY <1>0, <1>6, <2>2
<1>7. QED BY <1>0, <1>1, <1>2, <1>3, <1>4, <1>5, <1>6

\* A new value under the old instant.
LEMMA ReplaceYes ==
  ASSUME NEW s, Start(s), NEW k \in Keys, NEW o, o = Found(s, k), NEW v, IsSeq(v),
         NEW t, t = Return(replaceValue(lookup(s, k), k, v), TRUE)
  PROVE  Yes(s, t, k, Object("string", o.at, v))
<1>1. GoodObj(Object("string", o.at, v)) /\ Found(lookup(s, k), k) = o
  BY FoundAgain, GoodFacts, StringGood
<1>2. t = Return(touched(store(lookup(s, k), k, Object("string", o.at, v)), k), TRUE)
  BY <1>1 DEF replaceValue
<1>3. QED BY <1>1, <1>2, StoreYes

\* When AppendTo refuses.
AppendBad(o, val) == WrongType(o, "string") \/ Len(o.val) + Len(val) > MaxStringLength

\* Append extends a string that stays within the limit, keeping its instant.
LEMMA AppendDoes ==
  ASSUME NEW s, Start(s), NEW k \in Keys, NEW o, o = Found(s, k), NEW val, IsSeq(val),
         NEW t, t = AppendTo(s, k, val)
  PROVE  /\ AppendBad(o, val) => No(s, t, k)
         /\ ~AppendBad(o, val) => Yes(s, t, k, Object("string", o.at, o.val \o val))
<1>0. Found(lookup(s, k), k) = o /\ GoodObj(o)
  BY FoundAgain
<1>1. CASE AppendBad(o, val)
  <2>1. t = Return(lookup(s, k), FALSE)
    BY <1>0, <1>1 DEF AppendTo, AppendBad
  <2>2. QED BY <1>1, <2>1, LookupNo
<1>2. CASE ~AppendBad(o, val)
  <2>1. t = Return(replaceValue(lookup(s, k), k, o.val \o val), TRUE)
    BY <1>0, <1>2 DEF AppendTo, AppendBad
  <2>2. IsSeq(o.val \o val)
    BY <1>0, <1>2, ValSeq, ConcatSeq DEF AppendBad, WrongType
  <2>3. QED BY <1>2, <2>1, <2>2, ReplaceYes
<1>3. QED BY <1>1, <1>2

\* The string SetRange leaves.
RangeOf(o, offset, val) ==
  LET end == offset + Len(val)
  IN  [i \in 1..(IF end > Len(o.val) THEN end ELSE Len(o.val)) |->
         CASE i > offset /\ i <= end -> val[i - offset]
           [] i <= offset /\ i > Len(o.val) -> Pad
           [] OTHER -> o.val[i]]

\* SetRange overwrites a string from the offset on, padding up to it.
LEMMA SetRangeDoes ==
  ASSUME NEW s, Start(s), NEW k \in Keys, NEW o, o = Found(s, k), NEW offset \in Nat,
         NEW val, IsSeq(val), val # <<>>, ~(offset + Len(val) > MaxStringLength),
         NEW t, t = SetRange(s, k, offset, val)
  PROVE  /\ WrongType(o, "string") => No(s, t, k)
         /\ ~WrongType(o, "string") => Yes(s, t, k, Object("string", o.at, RangeOf(o, offset, val)))
<1>0. Found(lookup(s, k), k) = o /\ GoodObj(o)
  BY FoundAgain
<1>1. CASE WrongType(o, "string")
  <2>1. t = Return(lookup(s, k), FALSE)
    BY <1>0, <1>1 DEF SetRange
  <2>2. QED BY <1>1, <2>1, LookupNo
<1>2. CASE ~WrongType(o, "string")
  <2>0. t = Return(replaceValue(lookup(s, k), k, RangeOf(Found(lookup(s, k), k), offset, val)), TRUE)
    BY <1>0, <1>2 DEF SetRange, RangeOf
  <2>1. t = Return(replaceValue(lookup(s, k), k, RangeOf(o, offset, val)), TRUE)
    BY <1>0, <2>0
  <2>2. IsSeq(RangeOf(o, offset, val))
    <3>1. Len(o.val) \in Nat /\ Len(val) \in Nat
      BY <1>0, <1>2, ValSeq, IsSeqLen DEF WrongType
    <3>2. PICK n \in Nat : n = IF offset + Len(val) > Len(o.val) THEN offset + Len(val) ELSE Len(o.val)
      BY <3>1
    <3>3. PICK r : r = RangeOf(o, offset, val)
      OBVIOUS
    <3>4. r = [i \in 1 .. n |-> r[i]]
      BY <3>2, <3>3 DEF RangeOf
    <3>5. QED BY <3>3, <3>4, MakeSeq
  <2>3. QED BY <1>2, <2>1, <2>2, ReplaceYes
<1>3. QED BY <1>1, <1>2

\* The integer a string holds, and when IncrBy refuses.
Cur(o) == IF o = Nil THEN 0 ELSE o.val[1]
IncrBad(o, delta) == \/ WrongType(o, "string")
                     \/ o # Nil /\ ~IsNumber(o.val)
                     \/ Cur(o) + delta \notin 0..MaxInt

\* IncrBy adds to an integer in range, keeping the instant.
LEMMA IncrByDoes ==
  ASSUME NEW s, Start(s), NEW k \in Keys, NEW o, o = Found(s, k), NEW delta,
         NEW t, t = IncrBy(s, k, delta)
  PROVE  /\ IncrBad(o, delta) => No(s, t, k)
         /\ ~IncrBad(o, delta) => Yes(s, t, k, Object("string", o.at, <<Cur(o) + delta>>))
<1>0. Found(lookup(s, k), k) = o /\ GoodObj(o)
  BY FoundAgain
<1>1. CASE IncrBad(o, delta)
  <2>1. t = Return(lookup(s, k), FALSE)
    BY <1>0, <1>1 DEF IncrBy, IncrBad, Cur
  <2>2. QED BY <1>1, <2>1, LookupNo
<1>2. CASE ~IncrBad(o, delta)
  <2>1. t = Return(replaceValue(lookup(s, k), k, <<Cur(o) + delta>>), TRUE)
    BY <1>0, <1>2 DEF IncrBy, IncrBad, Cur, Digits
  <2>2. IsSeq(<<Cur(o) + delta>>)
    BY OneSeq
  <2>3. QED BY <1>2, <2>1, <2>2, ReplaceYes
<1>3. QED BY <1>1, <1>2

\* Persist drops the instant of a key that has one.
LEMMA PersistDoes ==
  ASSUME NEW s, Start(s), NEW k \in Keys, NEW o, o = Found(s, k), NEW t, t = Persist(s, k)
  PROVE  /\ o.at = 0 => No(s, t, k)
         /\ o.at # 0 => Yes(s, t, k, Until(o, 0))
<1>0. Found(lookup(s, k), k) = o
  BY FoundAgain
<1>1. CASE o.at = 0
  <2>1. t = Return(lookup(s, k), FALSE)
    BY <1>0, <1>1 DEF Persist
  <2>2. QED BY <1>1, <2>1, LookupNo
<1>2. CASE o.at # 0
  <2>1. t = Return(touched(setExpireLocked(lookup(s, k), k, 0), k), TRUE)
    BY <1>0, <1>2 DEF Persist
  <2>2. o # Nil /\ 0 \in 0 .. MaxNow + 1
    BY <1>2, NilFacts, EffectsAssumption
  <2>3. QED BY <1>2, <2>1, <2>2, ExpireYes
<1>3. QED BY <1>1, <1>2

\* Expire sets an instant its condition allows; one that has passed removes the key, except while
\* a log is loaded.
LEMMA ExpireDoes ==
  ASSUME NEW s, Start(s), NEW k \in Keys, NEW o, o = Found(s, k), NEW at \in 0 .. MaxNow + 1,
         NEW flags, NEW t, t = Expire(s, k, at, flags)
  PROVE  /\ Quiet(t) /\ IsCall(t)
         /\ o = Nil \/ ~expireConditionMet(o.at, at, flags) => Looks(s, t, k) /\ t.res = "no"
         /\ o # Nil /\ expireConditionMet(o.at, at, flags) =>
              /\ at <= Now(s, k) /\ s.mode # "loading" => Puts(s, t, k, Nil) /\ t.res = "deleted"
              /\ ~(at <= Now(s, k) /\ s.mode # "loading") => Puts(s, t, k, Until(o, at)) /\ t.res = "set"
<1>0. /\ Found(lookup(s, k), k) = o /\ lookup(s, k).mode = s.mode
      /\ Now(Reading(lookup(s, k), k), k) = Now(s, k)
  <2>1. PICK u : u = lookup(s, k)
    OBVIOUS
  <2>2. Found(u, k) = o /\ u.mode = s.mode /\ u.clock = s.clock
    BY <2>1, FoundAgain
  <2>3. Reading(u, k) = u /\ Now(u, k) = Now(s, k)
    BY <2>2, StillFacts DEF Start, Now
  <2>4. QED BY <2>1, <2>2, <2>3
<1>1. CASE o = Nil \/ ~expireConditionMet(o.at, at, flags)
  <2>1. t = Return(lookup(s, k), "no")
    BY <1>0, <1>1 DEF Expire
  <2>2. QED BY <1>1, <2>1, LookupLooks
<1>2. CASE o # Nil /\ expireConditionMet(o.at, at, flags) /\ at <= Now(s, k) /\ s.mode # "loading"
  <2>1. t = Return(touched(removeLocked(lookup(s, k), k), k), "deleted")
    BY <1>0, <1>2 DEF Expire
  <2>2. QED BY <1>2, <2>1, RemovePuts
<1>3. CASE o # Nil /\ expireConditionMet(o.at, at, flags) /\ ~(at <= Now(s, k) /\ s.mode # "loading")
  <2>1. t = Return(touched(setExpireLocked(lookup(s, k), k, at), k), "set")
    BY <1>0, <1>3 DEF Expire
  <2>2. QED BY <1>3, <2>1, ExpirePuts
<1>4. QED BY <1>1, <1>2, <1>3

(* The handler each name leads to. *)
LEMMA Dispatch ==
  ASSUME NEW s, NEW c
  PROVE  /\ c.name = "SET" => Handler(s, c) = cmdSet(s, c)
         /\ c.name = "SETNX" => Handler(s, c) = cmdSetNX(s, c)
         /\ c.name = "PSETEX" => Handler(s, c) = cmdSetEx(s, c)
         /\ c.name = "GETSET" => Handler(s, c) = cmdGetSet(s, c)
         /\ c.name = "GETDEL" => Handler(s, c) = cmdGetDel(s, c)
         /\ c.name = "GETEX" => Handler(s, c) = cmdGetEx(s, c)
         /\ c.name = "MSET" => Handler(s, c) = cmdMSet(s, c)
         /\ c.name = "MSETNX" => Handler(s, c) = cmdMSetNX(s, c)
         /\ c.name = "INCRBY" => Handler(s, c) = cmdIncrDecr(s, c)
         /\ c.name = "INCRBYFLOAT" => Handler(s, c) = cmdIncrByFloat(s, c)
         /\ c.name = "APPEND" => Handler(s, c) = cmdAppend(s, c)
         /\ c.name = "SETRANGE" => Handler(s, c) = cmdSetRange(s, c)
         /\ c.name = "DEL" => Handler(s, c) = cmdDel(s, c)
         /\ c.name = "RENAME" => Handler(s, c) = cmdRename(s, c)
         /\ c.name = "COPY" => Handler(s, c) = cmdCopy(s, c)
         /\ c.name = "PEXPIREAT" => Handler(s, c) = cmdExpire(s, c)
         /\ c.name = "PERSIST" => Handler(s, c) = cmdPersist(s, c)
         /\ c.name = "SORT" => Handler(s, c) = cmdSort(s, c)
BY SMTT(60) DEF Handler, StringHandler, KeyHandler, StringNames, KeyNames, ListNames, SetNames,
                HashNames

\* The handlers of the list and set commands.
LEMMA DispatchCollections ==
  ASSUME NEW s, NEW c
  PROVE  /\ c.name = "LPUSH" => Handler(s, c) = listPush(s, c)
         /\ c.name = "LPOP" => Handler(s, c) = listPop(s, c)
         /\ c.name = "BLPOP" => Handler(s, c) = blockingPop(s, c)
         /\ c.name = "LSET" => Handler(s, c) = cmdLSet(s, c)
         /\ c.name = "LINSERT" => Handler(s, c) = cmdLInsert(s, c)
         /\ c.name = "LREM" => Handler(s, c) = cmdLRem(s, c)
         /\ c.name = "LTRIM" => Handler(s, c) = cmdLTrim(s, c)
         /\ c.name = "LMOVE" => Handler(s, c) = listMove(s, c)
         /\ c.name = "BLMOVE" => Handler(s, c) = blockingMove(s, c)
         /\ c.name = "SADD" => Handler(s, c) = cmdSAdd(s, c)
         /\ c.name = "SREM" => Handler(s, c) = cmdSRem(s, c)
         /\ c.name = "SPOP" => Handler(s, c) = cmdSPop(s, c)
         /\ c.name = "SMOVE" => Handler(s, c) = cmdSMove(s, c)
         /\ c.name = "SSTORE" => Handler(s, c) = setCombineStore(s, c)
         /\ c.name = "HSET" => Handler(s, c) = cmdHSet(s, c)
         /\ c.name = "HSETNX" => Handler(s, c) = cmdHSetNX(s, c)
         /\ c.name = "HDEL" => Handler(s, c) = cmdHDel(s, c)
         /\ c.name = "HINCRBY" => Handler(s, c) = cmdHIncrBy(s, c)
         /\ c.name = "HINCRBYFLOAT" => Handler(s, c) = cmdHIncrByFloat(s, c)
         /\ c.name = "ZADD" => Handler(s, c) = cmdZAdd(s, c)
         /\ c.name = "ZINCRBY" => Handler(s, c) = cmdZIncrBy(s, c)
         /\ c.name = "ZREM" => Handler(s, c) = cmdZRem(s, c)
         /\ c.name = "ZPOP" => Handler(s, c) = zpop(s, c)
         /\ c.name = "BZPOP" => Handler(s, c) = blockingZPop(s, c)
         /\ c.name = "ZREMRANGE" => Handler(s, c) = zremrange(s, c)
         /\ c.name = "ZRANGESTORE" => Handler(s, c) = cmdZRangeStore(s, c)
         /\ c.name = "ZSTORE" => Handler(s, c) = zcombineStore(s, c)
<1>1. /\ c.name = "LPUSH" => Handler(s, c) = listPush(s, c)
      /\ c.name = "LPOP" => Handler(s, c) = listPop(s, c)
      /\ c.name = "BLPOP" => Handler(s, c) = blockingPop(s, c)
      /\ c.name = "LSET" => Handler(s, c) = cmdLSet(s, c)
      /\ c.name = "LINSERT" => Handler(s, c) = cmdLInsert(s, c)
      /\ c.name = "LREM" => Handler(s, c) = cmdLRem(s, c)
      /\ c.name = "LTRIM" => Handler(s, c) = cmdLTrim(s, c)
      /\ c.name = "LMOVE" => Handler(s, c) = listMove(s, c)
      /\ c.name = "BLMOVE" => Handler(s, c) = blockingMove(s, c)
  <2>1. c.name \in {"LPUSH", "LPOP", "BLPOP", "LSET", "LINSERT", "LREM", "LTRIM", "LMOVE", "BLMOVE"}
        => Handler(s, c) = ListHandler(s, c)
    BY SMTT(30) DEF Handler, StringNames, KeyNames, ListNames, SetNames, HashNames
  <2>2. QED BY <2>1, SMTT(30) DEF ListHandler
<1>2. /\ c.name = "SADD" => Handler(s, c) = cmdSAdd(s, c)
      /\ c.name = "SREM" => Handler(s, c) = cmdSRem(s, c)
      /\ c.name = "SPOP" => Handler(s, c) = cmdSPop(s, c)
      /\ c.name = "SMOVE" => Handler(s, c) = cmdSMove(s, c)
      /\ c.name = "SSTORE" => Handler(s, c) = setCombineStore(s, c)
  <2>1. c.name \in {"SADD", "SREM", "SPOP", "SMOVE", "SSTORE"} => Handler(s, c) = SetHandler(s, c)
    BY SMTT(30) DEF Handler, StringNames, KeyNames, ListNames, SetNames, HashNames
  <2>2. QED BY <2>1, SMTT(30) DEF SetHandler
<1>3. /\ c.name = "HSET" => Handler(s, c) = cmdHSet(s, c)
      /\ c.name = "HSETNX" => Handler(s, c) = cmdHSetNX(s, c)
      /\ c.name = "HDEL" => Handler(s, c) = cmdHDel(s, c)
      /\ c.name = "HINCRBY" => Handler(s, c) = cmdHIncrBy(s, c)
      /\ c.name = "HINCRBYFLOAT" => Handler(s, c) = cmdHIncrByFloat(s, c)
  <2>1. c.name \in {"HSET", "HSETNX", "HDEL", "HINCRBY", "HINCRBYFLOAT"}
        => Handler(s, c) = HashHandler(s, c)
    BY SMTT(30) DEF Handler, StringNames, KeyNames, ListNames, SetNames, HashNames
  <2>2. QED BY <2>1, SMTT(30) DEF HashHandler
<1>4. /\ c.name = "ZADD" => Handler(s, c) = cmdZAdd(s, c)
      /\ c.name = "ZINCRBY" => Handler(s, c) = cmdZIncrBy(s, c)
      /\ c.name = "ZREM" => Handler(s, c) = cmdZRem(s, c)
      /\ c.name = "ZPOP" => Handler(s, c) = zpop(s, c)
      /\ c.name = "BZPOP" => Handler(s, c) = blockingZPop(s, c)
      /\ c.name = "ZREMRANGE" => Handler(s, c) = zremrange(s, c)
      /\ c.name = "ZRANGESTORE" => Handler(s, c) = cmdZRangeStore(s, c)
      /\ c.name = "ZSTORE" => Handler(s, c) = zcombineStore(s, c)
  <2>1. c.name \in {"ZADD", "ZINCRBY", "ZREM", "ZPOP", "BZPOP", "ZREMRANGE", "ZRANGESTORE", "ZSTORE"}
        => Handler(s, c) = ZSetHandler(s, c)
    BY SMTT(30) DEF Handler, StringNames, KeyNames, ListNames, SetNames, HashNames
  <2>2. QED BY <2>1, SMTT(30) DEF ZSetHandler
<1>5. QED BY <1>1, <1>2, <1>3, <1>4

\* The commands that may be logged as they were sent.
LEMMA CanonicalNames ==
  /\ {"MSET", "INCRBY", "APPEND", "SETRANGE", "DEL", "RENAME", "PERSIST", "SORT", "LPUSH", "LPOP",
      "LSET", "LINSERT", "LREM", "LTRIM", "LMOVE", "SADD", "SREM", "SMOVE", "SSTORE", "HSET", "HDEL",
      "HINCRBY", "ZREM", "ZREMRANGE", "ZRANGESTORE", "ZSTORE"} \cap Canonical = {}
BY DEF Canonical

\* The arguments of a plain command.
LEMMA CommandFacts ==
  ASSUME NEW name, NEW k
  PROVE  LET c == Command(name, k) IN
         /\ c.name = name /\ c.key = k /\ c.dst = k /\ c.val = <<>> /\ c.n = 0 /\ c.opts = {}
BY DEF Command

\* The effect of a SET.
SetOpts(opts, at) == CASE at > 0 -> {"PXAT"}
                       [] at = 0 /\ "KEEPTTL" \in opts -> {"KEEPTTL"}
                       [] OTHER -> {}
SetEffect(k, val, opts, at) ==
  [Command("SET", k) EXCEPT !.val = val, !.n = at, !.opts = SetOpts(opts, at)]

\* The arguments of the effect a SET is logged as.
LEMMA SetEffectFacts ==
  ASSUME NEW k, NEW val, NEW opts, NEW at, NEW e, e = SetEffect(k, val, opts, at)
  PROVE  e.name = "SET" /\ e.key = k /\ e.val = val /\ e.n = at /\ e.opts = SetOpts(opts, at)
BY DEF SetEffect, Command

-----------------------------------------------------------------------------
(* String and key commands are safe.                                       *)

\* cmdSet writes what Set does and is logged with its absolute instant.
LEMMA CmdSet ==
  ASSUME NEW s, Start(s), NEW c, c.key \in Keys, NEW o, o = Found(s, c.key), IsSeq(c.val),
         Len(c.val) <= MaxStringLength, NEW at \in 0 .. MaxNow + 1, at = absoluteExpiry(s, c),
         NEW t, t = cmdSet(s, c), NEW d
  PROVE  /\ SetRefused(o, c.opts) => Looks(s, t, c.key) /\ Logged(t, d) = <<>>
         /\ ~SetRefused(o, c.opts) =>
              /\ Puts(s, t, c.key, Object("string", SetWhen(o, c.opts, at), c.val))
              /\ Logged(t, d) = <<SetEffect(c.key, c.val, c.opts, at)>>
<1>1. PICK u : u = Set(s, c.key, c.val, c.opts, at)
  OBVIOUS
<1>2. t = IF u.res THEN propagateSet(u, c, at) ELSE u
  BY <1>1 DEF cmdSet
<1>3. CASE SetRefused(o, c.opts)
  <2>1. No(s, u, c.key)
    BY <1>1, <1>3, SetDoes
  <2>2. QED BY <1>2, <1>3, <2>1, QuietLogged DEF No
<1>4. CASE ~SetRefused(o, c.opts)
  <2>1. Yes(s, u, c.key, Object("string", SetWhen(o, c.opts, at), c.val))
    BY <1>1, <1>4, SetDoes
  <2>2. t = Propagate(u, SetEffect(c.key, c.val, c.opts, at))
    BY <1>2, <2>1 DEF Yes, propagateSet, SetEffect, SetOpts
  <2>3. QED BY <1>4, <2>1, <2>2, PropagatedYes DEF Yes
<1>5. QED BY <1>3, <1>4

\* That effect, executed, stores the same object.
LEMMA SetRedone ==
  ASSUME NEW s, Start(s), NEW k \in Keys, NEW o, o = Found(s, k), NEW val, IsSeq(val),
         Len(val) <= MaxStringLength, NEW opts, NEW at \in 0 .. MaxNow + 1,
         NEW e, e = SetEffect(k, val, opts, at)
  PROVE  Puts(s, Handler(s, e), k, Object("string", SetWhen(o, opts, at), val))
<1>0. at \in Nat
  BY EffectsAssumption
<1>1. e.name = "SET" /\ e.key = k /\ e.val = val /\ e.n = at /\ e.opts = SetOpts(opts, at)
  BY SetEffectFacts
<1>2. Handler(s, e) = cmdSet(s, e)
  BY <1>1, Dispatch
<1>3. "PX" \notin e.opts /\ ~SetRefused(o, e.opts)
  BY <1>1 DEF SetOpts, SetRefused
<1>4. at = absoluteExpiry(s, e)
  BY <1>1, <1>3 DEF absoluteExpiry
<1>5. SetWhen(o, e.opts, at) = SetWhen(o, opts, at)
  BY <1>0, <1>1 DEF SetWhen, SetOpts
<1>6. QED BY <1>1, <1>2, <1>3, <1>4, <1>5, CmdSet

\* Every command that cmdSet carries out is safe.
LEMMA SetFamily ==
  ASSUME NEW c, NEW d, \A s : Handler(s, c) = cmdSet(s, d), d.key \in Keys, IsSeq(d.val),
         Len(d.val) <= MaxStringLength,
         \A n \in 1 .. MaxNow : (IF "PX" \in d.opts THEN d.n + n ELSE d.n) \in 0 .. MaxNow + 1
  PROVE  Safe(c)
<1> DEFINE k == d.key
<1>1. ASSUME NEW o, NEW n \in Stills, GoodObj(o)
      PROVE  Idle(c, k, o, n) \/ \E e, new : Does(c, k, o, n, e, new)
  <2>0. PICK at \in 0 .. MaxNow + 1 : at = IF "PX" \in d.opts THEN d.n + n.start ELSE d.n
    BY StillFacts
  <2>1. ASSUME NEW s, Leads(s, n) PROVE at = absoluteExpiry(s, d)
    BY <2>0, <2>1 DEF absoluteExpiry, Leads
  <2>2. CASE SetRefused(o, d.opts)
    <3>1. Idle(c, k, o, n)
      <4> SUFFICES ASSUME NEW s, Leads(s, n), Found(s, k) = o
                   PROVE  Looks(s, Handler(s, c), k) /\ Logged(Handler(s, c), c) = <<>>
        BY DEF Idle
      <4>1. QED BY <2>1, <2>2, CmdSet DEF Leads
    <3>2. QED BY <3>1
  <2>3. CASE ~SetRefused(o, d.opts)
    <3> DEFINE e == SetEffect(k, d.val, d.opts, at)
               new == Object("string", SetWhen(o, d.opts, at), d.val)
    <3>1. ASSUME NEW s, Leads(s, n), Found(s, k) = o
          PROVE  Puts(s, Handler(s, c), k, new) /\ Logged(Handler(s, c), c) = <<e>>
      BY <2>1, <2>3, <3>1, CmdSet DEF Leads
    <3>2. ASSUME NEW s, Start(s), s.mode = "loading", Found(s, k) = o
          PROVE  Puts(s, Handler(s, e), k, new)
      BY <3>2, SetRedone
    <3>3. Does(c, k, o, n, e, new)
      BY <3>1, <3>2 DEF Does
    <3>4. QED BY <3>3
  <2>4. QED BY <2>2, <2>3
<1>2. QED BY <1>1, OneKeySafe DEF OneKey

\* SET is safe.
LEMMA SetSafe ==
  ASSUME NEW c, c.name = "SET", c.key \in Keys, IsSeq(c.val), Len(c.val) <= MaxStringLength,
         c.n \in 0 .. MaxNow + 1, "PX" \notin c.opts
  PROVE  Safe(c)
<1>1. \A s : Handler(s, c) = cmdSet(s, c)
  BY Dispatch
<1>2. \A n \in 1 .. MaxNow : (IF "PX" \in c.opts THEN c.n + n ELSE c.n) \in 0 .. MaxNow + 1
  OBVIOUS
<1>3. QED BY <1>1, <1>2, SetFamily

\* An argument list.
IsCommand(c) == DOMAIN c = {"name", "key", "dst", "val", "n", "opts"}

\* SETNX, GETSET and PSETEX are safe: each is a SET with other options.
LEMMA SetSpellings ==
  ASSUME NEW c, IsCommand(c), c.key \in Keys, IsSeq(c.val), Len(c.val) <= MaxStringLength,
         \/ c.name \in {"SETNX", "GETSET"} /\ c.n = 0
         \/ c.name = "PSETEX" /\ c.n = 1
  PROVE  Safe(c)
<1>1. CASE c.name = "SETNX" /\ c.n = 0
  <2>1. PICK d : d = [c EXCEPT !.opts = {"NX"}]
    OBVIOUS
  <2>2. d.key = c.key /\ d.val = c.val /\ d.n = 0 /\ d.opts = {"NX"}
    BY <1>1, <2>1 DEF IsCommand
  <2>3. \A s : Handler(s, c) = cmdSet(s, d)
    BY <1>1, <2>1, Dispatch DEF cmdSetNX
  <2>4. \A n \in 1 .. MaxNow : (IF "PX" \in d.opts THEN d.n + n ELSE d.n) \in 0 .. MaxNow + 1
    BY <2>2, EffectsAssumption
  <2>5. QED BY <2>2, <2>3, <2>4, SetFamily
<1>2. CASE c.name = "GETSET" /\ c.n = 0
  <2>1. PICK d : d = [c EXCEPT !.opts = {"GET"}]
    OBVIOUS
  <2>2. d.key = c.key /\ d.val = c.val /\ d.n = 0 /\ d.opts = {"GET"}
    BY <1>2, <2>1 DEF IsCommand
  <2>3. \A s : Handler(s, c) = cmdSet(s, d)
    BY <1>2, <2>1, Dispatch DEF cmdGetSet
  <2>4. \A n \in 1 .. MaxNow : (IF "PX" \in d.opts THEN d.n + n ELSE d.n) \in 0 .. MaxNow + 1
    BY <2>2, EffectsAssumption
  <2>5. QED BY <2>2, <2>3, <2>4, SetFamily
<1>3. CASE c.name = "PSETEX" /\ c.n = 1
  <2>1. PICK d : d = [c EXCEPT !.opts = {"PX"}]
    OBVIOUS
  <2>2. d.key = c.key /\ d.val = c.val /\ d.n = 1 /\ d.opts = {"PX"}
    BY <1>3, <2>1 DEF IsCommand
  <2>3. \A s : Handler(s, c) = cmdSet(s, d)
    BY <1>3, <2>1, Dispatch DEF cmdSetEx
  <2>4. \A n \in 1 .. MaxNow : (IF "PX" \in d.opts THEN d.n + n ELSE d.n) \in 0 .. MaxNow + 1
    BY <2>2, EffectsAssumption
  <2>5. QED BY <2>2, <2>3, <2>4, SetFamily
<1>4. QED BY <1>1, <1>2, <1>3

-----------------------------------------------------------------------------
(* DEL of one key, the effect of every expiry.                             *)

\* A call that has only answered starts again.
LEMMA StartReturn ==
  ASSUME NEW s, Start(s), NEW q, SameTable(s, q), Quiet(q)
  PROVE  /\ Start(q) /\ \A k : Found(q, k) = Found(s, k)
         /\ \A t, R, W : At(q, t, R, W) => At(s, t, R, W)
<1>2. q.obj = s.obj /\ q.mode = s.mode /\ q.clock = s.clock
  BY DEF SameTable
<1>3. ASSUME NEW k PROVE Found(q, k) = Found(s, k) /\ (expired(q, k) <=> expired(s, k))
  BY <1>2 DEF Found, expired, Now
<1>4. Start(q)
  BY DEF Start, SameTable, Quiet
<1>5. ASSUME NEW t, NEW R, NEW W, At(q, t, R, W) PROVE At(s, t, R, W)
  <2>1. {k \in R : expired(q, k)} = {k \in R : expired(s, k)}
    BY <1>3
  <2>2. QED BY <1>2, <1>3, <1>5, <2>1 DEF At
<1>6. QED BY <1>3, <1>4, <1>5

\* A key that is not there is not deleted again.
LEMMA DelNil ==
  ASSUME NEW s, NEW k \in Keys, Still(s.clock), s.obj[k] = Nil
  PROVE  delOne(s, k) = s
<1>1. ~expired(s, k)
  BY NilFacts DEF expired, Due
<1>2. lookup(s, k) = s
  BY <1>1, StillFacts DEF Reaped
<1>3. QED BY <1>1, <1>2 DEF delOne, Found

\* delOne removes its key, and counts it if it was there.
LEMMA DelOne ==
  ASSUME NEW s, Start(s), NEW k \in Keys, NEW t, t = delOne(s, k), NEW o, o = Found(s, k)
  PROVE  /\ Quiet(t) /\ IsCall(t) /\ t.obj[k] = Nil
         /\ o = Nil => Looks(s, t, k) /\ t.res = s.res
         /\ o # Nil => Puts(s, t, k, Nil) /\ t.res = TRUE
<1>1. PICK u : u = lookup(s, k)
  OBVIOUS
<1>2. At(s, u, {k}, {}) /\ Quiet(u) /\ Found(u, k) = o /\ u.obj[k] = o /\ Table0(u)
  BY <1>1, LookedUp
<1>3. CASE o = Nil
  <2>1. t = u
    BY <1>1, <1>2, <1>3 DEF delOne
  <2>2. u.res = s.res
    <3>1. At(s, s, {}, {}) /\ k \in Keys \ {} /\ {k} = {} \cup {k}
      BY StartAt
    <3>2. SameFields(s, u)
      BY <1>1, <3>1, LookupAt
    <3>3. QED BY <3>2 DEF SameFields
  <2>3. QED BY <1>2, <1>3, <2>1, <2>2 DEF Looks, Table0
<1>4. CASE o # Nil
  <2>1. t = Return(touched(removeLocked(lookup(s, k), k), k), TRUE)
    BY <1>1, <1>2, <1>4 DEF delOne
  <2>2. Yes(s, t, k, Nil)
    BY <2>1, RemoveYes
  <2>3. QED BY <1>4, <2>2 DEF Yes, Puts
<1>5. QED BY <1>3, <1>4

\* DEL of one key removes it and is logged, or finds nothing and is not.
LEMMA DelOneKey ==
  ASSUME NEW s, Start(s), NEW k \in Keys, NEW o, o = Found(s, k), NEW e, e.name = "DEL", e.key = k,
         e.dst = k, NEW t, t = Handler(s, e)
  PROVE  /\ o = Nil => Looks(s, t, k) /\ Logged(t, e) = <<>>
         /\ o # Nil => Puts(s, t, k, Nil) /\ Logged(t, e) = <<e>>
<1>0. PICK q, u : q = Return(s, FALSE) /\ u = delOne(q, k)
  OBVIOUS
<1>1. SameTable(s, q) /\ Quiet(q) /\ q.res = FALSE
  BY <1>0 DEF Return, Start, IsCall, SameTable, Quiet
<1>2. Start(q) /\ Found(q, k) = o
  BY <1>1, StartReturn
<1>3. /\ Quiet(u) /\ IsCall(u) /\ u.obj[k] = Nil
      /\ o = Nil => Looks(q, u, k) /\ u.res = q.res
      /\ o # Nil => Puts(q, u, k, Nil) /\ u.res = TRUE
  BY ONLY <1>0, <1>2, DelOne, k \in Keys
<1>30. Still(u.clock)
  <2>1. u.clock = q.clock
    BY <1>3 DEF Looks, Puts, At
  <2>2. QED BY <1>2, <2>1 DEF Start
<1>4. Del(s, k, k) = u
  BY <1>0, <1>3, <1>30, DelNil DEF Del
<1>5. t = Reported(u)
  BY <1>4, Dispatch DEF cmdDel
<1>6. CASE o = Nil
  <2>1. No(s, u, k)
    BY <1>1, <1>2, <1>3, <1>6, StartReturn DEF No, Looks
  <2>2. QED BY <1>5, <1>6, <2>1, ReportedNo
<1>7. CASE o # Nil
  <2>1. Yes(s, u, k, Nil)
    BY <1>1, <1>3, <1>7, StartReturn DEF Yes, Puts
  <2>2. e.name \notin Canonical
    BY DEF Canonical
  <2>3. QED BY <1>5, <1>7, <2>1, <2>2, ReportedYes
<1>8. QED BY <1>6, <1>7

\* GETDEL is safe: it is logged as the DEL it amounts to.
LEMMA GetDelSafe == ASSUME NEW c, c.name = "GETDEL", c.key \in Keys PROVE Safe(c)
<1> DEFINE k == c.key
           e == Command("DEL", k)
<1>0. e.name = "DEL" /\ e.key = k /\ e.dst = k
  BY CommandFacts
<1>1. ASSUME NEW s, Start(s), NEW o, o = Found(s, k)
      PROVE  /\ o.type # "string" => Looks(s, Handler(s, c), k) /\ Logged(Handler(s, c), c) = <<>>
             /\ o.type = "string" =>
                  Puts(s, Handler(s, c), k, Nil) /\ Logged(Handler(s, c), c) = <<e>>
  <2>1. PICK t : t = GetDel(s, k) /\ Handler(s, c) = IF t.res THEN Propagate(t, e) ELSE t
    BY Dispatch DEF cmdGetDel
  <2>2. CASE o.type # "string"
    <3>1. No(s, t, k)
      BY <1>1, <2>1, <2>2, GetDelDoes
    <3>2. QED BY <2>1, <2>2, <3>1, QuietLogged DEF No
  <2>3. CASE o.type = "string"
    <3>1. Yes(s, t, k, Nil)
      BY <1>1, <2>1, <2>3, GetDelDoes
    <3>2. Handler(s, c) = Propagate(t, e)
      BY <2>1, <3>1 DEF Yes
    <3>3. QED BY <2>3, <3>1, <3>2, PropagatedYes DEF Yes
  <2>4. QED BY <2>2, <2>3
<1> HIDE DEF e
<1>2. ASSUME NEW o, NEW n \in Stills, GoodObj(o)
      PROVE  Idle(c, k, o, n) \/ \E f, new : Does(c, k, o, n, f, new)
  <2>1. CASE o.type # "string"
    BY <1>1, <2>1 DEF Idle, Leads
  <2>2. CASE o.type = "string"
    <3>1. ASSUME NEW s, Start(s), Found(s, k) = o PROVE Puts(s, Handler(s, e), k, Nil)
      BY <1>0, <2>2, <3>1, NilFacts, DelOneKey
    <3>2. Does(c, k, o, n, e, Nil)
      BY <1>1, <2>2, <3>1 DEF Does, Leads
    <3>3. QED BY <3>2
  <2>3. QED BY <2>1, <2>2
<1>3. QED BY <1>2, OneKeySafe DEF OneKey

\* INCRBY is safe.
LEMMA IncrSafe ==
  ASSUME NEW c, c.name = "INCRBY", c.key \in Keys
  PROVE  Safe(c)
<1> DEFINE k == c.key
           bad(o) == IncrBad(o, c.n)
           new(o) == Object("string", o.at, <<Cur(o) + c.n>>)
<1>1. ASSUME NEW s, Start(s), NEW o, o = Found(s, k)
      PROVE  \E t : /\ Handler(s, c) = Reported(t)
                    /\ bad(o) => No(s, t, k)
                    /\ ~bad(o) => Yes(s, t, k, new(o))
  BY <1>1, IncrByDoes, Dispatch DEF cmdIncrDecr
<1> HIDE DEF new, bad
<1>2. ASSUME NEW o
      PROVE  \/ \A s : Start(s) /\ Found(s, k) = o => \E t : No(s, t, k) /\ Handler(s, c) = Reported(t)
             \/ \A s : Start(s) /\ Found(s, k) = o
                        => \E t : Yes(s, t, k, new(o)) /\ Handler(s, c) = Reported(t)
  BY <1>1
<1>3. Verbatim(c, k)
  BY <1>2 DEF Verbatim
<1>4. QED BY <1>3, VerbatimSafe, CanonicalNames

\* APPEND is safe.
LEMMA AppendSafe ==
  ASSUME NEW c, c.name = "APPEND", c.key \in Keys, IsSeq(c.val)
  PROVE  Safe(c)
<1> DEFINE k == c.key
           bad(o) == AppendBad(o, c.val)
           new(o) == Object("string", o.at, o.val \o c.val)
<1>1. ASSUME NEW s, Start(s), NEW o, o = Found(s, k)
      PROVE  \E t : /\ Handler(s, c) = Reported(t)
                    /\ bad(o) => No(s, t, k)
                    /\ ~bad(o) => Yes(s, t, k, new(o))
  BY <1>1, AppendDoes, Dispatch DEF cmdAppend
<1> HIDE DEF new, bad
<1>2. ASSUME NEW o
      PROVE  \/ \A s : Start(s) /\ Found(s, k) = o => \E t : No(s, t, k) /\ Handler(s, c) = Reported(t)
             \/ \A s : Start(s) /\ Found(s, k) = o
                        => \E t : Yes(s, t, k, new(o)) /\ Handler(s, c) = Reported(t)
  BY <1>1
<1>3. Verbatim(c, k)
  BY <1>2 DEF Verbatim
<1>4. QED BY <1>3, VerbatimSafe, CanonicalNames

\* SETRANGE within the limit is safe.
LEMMA SetRangeSafe ==
  ASSUME NEW c, c.name = "SETRANGE", c.key \in Keys, c.n \in Nat, IsSeq(c.val), c.val # <<>>,
         ~(c.n + Len(c.val) > MaxStringLength)
  PROVE  Safe(c)
<1> DEFINE k == c.key
           bad(o) == WrongType(o, "string")
           new(o) == Object("string", o.at, RangeOf(o, c.n, c.val))
<1>1. ASSUME NEW s, Start(s), NEW o, o = Found(s, k)
      PROVE  \E t : /\ Handler(s, c) = Reported(t)
                    /\ bad(o) => No(s, t, k)
                    /\ ~bad(o) => Yes(s, t, k, new(o))
  BY <1>1, SetRangeDoes, Dispatch DEF cmdSetRange
<1> HIDE DEF new, bad
<1>2. ASSUME NEW o
      PROVE  \/ \A s : Start(s) /\ Found(s, k) = o => \E t : No(s, t, k) /\ Handler(s, c) = Reported(t)
             \/ \A s : Start(s) /\ Found(s, k) = o
                        => \E t : Yes(s, t, k, new(o)) /\ Handler(s, c) = Reported(t)
  BY <1>1
<1>3. Verbatim(c, k)
  BY <1>2 DEF Verbatim
<1>4. QED BY <1>3, VerbatimSafe, CanonicalNames

\* PERSIST is safe.
LEMMA PersistSafe ==
  ASSUME NEW c, c.name = "PERSIST", c.key \in Keys
  PROVE  Safe(c)
<1> DEFINE k == c.key
           bad(o) == o.at = 0
           new(o) == Until(o, 0)
<1>1. ASSUME NEW s, Start(s), NEW o, o = Found(s, k)
      PROVE  \E t : /\ Handler(s, c) = Reported(t)
                    /\ bad(o) => No(s, t, k)
                    /\ ~bad(o) => Yes(s, t, k, new(o))
  BY <1>1, PersistDoes, Dispatch DEF cmdPersist
<1> HIDE DEF new, bad
<1>2. ASSUME NEW o
      PROVE  \/ \A s : Start(s) /\ Found(s, k) = o => \E t : No(s, t, k) /\ Handler(s, c) = Reported(t)
             \/ \A s : Start(s) /\ Found(s, k) = o
                        => \E t : Yes(s, t, k, new(o)) /\ Handler(s, c) = Reported(t)
  BY <1>1
<1>3. Verbatim(c, k)
  BY <1>2 DEF Verbatim
<1>4. QED BY <1>3, VerbatimSafe, CanonicalNames

\* A command that does nothing at all.
LEMMA NothingSafe ==
  ASSUME NEW c, \A s : Start(s) => Handler(s, c) = s \/ \E r : Handler(s, c) = Return(s, r)
  PROVE  Safe(c)
<1>1. ASSUME NEW s, Start(s) PROVE At(s, Handler(s, c), {}, {}) /\ Logged(Handler(s, c), c) = <<>>
  <2>1. At(s, s, {}, {}) /\ IsCall(s) /\ Quiet(s)
    BY <1>1, StartAt DEF Start, Quiet
  <2>2. CASE Handler(s, c) = s
    BY <2>1, <2>2, QuietLogged
  <2>3. ASSUME NEW r, Handler(s, c) = Return(s, r) PROVE At(s, Handler(s, c), {}, {}) /\ Logged(Handler(s, c), c) = <<>>
    <3>1. PICK t : t = Return(s, r)
      OBVIOUS
    <3>2. SameTable(s, t) /\ t.eff = s.eff /\ t.dirty = s.dirty /\ t.err = s.err
      BY <2>1, <3>1, ReturnFacts
    <3>3. At(s, t, {}, {}) /\ Quiet(t)
      BY <2>1, <3>2, SameAt DEF Quiet
    <3>4. QED BY <2>3, <3>1, <3>3, QuietLogged
  <2>4. QED BY <1>1, <2>2, <2>3
<1>2. ASSUME NEW n \in Stills, NEW s, Leads(s, n) PROVE Faithful(c, s)
  <2>1. {} \subseteq Keys
    OBVIOUS
  <2>2. QED BY <1>1, <1>2, <2>1 DEF Leads, Faithful
<1>3. ASSUME NEW n \in Stills, NEW s1, NEW s2, Leads(s1, n), Leads(s2, n), Alike(s1, s2)
      PROVE  Alike(Handler(s1, c), Handler(s2, c))
  <2>1. At(s1, Handler(s1, c), {}, {}) /\ At(s2, Handler(s2, c), {}, {})
    BY <1>1, <1>3 DEF Leads
  <2>2. QED BY <1>3, <2>1, AtAlike DEF Leads
<1>4. QED BY <1>2, <1>3 DEF Safe

\* SETRANGE beyond the limit is refused before anything is looked up.
LEMMA SetRangeLong ==
  ASSUME NEW c, c.name = "SETRANGE", c.n + Len(c.val) > MaxStringLength
  PROVE  Safe(c)
<1>1. ASSUME NEW s, Start(s) PROVE \E r : Handler(s, c) = Return(s, r)
  <2>1. PICK t : t = Return(s, FALSE) /\ Handler(s, c) = Reported(t)
    BY Dispatch DEF cmdSetRange, SetRange
  <2>2. t.res = FALSE
    BY <1>1, <2>1 DEF Return, Start, IsCall
  <2>3. QED BY <2>1, <2>2 DEF Reported
<1>2. QED BY <1>1, NothingSafe

\* The effects that set and clear an instant.
LEMMA ExpireRedone ==
  ASSUME NEW s, Start(s), s.mode = "loading", NEW k \in Keys, NEW o, o = Found(s, k), o # Nil,
         NEW at \in 0 .. MaxNow + 1, NEW e, e.name = "PEXPIREAT", e.key = k, e.n = at, e.opts = {}
  PROVE  Puts(s, Handler(s, e), k, Until(o, at))
<1>1. absoluteExpiry(s, e) = at /\ expireConditionMet(o.at, at, e.opts)
  BY DEF absoluteExpiry, expireConditionMet
<1>2. PICK t : t = Expire(s, k, at, e.opts)
  OBVIOUS
<1>3. Puts(s, t, k, Until(o, at)) /\ t.res = "set" /\ Quiet(t) /\ IsCall(t)
  BY <1>1, <1>2, ExpireDoes
<1>4. PICK f : Handler(s, e) = Propagate(t, f)
  BY <1>1, <1>2, <1>3, Dispatch DEF cmdExpire
<1>5. QED BY <1>3, <1>4, PropagatedYes

\* The PERSIST that GETEX is logged as drops the instant again.
LEMMA PersistRedone ==
  ASSUME NEW s, Start(s), NEW k \in Keys, NEW o, o = Found(s, k), NEW e, e.name = "PERSIST", e.key = k
  PROVE  /\ o.at = 0 => Looks(s, Handler(s, e), k)
         /\ o.at # 0 => Puts(s, Handler(s, e), k, Until(o, 0))
<1>1. PICK t : t = Persist(s, k) /\ Handler(s, e) = Reported(t)
  BY Dispatch DEF cmdPersist
<1>2. CASE o.at = 0
  BY <1>1, <1>2, PersistDoes, ReportedNo
<1>3. CASE o.at # 0
  <2>1. Yes(s, t, k, Until(o, 0)) /\ e.name \notin Canonical
    BY <1>1, <1>3, PersistDoes, CanonicalNames
  <2>2. QED BY <1>1, <1>3, <2>1, ReportedYes
<1>4. QED BY <1>2, <1>3

\* PEXPIREAT is safe: it is logged with its instant and no condition, or as a DEL.
LEMMA ExpireSafe ==
  ASSUME NEW c, c.name = "PEXPIREAT", c.key \in Keys, c.n \in 0 .. MaxNow + 1, "PX" \notin c.opts
  PROVE  Safe(c)
<1> DEFINE k == c.key
           at == c.n
           set == [Command("PEXPIREAT", k) EXCEPT !.n = at]
           del == Command("DEL", k)
           bad(o) == o = Nil \/ ~expireConditionMet(o.at, at, c.opts)
<1>0. /\ set.name = "PEXPIREAT" /\ set.key = k /\ set.n = at /\ set.opts = {}
      /\ del.name = "DEL" /\ del.key = k /\ del.dst = k
  BY DEF Command
<1>1. ASSUME NEW n, NEW s, Leads(s, n), NEW o, o = Found(s, k), NEW u, u = Handler(s, c)
      PROVE  /\ bad(o) => Looks(s, u, k) /\ Logged(u, c) = <<>>
             /\ ~bad(o) /\ at <= n.at[k] => Puts(s, u, k, Nil) /\ Logged(u, c) = <<del>>
             /\ ~bad(o) /\ ~(at <= n.at[k]) => Puts(s, u, k, Until(o, at)) /\ Logged(u, c) = <<set>>
  <2>0. PICK t : t = Expire(s, k, at, c.opts)
    OBVIOUS
  <2>1. u = CASE t.res = "set" -> Propagate(t, set)
              [] t.res = "deleted" -> Propagate(t, del)
              [] OTHER -> t
    BY <1>1, <2>0, Dispatch DEF cmdExpire, absoluteExpiry
  <2>2. Quiet(t) /\ IsCall(t) /\ Start(s) /\ s.clock = n /\ s.mode = "leader"
    BY <1>1, <2>0, ExpireDoes DEF Leads
  <2>02. Now(s, k) = n.at[k]
    BY <2>2 DEF Now
  <2> HIDE DEF set, del
  <2>3. CASE bad(o)
    <3>1. Looks(s, t, k) /\ t.res = "no"
      BY <1>1, <2>0, <2>2, <2>3, ExpireDoes
    <3>2. QED BY <2>1, <2>2, <2>3, <3>1, QuietLogged
  <2>4. CASE ~bad(o) /\ at <= n.at[k]
    <3>0. o # Nil /\ expireConditionMet(o.at, at, c.opts) /\ at <= Now(s, k) /\ s.mode # "loading"
      BY <2>2, <2>02, <2>4
    <3>1. Puts(s, t, k, Nil) /\ t.res = "deleted"
      BY <1>1, <2>0, <2>2, <3>0, ExpireDoes
    <3>2. u = Propagate(t, del)
      BY <2>1, <3>1
    <3>3. QED BY <2>2, <2>4, <3>1, <3>2, PropagatedYes
  <2>5. CASE ~bad(o) /\ ~(at <= n.at[k])
    <3>0. o # Nil /\ expireConditionMet(o.at, at, c.opts) /\ ~(at <= Now(s, k) /\ s.mode # "loading")
      BY <2>2, <2>02, <2>5
    <3>1. Puts(s, t, k, Until(o, at)) /\ t.res = "set"
      BY <1>1, <2>0, <2>2, <3>0, ExpireDoes
    <3>2. u = Propagate(t, set)
      BY <2>1, <3>1
    <3>3. QED BY <2>2, <2>5, <3>1, <3>2, PropagatedYes
  <2>6. QED BY <2>3, <2>4, <2>5
<1> HIDE DEF set, del
<1>2. ASSUME NEW o, NEW n \in Stills, GoodObj(o)
      PROVE  Idle(c, k, o, n) \/ \E f, new : Does(c, k, o, n, f, new)
  <2>1. CASE bad(o)
    BY <1>1, <2>1 DEF Idle
  <2>2. CASE ~bad(o) /\ at <= n.at[k]
    <3>1. ASSUME NEW s, Start(s), Found(s, k) = o PROVE Puts(s, Handler(s, del), k, Nil)
      BY <1>0, <2>2, <3>1, DelOneKey
    <3>2. Does(c, k, o, n, del, Nil)
      BY <1>1, <2>2, <3>1 DEF Does
    <3>3. QED BY <3>2
  <2>3. CASE ~bad(o) /\ ~(at <= n.at[k])
    <3>1. ASSUME NEW s, Start(s), s.mode = "loading", Found(s, k) = o
          PROVE  Puts(s, Handler(s, set), k, Until(o, at))
      BY <1>0, <2>3, <3>1, ExpireRedone
    <3>2. Does(c, k, o, n, set, Until(o, at))
      BY <1>1, <2>3, <3>1 DEF Does
    <3>3. QED BY <3>2
  <2>4. QED BY <2>1, <2>2, <2>3
<1>3. QED BY <1>2, OneKeySafe DEF OneKey

\* A call that changed nothing and names an effect all the same.
LEMMA PropagatedOk ==
  ASSUME NEW s, NEW t, NEW k, Looks(s, t, k), Quiet(t), IsCall(t), NEW c, NEW e,
         NEW u, u = Propagate(t, e)
  PROVE  Looks(s, u, k) /\ Logged(u, c) = <<e>>
<1>2. SameTable(t, u) /\ u.eff = Append(t.eff, e)
  BY PropagateFacts
<1>3. Looks(s, u, k)
  BY <1>2, SamePuts
<1>4. Logged(u, c) = <<e>>
  BY <1>2 DEF Logged, Quiet
<1>5. QED BY <1>3, <1>4

\* GETEX is safe: it is logged as the PEXPIREAT, the PERSIST or the DEL it amounts to.
LEMMA GetExSafe ==
  ASSUME NEW c, c.name = "GETEX", c.key \in Keys, c.n \in 0 .. MaxNow + 1, "PX" \notin c.opts
  PROVE  Safe(c)
<1> DEFINE k == c.key
           at == c.n
           persist == "PERSIST" \in c.opts
           set == [Command("PEXPIREAT", k) EXCEPT !.n = at]
           del == Command("DEL", k)
           per == Command("PERSIST", k)
           str(o) == o.type = "string"
<1>0. /\ set.name = "PEXPIREAT" /\ set.key = k /\ set.n = at /\ set.opts = {}
      /\ del.name = "DEL" /\ del.key = k /\ del.dst = k
      /\ per.name = "PERSIST" /\ per.key = k
  BY DEF Command
<1>00. at \in Nat
  BY EffectsAssumption
<1>1. ASSUME NEW n \in Stills, NEW s, Leads(s, n), NEW o, o = Found(s, k), NEW u, u = Handler(s, c)
      PROVE  /\ ~str(o) => Looks(s, u, k) /\ Logged(u, c) = <<>>
             /\ str(o) /\ persist /\ o.at # 0 => Puts(s, u, k, Until(o, 0)) /\ Logged(u, c) = <<per>>
             /\ str(o) /\ persist /\ o.at = 0 => Looks(s, u, k) /\ Logged(u, c) = <<per>>
             /\ str(o) /\ ~persist /\ at > 0 /\ at <= n.at[k] => Puts(s, u, k, Nil) /\ Logged(u, c) = <<del>>
             /\ str(o) /\ ~persist /\ at > n.at[k] => Puts(s, u, k, Until(o, at)) /\ Logged(u, c) = <<set>>
             /\ str(o) /\ ~persist /\ at = 0 => Looks(s, u, k) /\ Logged(u, c) = <<>>
  <2>0. PICK t, p : p = persist /\ t = GetEx(s, k, at, persist) /\ t = GetEx(s, k, at, p)
    OBVIOUS
  <2>2. Start(s) /\ s.clock = n /\ s.mode = "leader" /\ n.at[k] \in Nat /\ Now(s, k) = n.at[k]
    BY <1>1 DEF Leads, Start, Still, Now
  <2>3. /\ o.type # "string" => No(s, t, k)
        /\ o.type = "string" /\ persist /\ o.at # 0 => Yes(s, t, k, Until(o, 0))
        /\ o.type = "string" /\ persist /\ o.at = 0 => Ok(s, t, k)
        /\ o.type = "string" /\ ~persist /\ at > 0 /\ at <= n.at[k] => Yes(s, t, k, Nil)
        /\ o.type = "string" /\ ~persist /\ at > n.at[k] => Yes(s, t, k, Until(o, at))
        /\ o.type = "string" /\ ~persist /\ at = 0 => Ok(s, t, k)
    <3>1. /\ o.type # "string" => No(s, t, k)
          /\ o.type = "string" /\ p /\ o.at # 0 => Yes(s, t, k, Until(o, 0))
          /\ o.type = "string" /\ p /\ o.at = 0 => Ok(s, t, k)
          /\ o.type = "string" /\ ~p /\ at > 0 /\ at <= n.at[k] => Yes(s, t, k, Nil)
          /\ o.type = "string" /\ ~p /\ at > n.at[k] => Yes(s, t, k, Until(o, at))
          /\ o.type = "string" /\ ~p /\ at = 0 => Ok(s, t, k)
      <4> HIDE DEF persist
      <4>1. QED BY <1>1, <2>0, <2>2, GetExDoes
    <3>2. QED BY <2>0, <3>1
  <2>4. ASSUME NEW x, Puts(s, t, k, x) \/ Looks(s, t, k)
        PROVE  Now(Reading(t, k), k) = n.at[k]
    <3>1. t.clock = s.clock
      BY <2>4 DEF Puts, Looks, At
    <3>2. QED BY <2>2, <3>1, StillFacts DEF Start, Now
  <2>1. u = CASE t.res /\ persist -> Propagate(t, per)
              [] t.res /\ ~persist /\ at # 0 /\ at <= Now(Reading(t, k), k) -> Propagate(t, del)
              [] t.res /\ ~persist /\ at > Now(Reading(t, k), k) -> Propagate(t, set)
              [] OTHER -> t
    BY <1>1, <2>0, Dispatch DEF cmdGetEx, absoluteExpiry
  <2> HIDE DEF set, del, per, persist
  <2>5. CASE ~str(o)
    <3>1. No(s, t, k)
      BY <2>3, <2>5
    <3>2. u = t
      BY <2>1, <3>1 DEF No
    <3>3. QED BY <2>5, <3>1, <3>2, QuietLogged DEF No
  <2>6. CASE str(o) /\ persist /\ o.at # 0
    <3>1. Yes(s, t, k, Until(o, 0))
      BY <2>3, <2>6
    <3>2. u = Propagate(t, per)
      BY <2>1, <2>6, <3>1 DEF Yes
    <3>3. QED BY <2>6, <3>1, <3>2, PropagatedYes DEF Yes
  <2>7. CASE str(o) /\ persist /\ o.at = 0
    <3>1. Ok(s, t, k)
      BY <2>3, <2>7
    <3>2. u = Propagate(t, per)
      BY <2>1, <2>7, <3>1 DEF Ok
    <3>3. QED BY <2>7, <3>1, <3>2, PropagatedOk DEF Ok
  <2>8. CASE str(o) /\ ~persist /\ at > 0 /\ at <= n.at[k]
    <3>1. Yes(s, t, k, Nil)
      BY <2>3, <2>8
    <3>0. Now(Reading(t, k), k) = n.at[k]
      BY <2>4, <3>1 DEF Yes
    <3>2. u = Propagate(t, del)
      BY <1>00, <2>1, <2>2, <2>8, <3>0, <3>1 DEF Yes
    <3>4. Puts(s, u, k, Nil) /\ Logged(u, c) = <<del>>
      BY <3>1, <3>2, PropagatedYes DEF Yes
    <3>3. QED BY <1>00, <2>2, <2>8, <3>4
  <2>9. CASE str(o) /\ ~persist /\ at > n.at[k]
    <3>1. Yes(s, t, k, Until(o, at))
      BY <2>3, <2>9
    <3>0. Now(Reading(t, k), k) = n.at[k]
      BY <2>4, <3>1 DEF Yes
    <3>2. u = Propagate(t, set)
      BY <1>00, <2>1, <2>2, <2>9, <3>0, <3>1 DEF Yes
    <3>4. Puts(s, u, k, Until(o, at)) /\ Logged(u, c) = <<set>>
      BY <3>1, <3>2, PropagatedYes DEF Yes
    <3>3. QED BY <1>00, <2>2, <2>9, <3>4
  <2>10. CASE str(o) /\ ~persist /\ at = 0
    <3>1. Ok(s, t, k)
      BY <2>3, <2>10
    <3>0. Now(Reading(t, k), k) = n.at[k]
      BY <2>4, <3>1 DEF Ok
    <3>2. u = t
      BY <1>00, <2>1, <2>2, <2>10, <3>0, <3>1 DEF Ok
    <3>4. Looks(s, u, k) /\ Logged(u, c) = <<>>
      BY <3>1, <3>2, QuietLogged DEF Ok
    <3>3. QED BY <1>00, <2>2, <2>10, <3>4
  <2>11. QED BY <1>00, <2>2, <2>5, <2>6, <2>7, <2>8, <2>9, <2>10
<1> HIDE DEF set, del, per, persist
<1>2. ASSUME NEW o, NEW n \in Stills, GoodObj(o)
      PROVE  \/ Idle(c, k, o, n)
             \/ \E f, new : Does(c, k, o, n, f, new)
             \/ \E f : Notes(c, k, o, n, f)
  <2>1. CASE ~str(o) \/ (~persist /\ at = 0)
    BY <1>1, <2>1 DEF Idle
  <2>2. CASE str(o) /\ persist /\ o.at # 0
    <3>1. Does(c, k, o, n, per, Until(o, 0))
      BY <1>0, <1>1, <2>2, PersistRedone DEF Does
    <3>3. QED BY <3>1
  <2>3. CASE str(o) /\ persist /\ o.at = 0
    <3>1. Notes(c, k, o, n, per)
      BY <1>0, <1>1, <2>3, PersistRedone DEF Notes
    <3>3. QED BY <3>1
  <2>4. CASE str(o) /\ ~persist /\ at > 0 /\ at <= n.at[k]
    <3>1. ASSUME NEW s, Start(s), Found(s, k) = o PROVE Puts(s, Handler(s, del), k, Nil)
      BY <1>0, <2>4, <3>1, DelOneKey, NilFacts
    <3>2. Does(c, k, o, n, del, Nil)
      BY <1>1, <2>4, <3>1 DEF Does
    <3>3. QED BY <3>2
  <2>5. CASE str(o) /\ ~persist /\ at > n.at[k]
    <3>1. ASSUME NEW s, Start(s), s.mode = "loading", Found(s, k) = o
          PROVE  Puts(s, Handler(s, set), k, Until(o, at))
      BY <1>0, <2>5, <3>1, ExpireRedone, NilFacts
    <3>2. Does(c, k, o, n, set, Until(o, at))
      BY <1>1, <2>5, <3>1 DEF Does
    <3>3. QED BY <3>2
  <2>6. n.at[k] \in Nat
    BY DEF Stills
  <2>7. \/ at = 0
        \/ at > 0 /\ at <= n.at[k]
        \/ at > n.at[k]
    BY <1>00, <2>6
  <2>8. QED BY <2>1, <2>2, <2>3, <2>4, <2>5, <2>7, Zenon
<1>3. QED BY <1>2, OneKeySafe DEF OneKey

\* INCRBYFLOAT is safe: it is logged as a SET of the sum that keeps the instant.
LEMMA IncrByFloatSafe ==
  ASSUME NEW c, c.name = "INCRBYFLOAT", c.key \in Keys
  PROVE  Safe(c)
<1> DEFINE k == c.key
           bad(o) == IncrBad(o, c.n)
           val(o) == <<Cur(o) + c.n>>
           new(o) == Object("string", o.at, val(o))
           eff(v) == [Command("SET", k) EXCEPT !.val = v, !.opts = {"KEEPTTL"}]
<1>0. ASSUME NEW v
      PROVE  eff(v).name = "SET" /\ eff(v).key = k /\ eff(v).val = v /\ eff(v).n = 0
             /\ eff(v).opts = {"KEEPTTL"}
  BY DEF Command
<1>1. ASSUME NEW s, Start(s), NEW o, o = Found(s, k), NEW u, u = Handler(s, c)
      PROVE  /\ bad(o) => Looks(s, u, k) /\ Logged(u, c) = <<>>
             /\ ~bad(o) => Puts(s, u, k, new(o)) /\ Logged(u, c) = <<eff(val(o))>>
  <2>1. PICK t, v, w : /\ t = IncrBy(s, k, c.n) /\ v = IF t.res THEN t.obj[k].val ELSE <<>>
                       /\ w = Return(t, v)
    OBVIOUS
  <2>2. u = IF w.res # <<>> THEN Propagate(w, eff(w.res)) ELSE w
    BY <1>1, <2>1, Dispatch DEF cmdIncrByFloat, IncrByFloat
  <2>3. CASE bad(o)
    <3>1. No(s, t, k)
      BY <1>1, <2>1, <2>3, IncrByDoes
    <3>2. v = <<>> /\ IsCall(t)
      BY <2>1, <3>1 DEF No
    <3>3. w.res = <<>> /\ SameTable(t, w) /\ w.eff = t.eff /\ w.dirty = t.dirty /\ w.err = t.err
      BY <2>1, <3>2, ReturnFacts, SMTT(30)
    <3>4. u = w /\ Quiet(w) /\ Looks(s, w, k)
      BY <2>2, <3>1, <3>3, SamePuts DEF No, Quiet
    <3>5. QED BY <2>3, <3>4, QuietLogged
  <2>4. CASE ~bad(o)
    <3>1. Yes(s, t, k, new(o))
      BY <1>1, <2>1, <2>4, IncrByDoes
    <3>2. v = val(o) /\ IsCall(t)
      BY <2>1, <3>1, ObjectFacts DEF Yes, Puts
    <3> HIDE DEF eff
    <3>03. IsCall(t) /\ w = Return(t, v)
      BY <2>1, <3>2
    <3>003. w.res = v /\ SameTable(t, w) /\ w.eff = t.eff /\ w.dirty = t.dirty /\ w.err = t.err
      BY ONLY <3>03, ReturnFacts
    <3>3. w.res = val(o) /\ SameTable(t, w) /\ w.eff = t.eff /\ w.dirty = t.dirty /\ w.err = t.err
      BY <3>2, <3>003, Zenon
    <3>4. Quiet(w) /\ Puts(s, w, k, new(o)) /\ IsCall(w)
      BY <3>1, <3>3, SamePuts DEF Yes, Quiet, SameTable
    <3>5. val(o) # <<>>
      OBVIOUS
    <3>6. u = Propagate(w, eff(val(o)))
      BY <2>2, <3>3, <3>5
    <3>7. QED BY <2>4, <3>4, <3>6, PropagatedYes
  <2>5. QED BY <2>3, <2>4
<1> HIDE DEF eff
<1>2. ASSUME NEW s, Start(s), NEW o, o = Found(s, k), ~bad(o)
      PROVE  Puts(s, Handler(s, eff(val(o))), k, new(o))
  <2>1. PICK v, e : v = val(o) /\ e = eff(v) /\ IsSeq(v) /\ Len(v) = 1
    BY OneSeq
  <2>2. e.name = "SET" /\ e.key = k /\ e.val = v /\ e.n = 0 /\ e.opts = {"KEEPTTL"}
    BY <1>0, <2>1
  <2>3. 0 \in 0 .. MaxNow + 1 /\ 0 = absoluteExpiry(s, e) /\ Len(v) <= MaxStringLength
    BY <2>1, <2>2, EffectsAssumption DEF absoluteExpiry
  <2>4. ~SetRefused(o, e.opts) /\ SetWhen(o, e.opts, 0) = o.at
    BY <2>2 DEF SetRefused, SetWhen
  <2>5. Puts(s, Handler(s, e), k, Object("string", o.at, v))
    <3>1. PICK h, at : h = cmdSet(s, e) /\ at = 0 /\ at \in 0 .. MaxNow + 1 /\ at = absoluteExpiry(s, e)
      BY <2>3
    <3>2. Puts(s, h, e.key, Object("string", SetWhen(o, e.opts, at), e.val))
      BY <1>2, <2>1, <2>2, <2>3, <2>4, <3>1, CmdSet
    <3>3. QED BY <2>2, <2>4, <3>1, <3>2, Dispatch
  <2>6. QED BY <2>1, <2>5
<1> HIDE DEF bad, new, val
<1>3. ASSUME NEW o, NEW n \in Stills, GoodObj(o)
      PROVE  Idle(c, k, o, n) \/ \E f, x : Does(c, k, o, n, f, x)
  <2>1. CASE bad(o)
    BY <1>1, <2>1 DEF Idle, Leads
  <2>2. CASE ~bad(o)
    <3>1. Does(c, k, o, n, eff(val(o)), new(o))
      BY <1>1, <1>2, <2>2 DEF Does, Leads
    <3>2. QED BY <3>1
  <2>3. QED BY <2>1, <2>2
<1>4. QED BY <1>3, OneKeySafe DEF OneKey

\* A nonempty set of numbers has a least element.
LEMMA LeastNat ==
  ASSUME NEW T, T \subseteq Nat, T # {}
  PROVE  \E x \in T : \A y \in T : x <= y
<1> DEFINE R == OpToRel(<, Nat)
<1>1. IsWellFoundedOn(R, Nat)
  BY NatLessThanWellFounded
<1>2. R = {ss \in Nat \X Nat : ss[1] < ss[2]}
  BY Zenon DEF OpToRel
<1> HIDE DEF R
<1>3. PICK x \in T : \A y \in T : ~(<<y, x>> \in R)
  BY <1>1, WFMin, Zenon
<1>4. ASSUME NEW y \in T PROVE x <= y
  <2>1. x \in Nat /\ y \in Nat
    OBVIOUS
  <2>2. <<y, x>> \in Nat \X Nat /\ <<y, x>>[1] = y /\ <<y, x>>[2] = x
    BY <2>1
  <2>3. ~(y < x)
    BY <1>2, <1>3, <1>4, <2>2
  <2>4. QED BY <2>1, <2>3
<1>5. QED BY <1>4

-----------------------------------------------------------------------------
(* Lists.                                                                  *)

\* Any sequence is a list, or an empty collection.
LEMMA ListFits == ASSUME NEW v, IsSeq(v) PROVE Fits("list", v) /\ "list" \in Collections
BY DEF Fits, Shape, Collections

\* The value of a list is a sequence that is not empty.
LEMMA ListVal ==
  ASSUME NEW o, GoodObj(o), o.type = "list"
  PROVE  IsSeq(o.val) /\ Len(o.val) \in Nat /\ Len(o.val) > 0 /\ DOMAIN o.val = 1 .. Len(o.val)
         /\ \E S : o.val \in Seq(S)
<1>1. IsSeq(o.val) /\ DOMAIN o.val # {}
  BY GoodFacts, NilFacts DEF Proper, Shape
<1>2. Len(o.val) \in Nat /\ DOMAIN o.val = 1 .. Len(o.val)
  BY <1>1, IsSeqLen
<1>3. QED BY <1>1, <1>2, IsSeqIn

\* A list with an end taken off is a sequence.
LEMMA PopSeq ==
  ASSUME NEW v, IsSeq(v), Len(v) > 0, NEW front
  PROVE  IsSeq(Popped(v, front))
<1>1. PICK S : v \in Seq(S)
  BY IsSeqIn
<1>2. IsSeq(Tail(v))
  <2>1. Tail(v) \in Seq(S)
    BY <1>1
  <2>2. QED BY <2>1, SeqIs
<1>3. IsSeq(SubSeq(v, 1, Len(v) - 1))
  BY <1>1, SubSeqSeq
<1>4. QED BY <1>2, <1>3 DEF Popped, Front

\* LPush extends a list, or makes one unless the key must exist.
LEMMA LPushDoes ==
  ASSUME NEW s, Start(s), NEW k \in Keys, NEW o, o = Found(s, k), NEW v, IsSeq(v), NEW front,
         NEW must, NEW t, t = LPush(s, k, v, front, must)
  PROVE  /\ WrongType(o, "list") \/ (must /\ o = Nil) => No(s, t, k)
         /\ ~(WrongType(o, "list") \/ (must /\ o = Nil)) =>
              Yes(s, t, k, Put(o, "list", Push(o.val, v, front)))
<1>0. Found(lookup(s, k), k) = o /\ GoodObj(o)
  BY FoundAgain
<1>1. CASE WrongType(o, "list") \/ (must /\ o = Nil)
  <2>1. t = Return(lookup(s, k), FALSE)
    BY <1>0, <1>1 DEF LPush
  <2>2. QED BY <1>1, <2>1, LookupNo
<1>2. CASE ~(WrongType(o, "list") \/ (must /\ o = Nil))
  <2>1. t = Return(Change(lookup(s, k), k, "list", Push(o.val, v, front)), TRUE)
    BY <1>0, <1>2 DEF LPush
  <2>2. o.type \in {"none", "list"} /\ (o = Nil \/ o.type = "list")
    BY <1>0, <1>2, GoodFacts DEF WrongType
  <2>3. IsSeq(Push(o.val, v, front))
    BY <1>0, <2>2, ValSeq, ConcatSeq DEF Push
  <2>4. QED BY <1>2, <2>1, <2>2, <2>3, ListFits, ChangeYes
<1>3. QED BY <1>1, <1>2

\* LPop takes an end off a list.
LEMMA LPopDoes ==
  ASSUME NEW s, Start(s), NEW k \in Keys, NEW o, o = Found(s, k), NEW front,
         NEW t, t = LPop(s, k, front)
  PROVE  /\ o.type # "list" => No(s, t, k)
         /\ o.type = "list" => Yes(s, t, k, Put(o, "list", Popped(o.val, front)))
<1>0. Found(lookup(s, k), k) = o /\ GoodObj(o)
  BY FoundAgain
<1>1. CASE o.type # "list"
  <2>1. t = Return(lookup(s, k), FALSE)
    BY <1>0, <1>1 DEF LPop
  <2>2. QED BY <1>1, <2>1, LookupNo
<1>2. CASE o.type = "list"
  <2>1. t = Return(Change(lookup(s, k), k, "list", Popped(o.val, front)), TRUE)
    BY <1>0, <1>2 DEF LPop
  <2>2. IsSeq(Popped(o.val, front))
    BY <1>0, <1>2, ListVal, PopSeq
  <2>3. QED BY <1>2, <2>1, <2>2, ListFits, ChangeYes
<1>3. QED BY <1>1, <1>2

\* When LSet refuses, and the list it leaves.
LSetBad(o, i) == o.type # "list" \/ Index(i, Len(o.val)) \notin DOMAIN o.val
LSetVal(o, i, v) == [o.val EXCEPT ![Index(i, Len(o.val))] = v]

\* LSet replaces an element whose index is in range.
LEMMA LSetDoes ==
  ASSUME NEW s, Start(s), NEW k \in Keys, NEW o, o = Found(s, k), NEW i, NEW v,
         NEW t, t = LSet(s, k, i, v)
  PROVE  /\ LSetBad(o, i) => No(s, t, k)
         /\ ~LSetBad(o, i) => Yes(s, t, k, Put(o, "list", LSetVal(o, i, v)))
<1>0. Found(lookup(s, k), k) = o /\ GoodObj(o)
  BY FoundAgain
<1>1. CASE LSetBad(o, i)
  <2>1. t = Return(lookup(s, k), FALSE)
    BY <1>0, <1>1 DEF LSet, LSetBad
  <2>2. QED BY <1>1, <2>1, LookupNo
<1>2. CASE ~LSetBad(o, i)
  <2>1. t = Return(Change(lookup(s, k), k, "list", LSetVal(o, i, v)), TRUE)
    BY <1>0, <1>2 DEF LSet, LSetBad, LSetVal
  <2>2. o.type = "list"
    BY <1>2 DEF LSetBad
  <2>3. IsSeq(LSetVal(o, i, v))
    <3>1. PICK n \in Nat : o.val = [j \in 1 .. n |-> o.val[j]]
      BY <1>0, <2>2, ListVal DEF IsSeq
    <3>2. PICK w : w = LSetVal(o, i, v)
      OBVIOUS
    <3>3. w = [j \in 1 .. n |-> w[j]]
      BY <3>1, <3>2 DEF LSetVal
    <3>4. QED BY <3>2, <3>3, MakeSeq
  <2>4. QED BY <1>2, <2>1, <2>2, <2>3, ListFits, ChangeYes
<1>3. QED BY <1>1, <1>2

\* Where LInsert finds its pivot, when it refuses, and the list it leaves.
PivotAt(q, pivot) == SelectInSeq(q, LAMBDA e : e = pivot)
LInsertBad(o, pivot) == o.type # "list" \/ PivotAt(o.val, pivot) = 0
LInsertVal(o, pivot, v, before) ==
  InsertAt(o.val, IF before THEN PivotAt(o.val, pivot) ELSE PivotAt(o.val, pivot) + 1, v)

\* The position of the pivot is a number.
LEMMA PivotNat == ASSUME NEW q, Len(q) \in Nat, NEW p PROVE PivotAt(q, p) \in Nat
<1> DEFINE I == {i \in 1 .. Len(q) : q[i] = p}
<1>1. PivotAt(q, p) = IF I # {} THEN Min(I) ELSE 0
  BY DEF SelectInSeq, PivotAt
<1>2. I \subseteq Nat
  OBVIOUS
<1> HIDE DEF I
<1>3. ASSUME I # {} PROVE Min(I) \in Nat
  <2>1. \E x \in I : \A y \in I : x <= y
    BY <1>2, <1>3, LeastNat
  <2>2. QED BY <1>2, <2>1 DEF Min
<1>4. QED BY <1>1, <1>3

\* A list with an element inserted is a sequence.
LEMMA InsertSeq == ASSUME NEW v, IsSeq(v), NEW i \in Nat, NEW e PROVE IsSeq(InsertAt(v, i, e))
<1>1. IsSeq(SubSeq(v, 1, i - 1)) /\ IsSeq(SubSeq(v, i, Len(v))) /\ IsSeq(<<e>>)
  BY SubSeqSeq, IsSeqLen, OneSeq
<1>2. QED BY <1>1, ConcatSeq DEF InsertAt

\* LInsert inserts beside the pivot, if there is one.
LEMMA LInsertDoes ==
  ASSUME NEW s, Start(s), NEW k \in Keys, NEW o, o = Found(s, k), NEW pivot, NEW v, NEW before,
         NEW t, t = LInsert(s, k, pivot, v, before)
  PROVE  /\ LInsertBad(o, pivot) => No(s, t, k)
         /\ ~LInsertBad(o, pivot) => Yes(s, t, k, Put(o, "list", LInsertVal(o, pivot, v, before)))
<1>0. Found(lookup(s, k), k) = o /\ GoodObj(o)
  BY FoundAgain
<1>00. t = IF o.type # "list" \/ PivotAt(o.val, pivot) = 0
             THEN Return(lookup(s, k), FALSE)
             ELSE Return(Change(lookup(s, k), k, "list", LInsertVal(o, pivot, v, before)), TRUE)
  <2>1. LET u == lookup(s, k)
            p == Found(u, k)
        IN  t = IF p.type # "list" \/ PivotAt(p.val, pivot) = 0
                  THEN Return(u, FALSE)
                  ELSE Return(Change(u, k, "list", LInsertVal(p, pivot, v, before)), TRUE)
    BY DEF LInsert, PivotAt, LInsertVal, SelectInSeq
  <2>2. QED BY <1>0, <2>1
<1>1. CASE LInsertBad(o, pivot)
  <2>1. t = Return(lookup(s, k), FALSE)
    BY <1>00, <1>1 DEF LInsertBad
  <2>2. QED BY <1>1, <2>1, LookupNo
<1>2. CASE ~LInsertBad(o, pivot)
  <2>1. t = Return(Change(lookup(s, k), k, "list", LInsertVal(o, pivot, v, before)), TRUE)
    BY <1>00, <1>2 DEF LInsertBad
  <2>2. o.type = "list"
    BY <1>2 DEF LInsertBad
  <2>3. IsSeq(LInsertVal(o, pivot, v, before))
    <3>1. PivotAt(o.val, pivot) \in Nat /\ IsSeq(o.val)
      BY <1>0, <2>2, ListVal, PivotNat
    <3>2. QED BY <3>1, InsertSeq DEF LInsertVal
  <2>4. QED BY <1>2, <2>1, <2>2, <2>3, ListFits, ChangeYes
<1>3. QED BY <1>1, <1>2

\* The positions LRem matches, those it removes, and the list it leaves.
Matches(o, v) == {i \in DOMAIN o.val : o.val[i] = v}
LRemGone(o, count, v) ==
  {i \in Matches(o, v) :
     \/ count = 0
     \/ count > 0 /\ Cardinality({j \in Matches(o, v) : j <= i}) <= count
     \/ count < 0 /\ Cardinality({j \in Matches(o, v) : j >= i}) <= -count}
LRemVal(o, count, v) ==
  LET keep == Ordered(DOMAIN o.val \ LRemGone(o, count, v), <=)
  IN  [i \in DOMAIN keep |-> o.val[keep[i]]]
LRemBad(o, v) == o.type # "list" \/ Matches(o, v) = {}

\* LRem removes the matches it is asked to, if there is one.
LEMMA LRemDoes ==
  ASSUME NEW s, Start(s), NEW k \in Keys, NEW o, o = Found(s, k), NEW count, NEW v,
         NEW t, t = LRem(s, k, count, v)
  PROVE  /\ LRemBad(o, v) => No(s, t, k)
         /\ ~LRemBad(o, v) => Yes(s, t, k, Put(o, "list", LRemVal(o, count, v)))
<1>0. Found(lookup(s, k), k) = o /\ GoodObj(o)
  BY FoundAgain
<1>00. t = IF o.type # "list" \/ Matches(o, v) = {}
             THEN Return(lookup(s, k), FALSE)
             ELSE Return(Change(lookup(s, k), k, "list", LRemVal(o, count, v)), TRUE)
  <2>1. LET u == lookup(s, k)
            p == Found(u, k)
        IN  t = IF p.type # "list" \/ Matches(p, v) = {}
                  THEN Return(u, FALSE)
                  ELSE Return(Change(u, k, "list", LRemVal(p, count, v)), TRUE)
    BY DEF LRem, Matches, LRemGone, LRemVal, Ordered
  <2>2. QED BY <1>0, <2>1
<1>1. CASE LRemBad(o, v)
  <2>1. t = Return(lookup(s, k), FALSE)
    BY <1>00, <1>1 DEF LRemBad
  <2>2. QED BY <1>1, <2>1, LookupNo
<1>2. CASE ~LRemBad(o, v)
  <2>1. t = Return(Change(lookup(s, k), k, "list", LRemVal(o, count, v)), TRUE)
    BY <1>00, <1>2 DEF LRemBad
  <2>2. o.type = "list"
    BY <1>2 DEF LRemBad
  <2>3. IsSeq(LRemVal(o, count, v))
    <3>1. PICK K : K = DOMAIN o.val \ LRemGone(o, count, v)
      OBVIOUS
    <3>2. IsFiniteSet(DOMAIN o.val)
      BY <1>0, <2>2, ListVal, FS_Interval
    <3>3. Cardinality(K) \in Nat
      BY <3>1, <3>2, FS_Subset, FS_CardinalityType
    <3>4. PICK w : w = LRemVal(o, count, v)
      OBVIOUS
    <3>5. w = [i \in 1 .. Cardinality(K) |-> w[i]]
      BY <3>1, <3>4 DEF LRemVal, Ordered
    <3>6. QED BY <3>3, <3>4, <3>5, MakeSeq
  <2>4. QED BY <1>2, <2>1, <2>2, <2>3, ListFits, ChangeYes
<1>3. QED BY <1>1, <1>2

\* The list LTrim leaves.
TrimVal(o, start, stop) ==
  LET r == clampRange(start, stop, Len(o.val)) IN SubSeq(o.val, r.lo, r.hi)

\* LTrim keeps a range of a list.
LEMMA LTrimDoes ==
  ASSUME NEW s, Start(s), NEW k \in Keys, NEW o, o = Found(s, k), NEW start \in Int, NEW stop \in Int,
         NEW t, t = LTrim(s, k, start, stop)
  PROVE  /\ WrongType(o, "list") => No(s, t, k)
         /\ o = Nil => Ok(s, t, k)
         /\ o.type = "list" => Yes(s, t, k, Put(o, "list", TrimVal(o, start, stop)))
<1>0. Found(lookup(s, k), k) = o /\ GoodObj(o)
  BY FoundAgain
<1>1. CASE WrongType(o, "list")
  <2>1. t = Return(lookup(s, k), FALSE)
    BY <1>0, <1>1, NilFacts DEF LTrim, WrongType
  <2>2. QED BY <1>1, <2>1, LookupNo, NilFacts DEF WrongType
<1>2. CASE o = Nil
  <2>1. t = Return(lookup(s, k), TRUE)
    BY <1>0, <1>2, NilFacts DEF LTrim, WrongType
  <2>2. QED BY <1>2, <2>1, LookupYes, NilFacts DEF Ok, WrongType
<1>3. CASE o.type = "list"
  <2>1. t = Return(Change(lookup(s, k), k, "list", TrimVal(o, start, stop)), TRUE)
    BY <1>0, <1>3, NilFacts DEF LTrim, WrongType, TrimVal
  <2>2. IsSeq(TrimVal(o, start, stop))
    <3>1. PICK r : r = clampRange(start, stop, Len(o.val))
      OBVIOUS
    <3>2. r.lo \in Int /\ r.hi \in Int /\ IsSeq(o.val)
      BY <1>0, <1>3, <3>1, ListVal DEF clampRange
    <3>3. QED BY <3>1, <3>2, SubSeqSeq DEF TrimVal
  <2>3. Yes(s, t, k, Put(o, "list", TrimVal(o, start, stop)))
    BY <1>3, <2>1, <2>2, ListFits, ChangeYes
  <2>4. QED BY <1>3, <2>3, NilFacts DEF WrongType
<1>4. QED BY <1>1, <1>2, <1>3

\* LPUSH and its other spellings are safe.
LEMMA LPushSafe ==
  ASSUME NEW c, c.name = "LPUSH", c.key \in Keys, IsSeq(c.val)
  PROVE  Safe(c)
<1>0. PICK f, m : f = ("FRONT" \in c.opts) /\ m = ("X" \in c.opts)
  OBVIOUS
<1> DEFINE k == c.key
           bad(o) == WrongType(o, "list") \/ (m /\ o = Nil)
           new(o) == Put(o, "list", Push(o.val, c.val, f))
<1>1. ASSUME NEW s, Start(s), NEW o, o = Found(s, k)
      PROVE  \E t : /\ Handler(s, c) = Reported(t)
                    /\ bad(o) => No(s, t, k)
                    /\ ~bad(o) => Yes(s, t, k, new(o))
  <2>1. Handler(s, c) = Reported(LPush(s, k, c.val, f, m))
    BY <1>0, DispatchCollections DEF listPush, Srcfront
  <2>2. QED BY ONLY <1>1, <2>1, LPushDoes, c.key \in Keys, IsSeq(c.val)
<1> HIDE DEF new, bad
<1>2. ASSUME NEW o
      PROVE  \/ \A s : Start(s) /\ Found(s, k) = o => \E t : No(s, t, k) /\ Handler(s, c) = Reported(t)
             \/ \A s : Start(s) /\ Found(s, k) = o
                        => \E t : Yes(s, t, k, new(o)) /\ Handler(s, c) = Reported(t)
  BY <1>1
<1>3. Verbatim(c, k)
  BY <1>2 DEF Verbatim
<1>4. QED BY <1>3, VerbatimSafe, CanonicalNames

\* LPOP is safe.
LEMMA LPopSafe ==
  ASSUME NEW c, c.name = "LPOP", c.key \in Keys
  PROVE  Safe(c)
<1>0. PICK f : f = ("FRONT" \in c.opts)
  OBVIOUS
<1> DEFINE k == c.key
           bad(o) == o.type # "list"
           new(o) == Put(o, "list", Popped(o.val, f))
<1>1. ASSUME NEW s, Start(s), NEW o, o = Found(s, k)
      PROVE  \E t : /\ Handler(s, c) = Reported(t)
                    /\ bad(o) => No(s, t, k)
                    /\ ~bad(o) => Yes(s, t, k, new(o))
  <2>1. Handler(s, c) = Reported(LPop(s, k, f))
    BY <1>0, DispatchCollections DEF listPop, Srcfront
  <2>2. QED BY ONLY <1>1, <2>1, LPopDoes, c.key \in Keys
<1> HIDE DEF new, bad
<1>2. ASSUME NEW o
      PROVE  \/ \A s : Start(s) /\ Found(s, k) = o => \E t : No(s, t, k) /\ Handler(s, c) = Reported(t)
             \/ \A s : Start(s) /\ Found(s, k) = o
                        => \E t : Yes(s, t, k, new(o)) /\ Handler(s, c) = Reported(t)
  BY <1>1
<1>3. Verbatim(c, k)
  BY <1>2 DEF Verbatim
<1>4. QED BY <1>3, VerbatimSafe, CanonicalNames

\* LSET is safe.
LEMMA LSetSafe ==
  ASSUME NEW c, c.name = "LSET", c.key \in Keys
  PROVE  Safe(c)
<1> DEFINE k == c.key
           bad(o) == LSetBad(o, c.n)
           new(o) == Put(o, "list", LSetVal(o, c.n, c.val[1]))
<1>1. ASSUME NEW s, Start(s), NEW o, o = Found(s, k)
      PROVE  \E t : /\ Handler(s, c) = Reported(t)
                    /\ bad(o) => No(s, t, k)
                    /\ ~bad(o) => Yes(s, t, k, new(o))
  BY <1>1, LSetDoes, DispatchCollections DEF cmdLSet
<1> HIDE DEF new, bad
<1>2. ASSUME NEW o
      PROVE  \/ \A s : Start(s) /\ Found(s, k) = o => \E t : No(s, t, k) /\ Handler(s, c) = Reported(t)
             \/ \A s : Start(s) /\ Found(s, k) = o
                        => \E t : Yes(s, t, k, new(o)) /\ Handler(s, c) = Reported(t)
  BY <1>1
<1>3. Verbatim(c, k)
  BY <1>2 DEF Verbatim
<1>4. QED BY <1>3, VerbatimSafe, CanonicalNames

\* LINSERT is safe.
LEMMA LInsertSafe ==
  ASSUME NEW c, c.name = "LINSERT", c.key \in Keys
  PROVE  Safe(c)
<1>0. PICK f : f = ("BEFORE" \in c.opts)
  OBVIOUS
<1> DEFINE k == c.key
           bad(o) == LInsertBad(o, c.n)
           new(o) == Put(o, "list", LInsertVal(o, c.n, c.val[1], f))
<1>1. ASSUME NEW s, Start(s), NEW o, o = Found(s, k)
      PROVE  \E t : /\ Handler(s, c) = Reported(t)
                    /\ bad(o) => No(s, t, k)
                    /\ ~bad(o) => Yes(s, t, k, new(o))
  <2>1. Handler(s, c) = Reported(LInsert(s, k, c.n, c.val[1], f))
    BY <1>0, DispatchCollections DEF cmdLInsert
  <2>2. QED BY ONLY <1>1, <2>1, LInsertDoes, c.key \in Keys
<1> HIDE DEF new, bad
<1>2. ASSUME NEW o
      PROVE  \/ \A s : Start(s) /\ Found(s, k) = o => \E t : No(s, t, k) /\ Handler(s, c) = Reported(t)
             \/ \A s : Start(s) /\ Found(s, k) = o
                        => \E t : Yes(s, t, k, new(o)) /\ Handler(s, c) = Reported(t)
  BY <1>1
<1>3. Verbatim(c, k)
  BY <1>2 DEF Verbatim
<1>4. QED BY <1>3, VerbatimSafe, CanonicalNames

\* LREM is safe.
LEMMA LRemSafe ==
  ASSUME NEW c, c.name = "LREM", c.key \in Keys
  PROVE  Safe(c)
<1> DEFINE k == c.key
           bad(o) == LRemBad(o, c.val[1])
           new(o) == Put(o, "list", LRemVal(o, c.n, c.val[1]))
<1>1. ASSUME NEW s, Start(s), NEW o, o = Found(s, k)
      PROVE  \E t : /\ Handler(s, c) = Reported(t)
                    /\ bad(o) => No(s, t, k)
                    /\ ~bad(o) => Yes(s, t, k, new(o))
  BY <1>1, LRemDoes, DispatchCollections DEF cmdLRem
<1> HIDE DEF new, bad
<1>2. ASSUME NEW o
      PROVE  \/ \A s : Start(s) /\ Found(s, k) = o => \E t : No(s, t, k) /\ Handler(s, c) = Reported(t)
             \/ \A s : Start(s) /\ Found(s, k) = o
                        => \E t : Yes(s, t, k, new(o)) /\ Handler(s, c) = Reported(t)
  BY <1>1
<1>3. Verbatim(c, k)
  BY <1>2 DEF Verbatim
<1>4. QED BY <1>3, VerbatimSafe, CanonicalNames

\* LTRIM of a key that does not exist is logged, and redone.
LEMMA LTrimSafe ==
  ASSUME NEW c, c.name = "LTRIM", c.key \in Keys, c.val[1] \in Int, c.val[2] \in Int
  PROVE  Safe(c)
<1> DEFINE k == c.key
           new(o) == Put(o, "list", TrimVal(o, c.val[1], c.val[2]))
<1>1. ASSUME NEW s, Start(s), NEW o, o = Found(s, k), NEW u, u = Handler(s, c)
      PROVE  /\ WrongType(o, "list") => Looks(s, u, k) /\ Logged(u, c) = <<>>
             /\ o = Nil => Looks(s, u, k) /\ Logged(u, c) = <<c>>
             /\ o.type = "list" => Puts(s, u, k, new(o)) /\ Logged(u, c) = <<c>>
  <2>0. c.name \notin Canonical
    BY CanonicalNames
  <2>1. PICK t : t = LTrim(s, k, c.val[1], c.val[2]) /\ u = Reported(t)
    BY <1>1, DispatchCollections DEF cmdLTrim
  <2>2. /\ WrongType(o, "list") => No(s, t, k)
        /\ o = Nil => Ok(s, t, k)
        /\ o.type = "list" => Yes(s, t, k, new(o))
    BY <1>1, <2>1, LTrimDoes
  <2>3. ASSUME Ok(s, t, k) PROVE Looks(s, u, k) /\ Logged(u, c) = <<c>>
    <3>1. u = Dirty(t)
      BY <2>1, <2>3 DEF Ok, Reported
    <3>2. SameTable(t, u) /\ u.eff = t.eff /\ u.dirty = TRUE
      BY <2>3, <3>1, DirtyFacts DEF Ok
    <3>3. QED BY <2>0, <2>3, <3>2, SamePuts DEF Ok, Logged, Quiet
  <2> HIDE DEF new
  <2>4. QED BY <2>0, <2>1, <2>2, <2>3, ReportedNo, ReportedYes
<1> HIDE DEF new
<1>2. ASSUME NEW o, NEW n \in Stills, GoodObj(o)
      PROVE  \/ Idle(c, k, o, n)
             \/ \E f, x : Does(c, k, o, n, f, x)
             \/ \E f : Notes(c, k, o, n, f)
  <2>1. CASE WrongType(o, "list")
    BY <1>1, <2>1 DEF Idle, Leads
  <2>2. CASE o = Nil
    <3>1. Notes(c, k, o, n, c)
      BY <1>1, <2>2 DEF Notes, Leads
    <3>2. QED BY <3>1
  <2>3. CASE o.type = "list"
    <3>1. Does(c, k, o, n, c, new(o))
      BY <1>1, <2>3 DEF Does, Leads
    <3>2. QED BY <3>1
  <2>4. QED BY <1>2, <2>1, <2>2, <2>3, GoodFacts DEF WrongType
<1>3. QED BY <1>2, OneKeySafe DEF OneKey

\* BLPOP is safe: served at once, it is logged as the LPOP it amounts to.
LEMMA BLPopSafe ==
  ASSUME NEW c, IsCommand(c), c.name = "BLPOP", c.key \in Keys
  PROVE  Safe(c)
<1>0. PICK f, e : f = ("FRONT" \in c.opts) /\ e = [c EXCEPT !.name = "LPOP"]
  OBVIOUS
<1> DEFINE k == c.key
           new(o) == Put(o, "list", Popped(o.val, f))
<1>1. e.name = "LPOP" /\ e.key = k /\ e.opts = c.opts
  BY <1>0 DEF IsCommand
<1>2. ASSUME NEW s, Start(s), NEW o, o = Found(s, k), NEW u, u = Handler(s, c)
      PROVE  /\ o.type # "list" => Looks(s, u, k) /\ Logged(u, c) = <<>>
             /\ o.type = "list" => Puts(s, u, k, new(o)) /\ Logged(u, c) = <<e>>
  <2>1. PICK t : t = LPop(s, k, f) /\ u = IF t.res THEN Propagate(t, e) ELSE t
    BY <1>0, <1>2, DispatchCollections DEF blockingPop, Srcfront
  <2>2. CASE o.type # "list"
    <3>1. No(s, t, k)
      BY <1>2, <2>1, <2>2, LPopDoes
    <3>2. QED BY <2>1, <2>2, <3>1, QuietLogged DEF No
  <2>3. CASE o.type = "list"
    <3>1. Yes(s, t, k, new(o))
      BY <1>2, <2>1, <2>3, LPopDoes
    <3>2. u = Propagate(t, e)
      BY <2>1, <3>1 DEF Yes
    <3>3. QED BY <2>3, <3>1, <3>2, PropagatedYes DEF Yes
  <2>4. QED BY <2>2, <2>3
<1>3. ASSUME NEW s, Start(s), NEW o, o = Found(s, k), o.type = "list"
      PROVE  Puts(s, Handler(s, e), k, new(o))
  <2>1. PICK t : t = LPop(s, k, f) /\ Handler(s, e) = Reported(t)
    BY <1>0, <1>1, DispatchCollections DEF listPop, Srcfront
  <2>2. Yes(s, t, k, new(o)) /\ e.name \notin Canonical
    BY <1>1, <1>3, <2>1, LPopDoes, CanonicalNames
  <2>3. QED BY <2>1, <2>2, ReportedYes
<1> HIDE DEF new
<1>4. ASSUME NEW o, NEW n \in Stills, GoodObj(o)
      PROVE  Idle(c, k, o, n) \/ \E g, x : Does(c, k, o, n, g, x)
  <2>1. CASE o.type # "list"
    BY <1>2, <2>1 DEF Idle, Leads
  <2>2. CASE o.type = "list"
    <3>1. Does(c, k, o, n, e, new(o))
      BY <1>2, <1>3, <2>2 DEF Does, Leads
    <3>2. QED BY <3>1
  <2>3. QED BY <2>1, <2>2
<1>5. QED BY <1>4, OneKeySafe DEF OneKey

\* A second lookup of a key changes nothing.
LEMMA LookupTwice ==
  ASSUME NEW s, Start(s), NEW k \in Keys
  PROVE  /\ lookup(lookup(s, k), k) = lookup(s, k)
         /\ Found(s, k) # Nil => lookup(s, k) = s
<1>1. ~expired(lookup(s, k), k) /\ lookup(s, k).clock = s.clock
  BY LookedUp
<1>2. lookup(s, k) = Reaped(s, k) /\ lookup(lookup(s, k), k) = Reaped(lookup(s, k), k)
  BY <1>1, StillFacts DEF Start
<1>3. QED BY <1>1, <1>2, FoundFacts DEF Reaped

\* A write that leaves the object as it was.
LEMMA PutsBack ==
  ASSUME NEW s, NEW t, NEW k, Puts(s, t, k, Found(s, k))
  PROVE  Looks(s, t, k)
<1>1. At(s, t, {k}, {k}) /\ t.obj[k] = Found(s, k)
  BY DEF Puts
<1>2. \A j \in Keys \ {} : t.obj[j] = IF j \in {k} THEN Found(s, j) ELSE s.obj[j]
  BY <1>1 DEF At
<1>3. QED BY <1>1, <1>2 DEF Looks, At

\* A collection created before its first element is added.
LEMMA ChangeMade ==
  ASSUME NEW s, Table0(s), NEW k \in Keys, Found(s, k) = Nil, NEW ty, ty # "none", NEW v
  PROVE  Change(newCollection(s, k, ty), k, ty, v) = Change(s, k, ty, v)
<1>1. PICK m : m = newCollection(s, k, ty)
  OBVIOUS
<1>2. m.obj[k] = Object(ty, 0, <<>>)
  <2>1. Stored(s, m, k, Object(ty, 0, <<>>))
    BY <1>1, NewStored
  <2>2. m.obj = [s.obj EXCEPT ![k] = Object(ty, 0, <<>>)] /\ k \in DOMAIN s.obj
    BY <2>1 DEF Stored, Table0, Whole
  <2>3. QED BY <2>2
<1>3. Object(ty, 0, <<>>) # Nil /\ Object(ty, 0, <<>>).at = 0
  BY ObjectFacts
<1>4. Found(m, k) # Nil
  BY <1>2, <1>3 DEF Found, expired, Now, Due
<1>5. QED BY <1>1, <1>4 DEF Change

-----------------------------------------------------------------------------
(* Sets, hashes and sorted sets: functions on their members.               *)

\* The collections that are functions on their members, and one with members taken out.
Maps == {"set", "hash", "zset"}

\* The members of a set, a hash or a sorted set are elements.
LEMMA MapVal ==
  ASSUME NEW o, GoodObj(o), NEW ty \in Maps, o = Nil \/ o.type = ty
  PROVE  /\ DOMAIN o.val \subseteq Elems /\ ty \in Collections /\ ty \in Types
         /\ ty = "set" => o.val = AsSet(DOMAIN o.val)
<1>1. CASE o = Nil
  <2>1. <<>> = AsSet({})
    BY DEF AsSet
  <2>2. QED BY <1>1, <2>1, NilFacts DEF Maps, Collections, Types
<1>2. CASE o.type = ty
  BY <1>2, GoodFacts, NilFacts DEF Proper, Shape, Maps, Collections, Types
<1>3. QED BY <1>1, <1>2

\* A function on elements fits a hash or a sorted set, and a set if it maps each to 1.
LEMMA MapFits ==
  ASSUME NEW ty \in Maps, NEW v, DOMAIN v \subseteq Elems, ty = "set" => v = AsSet(DOMAIN v)
  PROVE  Fits(ty, v)
BY DEF Fits, Shape, Maps

\* A set of elements fits a set.
LEMMA SetFits == ASSUME NEW ms, ms \subseteq Elems PROVE Fits("set", AsSet(ms)) /\ DOMAIN AsSet(ms) = ms
<1>1. DOMAIN AsSet(ms) = ms /\ "set" \in Maps
  BY DEF AsSet, Maps
<1>2. QED BY <1>1, MapFits

Without(o, ms) == Restrict(o.val, DOMAIN o.val \ ms)
RemoveBad(o, ty, ms) == o.type # ty \/ ms \cap DOMAIN o.val = {}

\* A collection with members taken out still fits.
LEMMA WithoutFits ==
  ASSUME NEW o, GoodObj(o), NEW ty \in Maps, o.type = ty, NEW ms
  PROVE  Fits(ty, Without(o, ms))
<1>1. PICK D, v : D = DOMAIN o.val \ ms /\ v = Without(o, ms)
  OBVIOUS
<1>2. DOMAIN o.val \subseteq Elems /\ (ty = "set" => o.val = AsSet(DOMAIN o.val))
  BY MapVal
<1>3. DOMAIN v = D /\ D \subseteq Elems /\ v = [x \in D |-> o.val[x]]
  BY <1>1, <1>2 DEF Without, Restrict
<1>4. ASSUME ty = "set" PROVE v = AsSet(D)
  <2>1. \A x \in DOMAIN o.val : o.val[x] = 1
    BY <1>2, <1>4 DEF AsSet
  <2>2. QED BY <1>1, <1>3, <2>1 DEF AsSet
<1>5. QED BY <1>1, <1>3, <1>4, MapFits

\* RemoveMembers takes out the members that are there.
LEMMA RemoveMembersDoes ==
  ASSUME NEW s, Start(s), NEW k \in Keys, NEW o, o = Found(s, k), NEW ty \in Maps, NEW ms,
         NEW t, t = RemoveMembers(s, k, ty, ms)
  PROVE  /\ RemoveBad(o, ty, ms) => No(s, t, k)
         /\ ~RemoveBad(o, ty, ms) => Yes(s, t, k, Put(o, ty, Without(o, ms)))
<1>0. Found(lookup(s, k), k) = o /\ GoodObj(o)
  BY FoundAgain
<1>1. CASE RemoveBad(o, ty, ms)
  <2>1. t = Return(lookup(s, k), FALSE)
    BY <1>0, <1>1 DEF RemoveMembers, RemoveFrom, RemoveBad
  <2>2. QED BY <1>1, <2>1, LookupNo
<1>2. CASE ~RemoveBad(o, ty, ms)
  <2>1. t = Return(Change(lookup(s, k), k, ty, Without(o, ms)), TRUE)
    BY <1>0, <1>2 DEF RemoveMembers, RemoveFrom, RemoveBad, Without
  <2>2. o.type = ty /\ ty \in Collections
    BY <1>2 DEF RemoveBad, Maps, Collections
  <2>3. Fits(ty, Without(o, ms))
    BY <1>0, <2>2, WithoutFits
  <2>4. QED BY <1>2, <2>1, <2>2, <2>3, ChangeYes
<1>3. QED BY <1>1, <1>2

\* SREM is safe.
LEMMA SRemSafe ==
  ASSUME NEW c, c.name = "SREM", c.key \in Keys
  PROVE  Safe(c)
<1> DEFINE k == c.key
           bad(o) == RemoveBad(o, "set", DOMAIN c.val)
           new(o) == Put(o, "set", Without(o, DOMAIN c.val))
<1>1. ASSUME NEW s, Start(s), NEW o, o = Found(s, k)
      PROVE  \E t : /\ Handler(s, c) = Reported(t)
                    /\ bad(o) => No(s, t, k)
                    /\ ~bad(o) => Yes(s, t, k, new(o))
  BY <1>1, RemoveMembersDoes, DispatchCollections DEF cmdSRem, Maps
<1> HIDE DEF new, bad
<1>2. ASSUME NEW o
      PROVE  \/ \A s : Start(s) /\ Found(s, k) = o => \E t : No(s, t, k) /\ Handler(s, c) = Reported(t)
             \/ \A s : Start(s) /\ Found(s, k) = o
                        => \E t : Yes(s, t, k, new(o)) /\ Handler(s, c) = Reported(t)
  BY <1>1
<1>3. Verbatim(c, k)
  BY <1>2 DEF Verbatim
<1>4. QED BY <1>3, VerbatimSafe, CanonicalNames

\* HDEL is safe.
LEMMA HDelSafe ==
  ASSUME NEW c, c.name = "HDEL", c.key \in Keys
  PROVE  Safe(c)
<1> DEFINE k == c.key
           bad(o) == RemoveBad(o, "hash", DOMAIN c.val)
           new(o) == Put(o, "hash", Without(o, DOMAIN c.val))
<1>1. ASSUME NEW s, Start(s), NEW o, o = Found(s, k)
      PROVE  \E t : /\ Handler(s, c) = Reported(t)
                    /\ bad(o) => No(s, t, k)
                    /\ ~bad(o) => Yes(s, t, k, new(o))
  BY <1>1, RemoveMembersDoes, DispatchCollections DEF cmdHDel, Maps
<1> HIDE DEF new, bad
<1>2. ASSUME NEW o
      PROVE  \/ \A s : Start(s) /\ Found(s, k) = o => \E t : No(s, t, k) /\ Handler(s, c) = Reported(t)
             \/ \A s : Start(s) /\ Found(s, k) = o
                        => \E t : Yes(s, t, k, new(o)) /\ Handler(s, c) = Reported(t)
  BY <1>1
<1>3. Verbatim(c, k)
  BY <1>2 DEF Verbatim
<1>4. QED BY <1>3, VerbatimSafe, CanonicalNames

\* ZREM is safe.
LEMMA ZRemSafe ==
  ASSUME NEW c, c.name = "ZREM", c.key \in Keys
  PROVE  Safe(c)
<1> DEFINE k == c.key
           bad(o) == RemoveBad(o, "zset", DOMAIN c.val)
           new(o) == Put(o, "zset", Without(o, DOMAIN c.val))
<1>1. ASSUME NEW s, Start(s), NEW o, o = Found(s, k)
      PROVE  \E t : /\ Handler(s, c) = Reported(t)
                    /\ bad(o) => No(s, t, k)
                    /\ ~bad(o) => Yes(s, t, k, new(o))
  BY <1>1, RemoveMembersDoes, DispatchCollections DEF cmdZRem, Maps
<1> HIDE DEF new, bad
<1>2. ASSUME NEW o
      PROVE  \/ \A s : Start(s) /\ Found(s, k) = o => \E t : No(s, t, k) /\ Handler(s, c) = Reported(t)
             \/ \A s : Start(s) /\ Found(s, k) = o
                        => \E t : Yes(s, t, k, new(o)) /\ Handler(s, c) = Reported(t)
  BY <1>1
<1>3. Verbatim(c, k)
  BY <1>2 DEF Verbatim
<1>4. QED BY <1>3, VerbatimSafe, CanonicalNames

-----------------------------------------------------------------------------
(* Sets.                                                                   *)

\* SAdd adds the members that are not there.
LEMMA SAddDoes ==
  ASSUME NEW s, Start(s), NEW k \in Keys, NEW o, o = Found(s, k), NEW ms, ms \subseteq Elems, ms # {},
         NEW t, t = SAdd(s, k, ms)
  PROVE  /\ WrongType(o, "set") \/ ms \subseteq DOMAIN o.val => No(s, t, k)
         /\ ~(WrongType(o, "set") \/ ms \subseteq DOMAIN o.val) =>
              Yes(s, t, k, Put(o, "set", AsSet(DOMAIN o.val \cup ms)))
<1>0. Found(lookup(s, k), k) = o /\ GoodObj(o)
  BY FoundAgain
<1>1. CASE WrongType(o, "set")
  <2>1. t = Return(lookup(s, k), FALSE)
    BY <1>0, <1>1 DEF SAdd
  <2>2. QED BY <1>1, <2>1, LookupNo
<1>2. CASE ~WrongType(o, "set")
  <2>1. PICK D, v, r : D = DOMAIN o.val \cup ms /\ v = AsSet(D) /\ r = ~(ms \subseteq DOMAIN o.val)
                       /\ t = Return(Change(lookup(s, k), k, "set", v), r)
    BY <1>0, <1>2 DEF SAdd
  <2>2. (o = Nil \/ o.type = "set") /\ "set" \in Collections /\ "set" \in Maps
    BY <1>0, <1>2, GoodFacts DEF WrongType, Collections, Maps
  <2>3. Fits("set", v) /\ DOMAIN v = D
    <3>1. D \subseteq Elems
      BY <1>0, <2>1, <2>2, MapVal
    <3>2. QED BY <2>1, <3>1, SetFits
  <2>4. Puts(s, t, k, Put(o, "set", v)) /\ Quiet(t) /\ t.res = r /\ IsCall(t)
    <3>1. t = Return(Change(lookup(s, k), k, "set", v), r)
      BY <2>1
    <3>2. QED BY ONLY <2>2, <2>3, <3>1, ChangePuts, Start(s), k \in Keys, o = Found(s, k)
  <2>5. CASE ms \subseteq DOMAIN o.val
    <3>1. D = DOMAIN o.val /\ D # {} /\ o # Nil
      BY <2>1, <2>5, NilFacts
    <3>2. Proper(o) /\ o.type = "set" /\ v = o.val
      BY <1>0, <2>1, <2>2, <3>1, GoodFacts DEF Proper, Shape
    <3>3. Put(o, "set", v) = o
      BY <2>3, <3>1, <3>2 DEF Put, Proper
    <3>4. Looks(s, t, k)
      BY <2>4, <3>3, PutsBack
    <3>5. t.res = FALSE
      BY <2>1, <2>4, <2>5
    <3>6. QED BY <2>4, <2>5, <3>4, <3>5 DEF No
  <2>6. CASE ~(ms \subseteq DOMAIN o.val)
    <3>1. t.res = TRUE
      BY <2>1, <2>4, <2>6
    <3>2. Yes(s, t, k, Put(o, "set", v))
      BY <2>4, <3>1 DEF Yes
    <3>3. QED BY <1>2, <2>1, <2>6, <3>2
  <2>7. QED BY <2>5, <2>6
<1>3. QED BY <1>1, <1>2

\* SADD is safe.
LEMMA SAddSafe ==
  ASSUME NEW c, c.name = "SADD", c.key \in Keys, DOMAIN c.val \subseteq Elems, DOMAIN c.val # {}
  PROVE  Safe(c)
<1> DEFINE k == c.key
           bad(o) == WrongType(o, "set") \/ DOMAIN c.val \subseteq DOMAIN o.val
           new(o) == Put(o, "set", AsSet(DOMAIN o.val \cup DOMAIN c.val))
<1>1. ASSUME NEW s, Start(s), NEW o, o = Found(s, k)
      PROVE  \E t : /\ Handler(s, c) = Reported(t)
                    /\ bad(o) => No(s, t, k)
                    /\ ~bad(o) => Yes(s, t, k, new(o))
  BY <1>1, SAddDoes, DispatchCollections DEF cmdSAdd
<1> HIDE DEF new, bad
<1>2. ASSUME NEW o
      PROVE  \/ \A s : Start(s) /\ Found(s, k) = o => \E t : No(s, t, k) /\ Handler(s, c) = Reported(t)
             \/ \A s : Start(s) /\ Found(s, k) = o
                        => \E t : Yes(s, t, k, new(o)) /\ Handler(s, c) = Reported(t)
  BY <1>1
<1>3. Verbatim(c, k)
  BY <1>2 DEF Verbatim
<1>4. QED BY <1>3, VerbatimSafe, CanonicalNames

\* SPOP is safe: it is logged as the SREM of the members it drew.
LEMMA SPopSafe ==
  ASSUME NEW c, c.name = "SPOP", c.key \in Keys
  PROVE  Safe(c)
<1> DEFINE k == c.key
           ms == DOMAIN c.val
           bad(o) == RemoveBad(o, "set", ms)
           taken(o) == ms \cap DOMAIN o.val
           new(o) == Put(o, "set", Without(o, ms))
           eff(x) == [Command("SREM", k) EXCEPT !.val = AsSet(x)]
<1>0. ASSUME NEW x PROVE eff(x).name = "SREM" /\ eff(x).key = k /\ eff(x).val = AsSet(x)
  BY DEF Command
<1>1. ASSUME NEW s, Start(s), NEW o, o = Found(s, k), NEW u, u = Handler(s, c)
      PROVE  /\ bad(o) => Looks(s, u, k) /\ Logged(u, c) = <<>>
             /\ ~bad(o) => Puts(s, u, k, new(o)) /\ Logged(u, c) = <<eff(taken(o))>>
  <2>1. PICK t : t = SPop(s, k, ms) /\ u = IF t.res # {} THEN Propagate(t, eff(t.res)) ELSE t
    BY <1>1, DispatchCollections DEF cmdSPop
  <2> HIDE DEF eff
  <2>2. Found(lookup(s, k), k) = o
    BY <1>1, FoundAgain
  <2>3. CASE o.type # "set"
    <3>1. PICK x : x = {} /\ t = Return(lookup(s, k), x)
      BY <2>1, <2>2, <2>3 DEF SPop
    <3>2. Looks(s, t, k) /\ Quiet(t) /\ t.res = x /\ IsCall(t)
      BY <1>1, <3>1, LookupLooks
    <3>3. QED BY <2>1, <2>3, <3>1, <3>2, QuietLogged DEF RemoveBad
  <2>4. CASE o.type = "set"
    <3>0. o # Nil
      BY <2>4, NilFacts
    <3>1. PICK q, x : q = RemoveMembers(s, k, "set", ms) /\ x = taken(o) /\ t = Return(q, x)
      BY <2>1, <2>2, <2>4, <3>0 DEF SPop, RemoveMembers
    <3>2. "set" \in Maps
      BY DEF Maps
    <3>3. CASE bad(o)
      <4>1. No(s, q, k)
        BY <1>1, <3>1, <3>2, <3>3, RemoveMembersDoes
      <4>2. SameTable(q, t) /\ t.eff = q.eff /\ t.dirty = q.dirty /\ t.err = q.err /\ t.res = x
        BY <3>1, <4>1, ReturnFacts DEF No
      <4>3. x = {}
        BY <2>4, <3>1, <3>3 DEF RemoveBad
      <4>4. Looks(s, t, k) /\ Quiet(t) /\ u = t
        BY <2>1, <4>1, <4>2, <4>3, SamePuts DEF No, Quiet
      <4>5. QED BY <3>3, <4>4, QuietLogged
    <3>4. CASE ~bad(o)
      <4>1. Yes(s, q, k, new(o))
        BY <1>1, <3>1, <3>2, <3>4, RemoveMembersDoes
      <4>2. SameTable(q, t) /\ t.eff = q.eff /\ t.dirty = q.dirty /\ t.err = q.err /\ t.res = x
        BY <3>1, <4>1, ReturnFacts DEF Yes
      <4>3. x # {}
        BY <3>1, <3>4 DEF RemoveBad
      <4>4. Puts(s, t, k, new(o)) /\ Quiet(t) /\ IsCall(t)
        BY <4>1, <4>2, SamePuts DEF Yes, Quiet, SameTable
      <4>5. u = Propagate(t, eff(x))
        BY <2>1, <4>2, <4>3
      <4>6. Puts(s, u, k, new(o)) /\ Logged(u, c) = <<eff(x)>>
        BY <4>4, <4>5, PropagatedYes
      <4>7. QED BY <3>1, <3>4, <4>6
    <3>5. QED BY <3>3, <3>4
  <2>5. QED BY <2>3, <2>4
<1> HIDE DEF eff
<1>2. ASSUME NEW s, Start(s), NEW o, o = Found(s, k), ~bad(o)
      PROVE  Puts(s, Handler(s, eff(taken(o))), k, new(o))
  <2>1. PICK x, e : x = taken(o) /\ e = eff(x)
    OBVIOUS
  <2>2. e.name = "SREM" /\ e.key = k /\ DOMAIN e.val = x
    <3>1. e.name = "SREM" /\ e.key = k /\ e.val = AsSet(x)
      BY <1>0, <2>1
    <3>2. DOMAIN AsSet(x) = x
      BY DEF AsSet
    <3>3. QED BY <3>1, <3>2
  <2>3. PICK t : t = RemoveMembers(s, k, "set", x) /\ Handler(s, e) = Reported(t)
    BY <2>2, DispatchCollections DEF cmdSRem
  <2>4. ~RemoveBad(o, "set", x) /\ "set" \in Maps
    BY <1>2, <2>1 DEF RemoveBad, Maps
  <2>5. Without(o, x) = Without(o, ms)
    <3>1. DOMAIN o.val \ x = DOMAIN o.val \ ms
      BY <2>1
    <3>2. QED BY <3>1 DEF Without
  <2>6. Yes(s, t, k, new(o)) /\ e.name \notin Canonical
    BY <1>2, <2>2, <2>3, <2>4, <2>5, RemoveMembersDoes, CanonicalNames
  <2>7. QED BY <2>1, <2>3, <2>6, ReportedYes
<1> HIDE DEF bad, new, taken
<1>3. ASSUME NEW o, NEW n \in Stills, GoodObj(o)
      PROVE  Idle(c, k, o, n) \/ \E f, x : Does(c, k, o, n, f, x)
  <2>1. CASE bad(o)
    BY <1>1, <2>1 DEF Idle, Leads
  <2>2. CASE ~bad(o)
    <3>1. Does(c, k, o, n, eff(taken(o)), new(o))
      BY <1>1, <1>2, <2>2 DEF Does, Leads
    <3>2. QED BY <3>1
  <2>3. QED BY <2>1, <2>2
<1>4. QED BY <1>3, OneKeySafe DEF OneKey

\* A function laid over another.
LEMMA OverDomain == ASSUME NEW f, NEW g PROVE DOMAIN Over(f, g) = DOMAIN f \cup DOMAIN g
BY DEF Over

\* A pair is a function on one point.
LEMMA PairFacts == ASSUME NEW x, NEW v PROVE DOMAIN Pair(x, v) = {x} /\ Pair(x, v)[x] = v
BY DEF Pair

\* A pair of an element is a function on elements.
LEMMA PairDomain == ASSUME NEW x \in Elems, NEW v PROVE DOMAIN Pair(x, v) \subseteq Elems
BY DEF Pair

\* A hash or a sorted set with entries laid over it still fits.
LEMMA OverFits ==
  ASSUME NEW o, GoodObj(o), NEW ty \in {"hash", "zset"}, ~WrongType(o, ty), NEW p, DOMAIN p \subseteq Elems
  PROVE  /\ Fits(ty, Over(p, o.val)) /\ (o = Nil \/ o.type = ty) /\ ty \in Collections
<1>1. o = Nil \/ o.type = ty
  BY GoodFacts DEF WrongType
<1>2. DOMAIN o.val \subseteq Elems /\ ty \in Maps /\ ty # "set"
  BY <1>1, MapVal DEF Maps
<1>3. DOMAIN Over(p, o.val) \subseteq Elems
  BY <1>2, OverDomain
<1>4. QED BY <1>1, <1>2, <1>3, MapFits DEF Collections

\* HSet lays its fields over the hash.
LEMMA HSetDoes ==
  ASSUME NEW s, Start(s), NEW k \in Keys, NEW o, o = Found(s, k), NEW p, DOMAIN p \subseteq Elems,
         NEW t, t = HSet(s, k, p)
  PROVE  /\ WrongType(o, "hash") => No(s, t, k)
         /\ ~WrongType(o, "hash") => Yes(s, t, k, Put(o, "hash", Over(p, o.val)))
<1>0. Found(lookup(s, k), k) = o /\ GoodObj(o)
  BY FoundAgain
<1>1. CASE WrongType(o, "hash")
  <2>1. t = Return(lookup(s, k), FALSE)
    BY <1>0, <1>1 DEF HSet
  <2>2. QED BY <1>1, <2>1, LookupNo
<1>2. CASE ~WrongType(o, "hash")
  <2>1. t = Return(Change(lookup(s, k), k, "hash", Over(p, o.val)), TRUE)
    BY <1>0, <1>2 DEF HSet
  <2>2. Fits("hash", Over(p, o.val)) /\ (o = Nil \/ o.type = "hash") /\ "hash" \in Collections
    BY <1>0, <1>2, OverFits
  <2>3. Yes(s, t, k, Put(o, "hash", Over(p, o.val)))
    BY <2>1, <2>2, ChangeYes
  <2>4. QED BY <1>2, <2>3
<1>3. QED BY <1>1, <1>2

\* HSET is safe.
LEMMA HSetSafe ==
  ASSUME NEW c, c.name = "HSET", c.key \in Keys, DOMAIN c.val \subseteq Elems
  PROVE  Safe(c)
<1> DEFINE k == c.key
           bad(o) == WrongType(o, "hash")
           new(o) == Put(o, "hash", Over(c.val, o.val))
<1>1. ASSUME NEW s, Start(s), NEW o, o = Found(s, k)
      PROVE  \E t : /\ Handler(s, c) = Reported(t)
                    /\ bad(o) => No(s, t, k)
                    /\ ~bad(o) => Yes(s, t, k, new(o))
  BY <1>1, HSetDoes, DispatchCollections DEF cmdHSet
<1> HIDE DEF new, bad
<1>2. ASSUME NEW o
      PROVE  \/ \A s : Start(s) /\ Found(s, k) = o => \E t : No(s, t, k) /\ Handler(s, c) = Reported(t)
             \/ \A s : Start(s) /\ Found(s, k) = o
                        => \E t : Yes(s, t, k, new(o)) /\ Handler(s, c) = Reported(t)
  BY <1>1
<1>3. Verbatim(c, k)
  BY <1>2 DEF Verbatim
<1>4. QED BY <1>3, VerbatimSafe, CanonicalNames

\* The HSET another command is logged as lays its fields over the hash again.
LEMMA HSetRedone ==
  ASSUME NEW s, Start(s), NEW k \in Keys, NEW o, o = Found(s, k), ~WrongType(o, "hash"),
         NEW p, DOMAIN p \subseteq Elems, NEW e, e.name = "HSET", e.key = k, e.val = p
  PROVE  Puts(s, Handler(s, e), k, Put(o, "hash", Over(p, o.val)))
<1>1. PICK t : t = HSet(s, k, p) /\ Handler(s, e) = Reported(t)
  BY DispatchCollections DEF cmdHSet
<1>2. Yes(s, t, k, Put(o, "hash", Over(p, o.val))) /\ e.name \notin Canonical
  BY <1>1, HSetDoes, CanonicalNames
<1>3. QED BY <1>1, <1>2, ReportedYes

\* When HSetNX refuses.
HSetNXBad(o, p) == WrongType(o, "hash") \/ DOMAIN p \cap DOMAIN o.val # {}

\* HSetNX adds a field that is not there.
LEMMA HSetNXDoes ==
  ASSUME NEW s, Start(s), NEW k \in Keys, NEW o, o = Found(s, k), NEW p, DOMAIN p \subseteq Elems,
         NEW t, t = HSetNX(s, k, p)
  PROVE  /\ HSetNXBad(o, p) => No(s, t, k)
         /\ ~HSetNXBad(o, p) => Yes(s, t, k, Put(o, "hash", Over(p, o.val)))
<1>0. Found(lookup(s, k), k) = o /\ GoodObj(o)
  BY FoundAgain
<1>1. CASE HSetNXBad(o, p)
  <2>1. t = Return(lookup(s, k), FALSE)
    BY <1>0, <1>1 DEF HSetNX, HSetNXBad
  <2>2. QED BY <1>1, <2>1, LookupNo
<1>2. CASE ~HSetNXBad(o, p)
  <2>1. ~WrongType(o, "hash")
    BY <1>2 DEF HSetNXBad
  <2>2. t = HSet(s, k, p)
    BY <1>0, <1>2, <2>1 DEF HSetNX, HSet, HSetNXBad
  <2>3. QED BY <1>2, <2>1, <2>2, HSetDoes
<1>3. QED BY <1>1, <1>2

\* HSETNX is safe: it is logged as the HSET it amounts to.
LEMMA HSetNXSafe ==
  ASSUME NEW c, IsCommand(c), c.name = "HSETNX", c.key \in Keys, DOMAIN c.val \subseteq Elems
  PROVE  Safe(c)
<1> DEFINE k == c.key
           bad(o) == HSetNXBad(o, c.val)
           new(o) == Put(o, "hash", Over(c.val, o.val))
<1>0. PICK e : e = [c EXCEPT !.name = "HSET"]
  OBVIOUS
<1>e. e.name = "HSET" /\ e.key = k /\ e.val = c.val
  BY <1>0 DEF IsCommand
<1>1. ASSUME NEW s, Start(s), NEW o, o = Found(s, k), NEW u, u = Handler(s, c)
      PROVE  /\ bad(o) => Looks(s, u, k) /\ Logged(u, c) = <<>>
             /\ ~bad(o) => Puts(s, u, k, new(o)) /\ Logged(u, c) = <<e>>
  <2>1. PICK t : t = HSetNX(s, k, c.val) /\ u = IF t.res THEN Propagate(t, e) ELSE t
    BY <1>0, <1>1, DispatchCollections DEF cmdHSetNX
  <2>2. CASE bad(o)
    <3>1. No(s, t, k)
      BY <1>1, <2>1, <2>2, HSetNXDoes
    <3>2. QED BY <2>1, <2>2, <3>1, QuietLogged DEF No
  <2>3. CASE ~bad(o)
    <3>1. Yes(s, t, k, new(o))
      BY <1>1, <2>1, <2>3, HSetNXDoes
    <3>2. QED BY <2>1, <2>3, <3>1, PropagatedYes DEF Yes
  <2>4. QED BY <2>2, <2>3
<1>2. ASSUME NEW s, Start(s), NEW o, o = Found(s, k), ~bad(o)
      PROVE  Puts(s, Handler(s, e), k, new(o))
  <2>1. ~WrongType(o, "hash")
    BY <1>2 DEF HSetNXBad
  <2>2. QED BY <1>e, <1>2, <2>1, HSetRedone
<1> HIDE DEF bad, new
<1>3. ASSUME NEW o, NEW n \in Stills, GoodObj(o)
      PROVE  Idle(c, k, o, n) \/ \E f, x : Does(c, k, o, n, f, x)
  <2>1. CASE bad(o)
    BY <1>1, <2>1 DEF Idle, Leads
  <2>2. CASE ~bad(o)
    <3>1. Does(c, k, o, n, e, new(o))
      BY <1>1, <1>2, <2>2 DEF Does, Leads
    <3>2. QED BY <3>1
  <2>3. QED BY <2>1, <2>2
<1>4. QED BY <1>3, OneKeySafe DEF OneKey

\* The integer a field holds, when HIncrBy refuses, and the hash it leaves.
HCur(o, f) == IF f \in DOMAIN o.val THEN o.val[f] ELSE 0
HIncrBad(o, f, delta) ==
  WrongType(o, "hash") \/ HCur(o, f) = Pad \/ HCur(o, f) + delta \notin 0..MaxInt
HIncrVal(o, f, delta) == Over(Pair(f, HCur(o, f) + delta), o.val)

\* HIncrBy adds to an integer field in range.
LEMMA HIncrByDoes ==
  ASSUME NEW s, Start(s), NEW k \in Keys, NEW o, o = Found(s, k), NEW f \in Elems,
         NEW delta \in 0 .. MaxInt, NEW t, t = HIncrBy(s, k, f, delta)
  PROVE  /\ Quiet(t) /\ IsCall(t)
         /\ HIncrBad(o, f, delta) => Looks(s, t, k) /\ t.res = <<>>
         /\ ~HIncrBad(o, f, delta) => /\ Puts(s, t, k, Put(o, "hash", HIncrVal(o, f, delta)))
                                      /\ t.res = <<HCur(o, f) + delta>>
<1>0. Found(lookup(s, k), k) = o /\ GoodObj(o) /\ Table0(lookup(s, k))
  BY LookedUp
<1>1. CASE HIncrBad(o, f, delta)
  <2>1. o = Nil => ~HIncrBad(o, f, delta)
    BY NilFacts, EffectsAssumption DEF HIncrBad, HCur, Pad, WrongType
  <2>2. PICK r : r = <<>> /\ t = Return(lookup(s, k), r)
    BY <1>0, <1>1, <2>1 DEF HIncrBy, HIncrBad, HCur
  <2>3. QED BY <1>1, <2>2, LookupLooks
<1>2. CASE ~HIncrBad(o, f, delta)
  <2> DEFINE u == lookup(s, k)
             made == IF o = Nil THEN newCollection(u, k, "hash") ELSE u
             v == HIncrVal(o, f, delta)
  <2>1. PICK r : r = <<HCur(o, f) + delta>> /\ t = Return(Change(made, k, "hash", v), r)
    BY <1>0, <1>2 DEF HIncrBy, HIncrBad, HCur, HIncrVal
  <2> HIDE DEF v
  <2>2. Change(made, k, "hash", v) = Change(u, k, "hash", v)
    BY <1>0, ChangeMade
  <2>3. t = Return(Change(u, k, "hash", v), r)
    BY <2>1, <2>2
  <2>4. ~WrongType(o, "hash") /\ DOMAIN Pair(f, HCur(o, f) + delta) \subseteq Elems
    BY <1>2, PairDomain DEF HIncrBad
  <2>5. Fits("hash", v) /\ (o = Nil \/ o.type = "hash") /\ "hash" \in Collections
    BY <1>0, <2>4, OverFits DEF v, HIncrVal
  <2>6. Puts(s, t, k, Put(o, "hash", v)) /\ Quiet(t) /\ t.res = r /\ IsCall(t)
    BY <2>3, <2>5, ChangePuts
  <2>7. QED BY <1>2, <2>1, <2>6 DEF v
<1>3. QED BY <1>1, <1>2

\* HINCRBY and HINCRBYFLOAT are safe, the latter logged as an HSET of the sum.
LEMMA HIncrSafe ==
  ASSUME NEW c, c.name \in {"HINCRBY", "HINCRBYFLOAT"}, c.key \in Keys, c.val[1] \in Elems,
         c.n \in 0 .. MaxInt
  PROVE  Safe(c)
<1> DEFINE k == c.key
           f == c.val[1]
           bad(o) == HIncrBad(o, f, c.n)
           new(o) == Put(o, "hash", HIncrVal(o, f, c.n))
           set(o) == [Command("HSET", k) EXCEPT !.val = Pair(f, HCur(o, f) + c.n)]
           eff(o) == IF c.name = "HINCRBY" THEN c ELSE set(o)
<1>0. ASSUME NEW o
      PROVE  set(o).name = "HSET" /\ set(o).key = k /\ set(o).val = Pair(f, HCur(o, f) + c.n)
  BY DEF Command
<1>1. ASSUME NEW s, Start(s), NEW o, o = Found(s, k), NEW u, u = Handler(s, c)
      PROVE  /\ bad(o) => Looks(s, u, k) /\ Logged(u, c) = <<>>
             /\ ~bad(o) => Puts(s, u, k, new(o)) /\ Logged(u, c) = <<eff(o)>>
  <2>1. PICK t : /\ t = HIncrBy(s, k, f, c.n)
                 /\ t.res = <<>> => u = t
                 /\ t.res # <<>> /\ c.name = "HINCRBY" => u = Dirty(t)
                 /\ t.res = <<HCur(o, f) + c.n>> /\ c.name # "HINCRBY" => u = Propagate(t, set(o))
    <3>1. PICK t : t = HIncrBy(s, k, f, c.n)
      OBVIOUS
    <3>2. CASE c.name = "HINCRBY"
      BY <1>1, <3>1, <3>2, DispatchCollections DEF cmdHIncrBy
    <3>3. CASE c.name = "HINCRBYFLOAT"
      <4>1. u = IF t.res # <<>> THEN Propagate(t, [Command("HSET", k) EXCEPT !.val = Pair(f, t.res[1])])
                                ELSE t
        BY <1>1, <3>1, <3>3, DispatchCollections DEF cmdHIncrByFloat, HIncrByFloat
      <4>2. ASSUME NEW x, t.res = <<x>> PROVE t.res # <<>> /\ t.res[1] = x
        BY <4>2
      <4>3. QED BY <3>1, <3>3, <4>1, <4>2
    <3>4. QED BY <3>2, <3>3
  <2> HIDE DEF set
  <2>2. CASE bad(o)
    <3>1. Looks(s, t, k) /\ t.res = <<>> /\ Quiet(t)
      BY <1>1, <2>1, <2>2, HIncrByDoes
    <3>2. QED BY <2>1, <2>2, <3>1, QuietLogged
  <2>3. CASE ~bad(o)
    <3>1. Puts(s, t, k, new(o)) /\ t.res = <<HCur(o, f) + c.n>> /\ Quiet(t) /\ IsCall(t)
      BY <1>1, <2>1, <2>3, HIncrByDoes
    <3>2. CASE c.name = "HINCRBY"
      <4>1. u = Dirty(t) /\ c.name \notin Canonical
        BY <2>1, <3>1, <3>2, CanonicalNames
      <4>2. SameTable(t, u) /\ u.eff = <<>> /\ u.dirty = TRUE
        BY <3>1, <4>1, DirtyFacts DEF Quiet
      <4>3. Puts(s, u, k, new(o)) /\ Logged(u, c) = <<c>>
        BY <3>1, <4>1, <4>2, SamePuts DEF Logged
      <4>4. QED BY <2>3, <3>2, <4>3
    <3>3. CASE c.name # "HINCRBY"
      <4>1. Puts(s, u, k, new(o)) /\ Logged(u, c) = <<set(o)>>
        BY <2>1, <3>1, <3>3, PropagatedYes
      <4>2. QED BY <2>3, <3>3, <4>1
    <3>4. QED BY <3>2, <3>3
  <2>4. QED BY <2>2, <2>3
<1>2. ASSUME NEW s, Start(s), NEW o, o = Found(s, k), ~bad(o)
      PROVE  Puts(s, Handler(s, eff(o)), k, new(o))
  <2>1. CASE c.name = "HINCRBY"
    BY <1>1, <1>2, <2>1
  <2>2. CASE c.name # "HINCRBY"
    <3>1. PICK e : e = set(o)
      OBVIOUS
    <3>2. e.name = "HSET" /\ e.key = k /\ e.val = Pair(f, HCur(o, f) + c.n)
      BY <1>0, <3>1
    <3>3. ~WrongType(o, "hash") /\ DOMAIN Pair(f, HCur(o, f) + c.n) \subseteq Elems
      BY <1>2, PairDomain DEF HIncrBad
    <3>4. Puts(s, Handler(s, e), k, new(o))
      BY <1>2, <3>2, <3>3, HSetRedone DEF HIncrVal
    <3>5. QED BY <2>2, <3>1, <3>4
  <2>3. QED BY <2>1, <2>2
<1> HIDE DEF bad, new, eff
<1>3. ASSUME NEW o, NEW n \in Stills, GoodObj(o)
      PROVE  Idle(c, k, o, n) \/ \E e, x : Does(c, k, o, n, e, x)
  <2>1. CASE bad(o)
    BY <1>1, <2>1 DEF Idle, Leads
  <2>2. CASE ~bad(o)
    <3>1. Does(c, k, o, n, eff(o), new(o))
      BY <1>1, <1>2, <2>2 DEF Does, Leads
    <3>2. QED BY <3>1
  <2>3. QED BY <2>1, <2>2
<1>4. QED BY <1>3, OneKeySafe DEF OneKey

-----------------------------------------------------------------------------
(* Sorted sets.                                                            *)

\* The score ZAdd gives a member, and when it gives none.
ZNext(o, m, score, flags) == IF "INCR" \in flags /\ m \in DOMAIN o.val THEN o.val[m] + score ELSE score
ZSkip(o, m, score, flags) ==
  LET in == m \in DOMAIN o.val
      next == ZNext(o, m, score, flags)
  IN  \/ in /\ "NX" \in flags
      \/ ~in /\ "XX" \in flags
      \/ in /\ "GT" \in flags /\ next <= o.val[m]
      \/ in /\ "LT" \in flags /\ next >= o.val[m]
ZRefused(o, flags) == WrongType(o, "zset") \/ (o = Nil /\ "XX" \in flags)
ZBad(o, m, score, flags) == ZRefused(o, flags) \/ ZSkip(o, m, score, flags)

\* ZAdd gives the member its next score, unless its flags skip it.
LEMMA ZAddDoes ==
  ASSUME NEW s, Start(s), NEW k \in Keys, NEW o, o = Found(s, k), NEW m \in Elems, NEW score,
         NEW flags, NEW t, t = ZAdd(s, k, m, score, flags)
  PROVE  /\ Quiet(t) /\ IsCall(t)
         /\ ZBad(o, m, score, flags) => Looks(s, t, k) /\ t.res = <<>>
         /\ ~ZBad(o, m, score, flags) =>
              /\ Puts(s, t, k, Put(o, "zset", Over(Pair(m, ZNext(o, m, score, flags)), o.val)))
              /\ t.res = Pair(m, ZNext(o, m, score, flags))
<1> DEFINE u == lookup(s, k)
           made == IF o = Nil THEN newCollection(u, k, "zset") ELSE u
           next == ZNext(o, m, score, flags)
           skip == ZSkip(o, m, score, flags)
<1>0. Found(u, k) = o /\ GoodObj(o) /\ Table0(u)
  BY LookedUp
<1>d. t = CASE ZRefused(o, flags) -> Return(u, <<>>)
            [] o.type = "zset" /\ skip -> Return(Change(u, k, "zset", o.val), <<>>)
            [] OTHER -> Return(Change(made, k, "zset", Over(Pair(m, next), o.val)), Pair(m, next))
  BY <1>0 DEF ZAdd, ZRefused, ZSkip, ZNext
<1>m. ASSUME NEW v PROVE Change(made, k, "zset", v) = Change(u, k, "zset", v)
  BY <1>0, ChangeMade
<1>n. o = Nil /\ skip => ZRefused(o, flags)
  BY NilFacts DEF ZRefused, ZSkip
<1> HIDE DEF u, made, next, skip
<1>1. CASE ZRefused(o, flags)
  <2>1. PICK r : r = <<>> /\ t = Return(u, r)
    <3>1. o.type # "zset"
      BY <1>1, NilFacts DEF ZRefused, WrongType
    <3>2. QED BY <1>d, <1>1, <3>1
  <2>2. QED BY <1>1, <2>1, LookupLooks DEF ZBad, u
<1>2. CASE ~ZRefused(o, flags) /\ skip
  <2>1. o # Nil /\ ~WrongType(o, "zset")
    BY <1>n, <1>2 DEF ZRefused
  <2>2. o.type = "zset" /\ Proper(o) /\ Fits("zset", o.val) /\ "zset" \in Collections
    BY <1>0, <2>1, GoodFacts DEF WrongType, Proper, Fits, Collections
  <2>3. PICK r : r = <<>> /\ t = Return(Change(u, k, "zset", o.val), r)
    BY <1>d, <1>2, <2>2
  <2>4. Puts(s, t, k, Put(o, "zset", o.val)) /\ Quiet(t) /\ t.res = r /\ IsCall(t)
    BY <2>2, <2>3, ChangePuts DEF u
  <2>5. Put(o, "zset", o.val) = o
    BY <2>2 DEF Put, Proper, Shape
  <2>6. Looks(s, t, k)
    BY <2>4, <2>5, PutsBack
  <2>7. QED BY <1>2, <2>3, <2>4, <2>6 DEF ZBad, skip
<1>3. CASE ~ZRefused(o, flags) /\ ~skip
  <2>1. ~WrongType(o, "zset") /\ DOMAIN Pair(m, next) \subseteq Elems
    BY <1>3, PairDomain DEF ZRefused
  <2>2. Fits("zset", Over(Pair(m, next), o.val)) /\ (o = Nil \/ o.type = "zset") /\ "zset" \in Collections
    BY <1>0, <2>1, OverFits
  <2>3. PICK r, v : /\ r = Pair(m, next) /\ v = Over(Pair(m, next), o.val)
                    /\ t = Return(Change(u, k, "zset", v), r)
    BY <1>d, <1>m, <1>3
  <2>4. Puts(s, t, k, Put(o, "zset", v)) /\ Quiet(t) /\ t.res = r /\ IsCall(t)
    BY <2>2, <2>3, ChangePuts DEF u
  <2>5. QED BY <1>3, <2>3, <2>4 DEF ZBad, skip, next
<1>4. QED BY <1>1, <1>2, <1>3

\* A pair is not the empty function.
LEMMA PairNotNil == ASSUME NEW m, NEW v PROVE Pair(m, v) # <<>>
<1>1. m \in DOMAIN Pair(m, v) /\ m \notin DOMAIN <<>>
  BY PairFacts, NilSeq
<1>2. QED BY <1>1

\* The one member of a pair, and the effect its score is logged as.
Sole(f) == CHOOSE x \in DOMAIN f : TRUE
ZEffect(k, m, v) == [Command("ZADD", k) EXCEPT !.val = Pair(m, v)]

\* cmdZAdd writes what ZAdd does and is logged with the score that came of it.
LEMMA CmdZAdd ==
  ASSUME NEW s, Start(s), NEW d, d.key \in Keys, NEW o, o = Found(s, d.key),
         NEW m \in Elems, m = Sole(d.val), NEW u, u = cmdZAdd(s, d), NEW c
  PROVE  /\ ZBad(o, m, d.val[m], d.opts) => Looks(s, u, d.key) /\ Logged(u, c) = <<>>
         /\ ~ZBad(o, m, d.val[m], d.opts) =>
              LET v == ZNext(o, m, d.val[m], d.opts)
              IN  /\ Puts(s, u, d.key, Put(o, "zset", Over(Pair(m, v), o.val)))
                  /\ Logged(u, c) = <<ZEffect(d.key, m, v)>>
<1> DEFINE k == d.key
           v == ZNext(o, m, d.val[m], d.opts)
<1>1. PICK t : /\ t = ZAdd(s, k, m, d.val[m], d.opts)
               /\ t.res = <<>> => u = t
               /\ t.res # <<>> => u = Propagate(t, [Command("ZADD", k) EXCEPT !.val = t.res])
  BY DEF cmdZAdd, Sole
<1>2. CASE ZBad(o, m, d.val[m], d.opts)
  <2>1. Looks(s, t, k) /\ t.res = <<>> /\ Quiet(t)
    BY <1>1, <1>2, ZAddDoes
  <2>2. QED BY <1>1, <1>2, <2>1, QuietLogged
<1>3. CASE ~ZBad(o, m, d.val[m], d.opts)
  <2>1. Puts(s, t, k, Put(o, "zset", Over(Pair(m, v), o.val))) /\ t.res = Pair(m, v) /\ Quiet(t) /\ IsCall(t)
    BY <1>1, <1>3, ZAddDoes
  <2>2. u = Propagate(t, ZEffect(k, m, v))
    BY <1>1, <2>1, PairNotNil DEF ZEffect
  <2>3. Puts(s, u, k, Put(o, "zset", Over(Pair(m, v), o.val))) /\ Logged(u, c) = <<ZEffect(k, m, v)>>
    BY <2>1, <2>2, PropagatedYes
  <2>4. QED BY <1>3, <2>3
<1>4. QED BY <1>2, <1>3

\* That effect, executed, gives the member the same score.
LEMMA ZAddRedone ==
  ASSUME NEW s, Start(s), NEW k \in Keys, NEW o, o = Found(s, k), ~WrongType(o, "zset"),
         NEW m \in Elems, NEW v, NEW e, e = ZEffect(k, m, v)
  PROVE  Puts(s, Handler(s, e), k, Put(o, "zset", Over(Pair(m, v), o.val)))
<1>1. e.name = "ZADD" /\ e.key = k /\ e.val = Pair(m, v) /\ e.opts = {}
  BY DEF ZEffect, Command
<1>2. m = Sole(e.val) /\ e.val[m] = v
  <2>1. DOMAIN Pair(m, v) = {m} /\ Pair(m, v)[m] = v
    BY PairFacts
  <2>2. Sole(Pair(m, v)) = m
    BY <2>1 DEF Sole
  <2>3. QED BY <1>1, <2>1, <2>2
<1>3. Handler(s, e) = cmdZAdd(s, e)
  BY <1>1, DispatchCollections
<1>4. ZNext(o, m, v, {}) = v /\ ~ZBad(o, m, v, {})
  BY DEF ZNext, ZBad, ZSkip, ZRefused
<1>5. PICK u : u = cmdZAdd(s, e)
  OBVIOUS
<1>6. ~ZBad(o, m, e.val[m], e.opts) /\ ZNext(o, m, e.val[m], e.opts) = v /\ e.key \in Keys /\ o = Found(s, e.key)
  BY <1>1, <1>2, <1>4
<1>7. Puts(s, u, e.key, Put(o, "zset", Over(Pair(m, v), o.val)))
  BY <1>2, <1>5, <1>6, CmdZAdd
<1>8. QED BY <1>1, <1>3, <1>5, <1>7

\* Every command that cmdZAdd carries out is safe.
LEMMA ZAddFamily ==
  ASSUME NEW c, NEW d, \A s : Handler(s, c) = cmdZAdd(s, d), d.key \in Keys,
         DOMAIN d.val \subseteq Elems, DOMAIN d.val # {}
  PROVE  Safe(c)
<1> DEFINE k == d.key
<1>0. PICK m : m = Sole(d.val) /\ m \in Elems
  BY DEF Sole
<1> DEFINE bad(o) == ZBad(o, m, d.val[m], d.opts)
           v(o) == ZNext(o, m, d.val[m], d.opts)
           new(o) == Put(o, "zset", Over(Pair(m, v(o)), o.val))
           eff(o) == ZEffect(k, m, v(o))
<1>1. ASSUME NEW s, Start(s), NEW o, o = Found(s, k), NEW u, u = Handler(s, c)
      PROVE  /\ bad(o) => Looks(s, u, k) /\ Logged(u, c) = <<>>
             /\ ~bad(o) => Puts(s, u, k, new(o)) /\ Logged(u, c) = <<eff(o)>>
  <2>1. u = cmdZAdd(s, d)
    BY <1>1
  <2>2. CASE bad(o)
    BY <1>0, <1>1, <2>1, <2>2, CmdZAdd
  <2>3. CASE ~bad(o)
    BY <1>0, <1>1, <2>1, <2>3, CmdZAdd
  <2>4. QED BY <2>2, <2>3
<1>2. ASSUME NEW s, Start(s), NEW o, o = Found(s, k), ~bad(o)
      PROVE  Puts(s, Handler(s, eff(o)), k, new(o))
  <2>1. ~WrongType(o, "zset")
    BY <1>2 DEF ZBad, ZRefused
  <2>2. QED BY <1>0, <1>2, <2>1, ZAddRedone
<1> HIDE DEF bad, new, eff
<1>3. ASSUME NEW o, NEW n \in Stills, GoodObj(o)
      PROVE  Idle(c, k, o, n) \/ \E e, x : Does(c, k, o, n, e, x)
  <2>1. CASE bad(o)
    BY <1>1, <2>1 DEF Idle, Leads
  <2>2. CASE ~bad(o)
    <3>1. Does(c, k, o, n, eff(o), new(o))
      BY <1>1, <1>2, <2>2 DEF Does, Leads
    <3>2. QED BY <3>1
  <2>3. QED BY <2>1, <2>2
<1>4. QED BY <1>3, OneKeySafe DEF OneKey

\* ZADD and ZINCRBY are safe.
LEMMA ZAddSafe ==
  ASSUME NEW c, IsCommand(c), c.name \in {"ZADD", "ZINCRBY"}, c.key \in Keys,
         DOMAIN c.val \subseteq Elems, DOMAIN c.val # {}
  PROVE  Safe(c)
<1>1. CASE c.name = "ZADD"
  <2>1. \A s : Handler(s, c) = cmdZAdd(s, c)
    BY <1>1, DispatchCollections
  <2>2. QED BY <2>1, ZAddFamily
<1>2. CASE c.name = "ZINCRBY"
  <2>1. PICK d : d = [c EXCEPT !.opts = {"INCR"}]
    OBVIOUS
  <2>2. d.key = c.key /\ d.val = c.val
    BY <2>1 DEF IsCommand
  <2>3. \A s : Handler(s, c) = cmdZAdd(s, d)
    BY <1>2, <2>1, DispatchCollections DEF cmdZIncrBy
  <2>4. QED BY <2>2, <2>3, ZAddFamily
<1>3. QED BY <1>1, <1>2

\* The end of a sorted set a pop takes, and the effect it is logged as.
Highest(c) == "MAX" \in c.opts
Ends(o, highest) == {Head(Reversed(All(o.val), highest))}

\* ZPop takes the first or last member out of a sorted set.
LEMMA ZPopDoes ==
  ASSUME NEW s, Start(s), NEW k \in Keys, NEW o, o = Found(s, k), NEW h, NEW m, m = Ends(o, h),
         NEW t, t = ZPop(s, k, h)
  PROVE  /\ Quiet(t) /\ IsCall(t)
         /\ o.type # "zset" => Looks(s, t, k) /\ t.res = {}
         /\ o.type = "zset" => t.res = m /\ t.res # {}
         /\ o.type = "zset" /\ RemoveBad(o, "zset", m) => Looks(s, t, k)
         /\ ~RemoveBad(o, "zset", m) => Puts(s, t, k, Put(o, "zset", Without(o, m)))
<1>0. Found(lookup(s, k), k) = o /\ GoodObj(o)
  BY FoundAgain
<1>1. CASE o.type # "zset"
  <2>1. PICK x : x = {} /\ t = Return(lookup(s, k), x)
    BY <1>0, <1>1 DEF ZPop
  <2>2. Looks(s, t, k) /\ Quiet(t) /\ t.res = x /\ IsCall(t)
    BY <2>1, LookupLooks
  <2>3. QED BY <1>1, <2>1, <2>2 DEF RemoveBad
<1>2. CASE o.type = "zset"
  <2>1. t = Return(RemoveMembers(s, k, "zset", m), m)
    BY <1>0, <1>2 DEF ZPop, Ends, RemoveMembers
  <2>2. PICK x : x = m
    OBVIOUS
  <2>4. PICK w : w = RemoveMembers(s, k, "zset", x) /\ t = Return(w, x)
    BY <2>1, <2>2
  <2>5. "zset" \in Maps
    BY DEF Maps
  <2>6. /\ RemoveBad(o, "zset", x) => No(s, w, k)
        /\ ~RemoveBad(o, "zset", x) => Yes(s, w, k, Put(o, "zset", Without(o, x)))
    BY <2>4, <2>5, RemoveMembersDoes
  <2>7. IsCall(w) /\ Quiet(w)
    BY <2>6 DEF No, Yes
  <2>8. SameTable(w, t) /\ Quiet(t) /\ IsCall(t) /\ t.res = x
    BY <2>4, <2>7, ReturnFacts DEF Quiet, SameTable
  <2>9. /\ RemoveBad(o, "zset", x) => Looks(s, t, k)
        /\ ~RemoveBad(o, "zset", x) => Puts(s, t, k, Put(o, "zset", Without(o, x)))
    BY <2>6, <2>8, SamePuts DEF No, Yes
  <2>10. m # {}
    BY DEF Ends
  <2>11. QED BY <1>2, <2>2, <2>8, <2>9, <2>10
<1>3. QED BY <1>1, <1>2

ZRemEffect(k, m) == [Command("ZREM", k) EXCEPT !.val = AsSet(m)]

\* The ZREM a pop is logged as takes the same member out.
LEMMA ZRemRedone ==
  ASSUME NEW s, Start(s), NEW k \in Keys, NEW o, o = Found(s, k), NEW m, NEW e, e = ZRemEffect(k, m)
  PROVE  /\ RemoveBad(o, "zset", m) => Looks(s, Handler(s, e), k)
         /\ ~RemoveBad(o, "zset", m) => Puts(s, Handler(s, e), k, Put(o, "zset", Without(o, m)))
<1>1. e.name = "ZREM" /\ e.key = k /\ e.val = AsSet(m)
  BY DEF ZRemEffect, Command
<1>2. PICK x : x = m /\ DOMAIN e.val = x
  <2>1. DOMAIN AsSet(m) = m
    BY DEF AsSet
  <2>2. QED BY <1>1, <2>1
<1>3. PICK t : t = RemoveMembers(s, k, "zset", x) /\ Handler(s, e) = Reported(t)
  BY <1>1, <1>2, DispatchCollections DEF cmdZRem
<1>4. "zset" \in Maps /\ e.name \notin Canonical
  BY <1>1, CanonicalNames DEF Maps
<1>5. /\ RemoveBad(o, "zset", x) => No(s, t, k)
      /\ ~RemoveBad(o, "zset", x) => Yes(s, t, k, Put(o, "zset", Without(o, x)))
  BY <1>3, <1>4, RemoveMembersDoes
<1>6. /\ RemoveBad(o, "zset", x) => Looks(s, Handler(s, e), k)
      /\ ~RemoveBad(o, "zset", x) => Puts(s, Handler(s, e), k, Put(o, "zset", Without(o, x)))
  BY <1>3, <1>4, <1>5, ReportedNo, ReportedYes
<1>7. QED BY <1>2, <1>6

\* zpop writes what ZPop does and is logged as a ZREM of the member it took.
LEMMA CmdZPop ==
  ASSUME NEW s, Start(s), NEW c, c.key \in Keys, NEW o, o = Found(s, c.key),
         NEW h, h = Highest(c), NEW m, m = Ends(o, h), NEW u, u = zpop(s, c), NEW d
  PROVE  /\ o.type # "zset" => Looks(s, u, c.key) /\ Logged(u, d) = <<>>
         /\ o.type = "zset" => Logged(u, d) = <<ZRemEffect(c.key, m)>>
         /\ o.type = "zset" /\ RemoveBad(o, "zset", m) => Looks(s, u, c.key)
         /\ ~RemoveBad(o, "zset", m) => Puts(s, u, c.key, Put(o, "zset", Without(o, m)))
<1> DEFINE k == c.key
<1>1. PICK t : /\ t = ZPop(s, k, h)
               /\ u = IF t.res # {} THEN Propagate(t, [Command("ZREM", k) EXCEPT !.val = AsSet(t.res)])
                                    ELSE t
  BY DEF zpop, propagateZRem, Highest
<1>2. /\ Quiet(t) /\ IsCall(t)
      /\ o.type # "zset" => Looks(s, t, k) /\ t.res = {}
      /\ o.type = "zset" => t.res = m /\ t.res # {}
      /\ o.type = "zset" /\ RemoveBad(o, "zset", m) => Looks(s, t, k)
      /\ ~RemoveBad(o, "zset", m) => Puts(s, t, k, Put(o, "zset", Without(o, m)))
  BY <1>1, ZPopDoes
<1>3. CASE o.type # "zset"
  <2>1. u = t /\ Looks(s, t, k)
    BY <1>1, <1>2, <1>3
  <2>2. QED BY <1>2, <1>3, <2>1, QuietLogged DEF RemoveBad
<1>4. CASE o.type = "zset"
  <2>1. u = Propagate(t, ZRemEffect(k, m))
    BY <1>1, <1>2, <1>4 DEF ZRemEffect
  <2>2. CASE RemoveBad(o, "zset", m)
    <3>1. Looks(s, t, k) /\ Quiet(t) /\ IsCall(t)
      BY <1>2, <1>4, <2>2
    <3>2. Looks(s, u, k) /\ Logged(u, d) = <<ZRemEffect(k, m)>>
      BY <2>1, <3>1, PropagatedOk
    <3>3. QED BY <1>4, <2>2, <3>2
  <2>3. CASE ~RemoveBad(o, "zset", m)
    <3>1. PICK new : new = Put(o, "zset", Without(o, m))
      OBVIOUS
    <3>2. Puts(s, t, k, new) /\ Quiet(t) /\ IsCall(t)
      BY <1>2, <2>3, <3>1
    <3>3. Puts(s, u, k, new) /\ Logged(u, d) = <<ZRemEffect(k, m)>>
      BY <2>1, <3>2, PropagatedYes
    <3>4. QED BY <1>4, <2>3, <3>1, <3>3
  <2>4. QED BY <2>2, <2>3
<1>5. QED BY <1>3, <1>4

\* ZPOPMIN and ZPOPMAX are safe.
LEMMA ZPopSafe ==
  ASSUME NEW c, c.name = "ZPOP", c.key \in Keys
  PROVE  Safe(c)
<1> DEFINE k == c.key
<1>0. PICK h : h = Highest(c)
  OBVIOUS
<1>1. ASSUME NEW o, NEW n \in Stills, GoodObj(o)
      PROVE  Idle(c, k, o, n) \/ (\E e, x : Does(c, k, o, n, e, x)) \/ \E e : Notes(c, k, o, n, e)
  <2>0. PICK m, e : m = Ends(o, h) /\ e = ZRemEffect(k, m)
    OBVIOUS
  <2>1. ASSUME NEW s, Start(s), Found(s, k) = o, NEW u, u = Handler(s, c)
        PROVE  /\ o.type # "zset" => Looks(s, u, c.key) /\ Logged(u, c) = <<>>
               /\ o.type = "zset" => Logged(u, c) = <<e>>
               /\ o.type = "zset" /\ RemoveBad(o, "zset", m) => Looks(s, u, c.key)
               /\ ~RemoveBad(o, "zset", m) => Puts(s, u, c.key, Put(o, "zset", Without(o, m)))
    <3>1. u = zpop(s, c)
      BY <2>1, DispatchCollections
    <3>2. /\ o.type # "zset" => Looks(s, u, c.key) /\ Logged(u, c) = <<>>
          /\ o.type = "zset" => Logged(u, c) = <<ZRemEffect(c.key, m)>>
          /\ o.type = "zset" /\ RemoveBad(o, "zset", m) => Looks(s, u, c.key)
          /\ ~RemoveBad(o, "zset", m) => Puts(s, u, c.key, Put(o, "zset", Without(o, m)))
      <4>1. o = Found(s, c.key) /\ m = Ends(o, h)
        BY <2>0, <2>1
      <4>2. Start(s) /\ c.key \in Keys
        BY <2>1
      <4>3. QED BY ONLY <1>0, <3>1, <4>1, <4>2, CmdZPop
    <3>3. QED BY <2>0, <3>2
  <2>2. CASE o.type # "zset"
    BY <2>1, <2>2 DEF Idle, Leads
  <2>3. CASE o.type = "zset" /\ RemoveBad(o, "zset", m)
    <3>1. ASSUME NEW s, Start(s), Found(s, k) = o PROVE Looks(s, Handler(s, e), k)
      BY <2>0, <2>3, <3>1, ZRemRedone
    <3>2. Notes(c, k, o, n, e)
      BY <2>1, <2>3, <3>1 DEF Notes, Leads
    <3>3. QED BY <3>2
  <2>4. CASE ~RemoveBad(o, "zset", m)
    <3>0. PICK new : new = Put(o, "zset", Without(o, m))
      OBVIOUS
    <3>1. ASSUME NEW s, Start(s), Found(s, k) = o PROVE Puts(s, Handler(s, e), k, new)
      BY <2>0, <2>4, <3>0, <3>1, ZRemRedone
    <3>2. o.type = "zset"
      BY <2>4 DEF RemoveBad
    <3>3. Does(c, k, o, n, e, new)
      BY <2>1, <2>4, <3>0, <3>1, <3>2 DEF Does, Leads
    <3>4. QED BY <3>3
  <2>5. QED BY <2>2, <2>3, <2>4
<1>2. QED BY <1>1, OneKeySafe DEF OneKey

\* BZPOPMIN and BZPOPMAX are safe, served at once.
LEMMA BZPopSafe ==
  ASSUME NEW c, IsCommand(c), c.name = "BZPOP", c.key \in Keys
  PROVE  Safe(c)
<1> DEFINE k == c.key
<1>0. PICK h, e : h = Highest(c) /\ e = [c EXCEPT !.name = "ZPOP"]
  OBVIOUS
<1>e. e.name = "ZPOP" /\ e.key = k /\ e.opts = c.opts
  BY <1>0 DEF IsCommand
<1>1. ASSUME NEW o, NEW n \in Stills, GoodObj(o)
      PROVE  Idle(c, k, o, n) \/ (\E f, x : Does(c, k, o, n, f, x)) \/ \E f : Notes(c, k, o, n, f)
  <2>0. PICK m : m = Ends(o, h)
    OBVIOUS
  <2>1. ASSUME NEW s, Start(s), Found(s, k) = o, NEW u, u = Handler(s, c)
        PROVE  /\ o.type # "zset" => Looks(s, u, c.key) /\ Logged(u, c) = <<>>
               /\ o.type = "zset" => Logged(u, c) = <<e>>
               /\ o.type = "zset" /\ RemoveBad(o, "zset", m) => Looks(s, u, c.key)
               /\ ~RemoveBad(o, "zset", m) => Puts(s, u, c.key, Put(o, "zset", Without(o, m)))
    <3>1. PICK t : t = ZPop(s, k, h) /\ u = IF t.res # {} THEN Propagate(t, e) ELSE t
      BY <1>0, <2>1, DispatchCollections DEF blockingZPop, Highest
    <3>2. /\ Quiet(t) /\ IsCall(t)
          /\ o.type # "zset" => Looks(s, t, k) /\ t.res = {}
          /\ o.type = "zset" => t.res = m /\ t.res # {}
          /\ o.type = "zset" /\ RemoveBad(o, "zset", m) => Looks(s, t, k)
          /\ ~RemoveBad(o, "zset", m) => Puts(s, t, k, Put(o, "zset", Without(o, m)))
      BY <2>0, <2>1, <3>1, ZPopDoes
    <3>3. CASE o.type # "zset"
      <4>1. u = t /\ Looks(s, t, k)
        BY <3>1, <3>2, <3>3
      <4>2. QED BY <3>2, <3>3, <4>1, QuietLogged DEF RemoveBad
    <3>4. CASE o.type = "zset"
      <4>1. u = Propagate(t, e)
        BY <3>1, <3>2, <3>4
      <4>2. CASE RemoveBad(o, "zset", m)
        <5>1. Looks(s, t, k) /\ Quiet(t) /\ IsCall(t)
          BY <3>2, <3>4, <4>2
        <5>2. Looks(s, u, k) /\ Logged(u, c) = <<e>>
          BY <4>1, <5>1, PropagatedOk
        <5>3. QED BY <3>4, <4>2, <5>2
      <4>3. CASE ~RemoveBad(o, "zset", m)
        <5>1. PICK new : new = Put(o, "zset", Without(o, m))
          OBVIOUS
        <5>2. Puts(s, t, k, new) /\ Quiet(t) /\ IsCall(t)
          BY <3>2, <4>3, <5>1
        <5>3. Puts(s, u, k, new) /\ Logged(u, c) = <<e>>
          BY <4>1, <5>2, PropagatedYes
        <5>4. QED BY <3>4, <4>3, <5>1, <5>3
      <4>4. QED BY <4>2, <4>3
    <3>5. QED BY <3>3, <3>4
  <2>2. ASSUME NEW s, Start(s), Found(s, k) = o
        PROVE  /\ o.type = "zset" /\ RemoveBad(o, "zset", m) => Looks(s, Handler(s, e), k)
               /\ ~RemoveBad(o, "zset", m) => Puts(s, Handler(s, e), k, Put(o, "zset", Without(o, m)))
    <3>1. PICK u : u = zpop(s, e) /\ Handler(s, e) = u
      BY <1>e, DispatchCollections
    <3>2. h = Highest(e) /\ e.key \in Keys /\ o = Found(s, e.key)
      BY <1>0, <1>e, <2>2 DEF Highest
    <3>3. /\ o.type = "zset" /\ RemoveBad(o, "zset", m) => Looks(s, u, e.key)
          /\ ~RemoveBad(o, "zset", m) => Puts(s, u, e.key, Put(o, "zset", Without(o, m)))
      BY <2>0, <2>2, <3>1, <3>2, CmdZPop
    <3>4. QED BY <1>e, <3>1, <3>3
  <2>3. CASE o.type # "zset"
    BY <2>1, <2>3 DEF Idle, Leads
  <2>4. CASE o.type = "zset" /\ RemoveBad(o, "zset", m)
    <3>1. Notes(c, k, o, n, e)
      BY <2>1, <2>2, <2>4 DEF Notes, Leads
    <3>2. QED BY <3>1
  <2>5. CASE ~RemoveBad(o, "zset", m)
    <3>0. PICK new : new = Put(o, "zset", Without(o, m))
      OBVIOUS
    <3>1. o.type = "zset"
      BY <2>5 DEF RemoveBad
    <3>2. Does(c, k, o, n, e, new)
      BY <2>1, <2>2, <2>5, <3>0, <3>1 DEF Does, Leads
    <3>3. QED BY <3>2
  <2>6. QED BY <2>3, <2>4, <2>5
<1>2. QED BY <1>1, OneKeySafe DEF OneKey

\* The members a ZREMRANGE command removes.
RangeMembers(o, by, lo, hi) == IF o.type = "zset" THEN rangeBy(o.val, by, lo, hi, FALSE) ELSE {}

\* The ZREMRANGEBY commands are safe.
LEMMA ZRemRangeSafe ==
  ASSUME NEW c, c.name = "ZREMRANGE", c.key \in Keys
  PROVE  Safe(c)
<1> DEFINE k == c.key
           ms(o) == RangeMembers(o, By(c), c.val[1], c.val[2])
           bad(o) == RemoveBad(o, "zset", ms(o))
           new(o) == Put(o, "zset", Without(o, ms(o)))
<1>1. ASSUME NEW s, Start(s), NEW o, o = Found(s, k)
      PROVE  \E t : /\ Handler(s, c) = Reported(t)
                    /\ bad(o) => No(s, t, k)
                    /\ ~bad(o) => Yes(s, t, k, new(o))
  <2>1. Found(lookup(s, k), k) = o /\ "zset" \in Maps
    BY <1>1, FoundAgain DEF Maps
  <2>2. Handler(s, c) = Reported(RemoveMembers(s, k, "zset", ms(Found(lookup(s, k), k))))
    BY <1>1, DispatchCollections DEF zremrange, ZRemRange, RemoveMembers, RangeMembers
  <2> HIDE DEF ms
  <2>3. PICK t : t = RemoveMembers(s, k, "zset", ms(o)) /\ Handler(s, c) = Reported(t)
    BY <2>1, <2>2
  <2>4. QED BY <1>1, <2>1, <2>3, RemoveMembersDoes
<1> HIDE DEF new, bad
<1>2. ASSUME NEW o
      PROVE  \/ \A s : Start(s) /\ Found(s, k) = o => \E t : No(s, t, k) /\ Handler(s, c) = Reported(t)
             \/ \A s : Start(s) /\ Found(s, k) = o
                        => \E t : Yes(s, t, k, new(o)) /\ Handler(s, c) = Reported(t)
  BY <1>1
<1>3. Verbatim(c, k)
  BY <1>2 DEF Verbatim
<1>4. QED BY <1>3, VerbatimSafe, CanonicalNames

-----------------------------------------------------------------------------
(* Commands on two keys.                                                   *)

\* A call that has looked up R and written W, each key j of it with g[j].
Acts(s, t, R, W, g) == At(s, t, R, W) /\ \A j \in W : t.obj[j] = g[j]

\* What is found under two keys, as far as they are among R.
Given(s, R, k1, o1, k2, o2) ==
  (k1 \in R => Found(s, k1) = o1) /\ (k2 \in R => Found(s, k2) = o2)

\* c changes nothing; or it writes the keys of W and is logged as e, which does the same.
Quietly(c, R, k1, o1, k2, o2) ==
  \A s : Start(s) /\ Given(s, R, k1, o1, k2, o2)
           => At(s, Handler(s, c), R, {}) /\ Logged(Handler(s, c), c) = <<>>
\* c writes g at W, and is logged as e, which does so too when it is loaded.
Makes(c, e, R, W, g, k1, o1, k2, o2) ==
  /\ \A s : Start(s) /\ Given(s, R, k1, o1, k2, o2)
              => Acts(s, Handler(s, c), R, W, g) /\ Logged(Handler(s, c), c) = <<e>>
  /\ \A s : Start(s) /\ Given(s, R, k1, o1, k2, o2) => \E Q : Acts(s, Handler(s, e), Q, W, g)

\* For what it finds at its two keys, c only looks, or makes the same of them and is logged.
TwoKeys(c, k1, k2) ==
  \A o1, o2 : GoodObj(o1) /\ GoodObj(o2) /\ (k1 = k2 => o1 = o2) =>
    \/ \E R : R \subseteq Keys /\ Quietly(c, R, k1, o1, k2, o2)
    \/ \E e, R, W, g : R \subseteq Keys /\ Makes(c, e, R, W, g, k1, o1, k2, o2)

\* A command on two keys is safe if what it finds at both decides what it does, and its effect,
\* loaded, does that too.
LEMMA TwoKeysSafe ==
  ASSUME NEW c, NEW k1 \in Keys, NEW k2 \in Keys, TwoKeys(c, k1, k2)
  PROVE  Safe(c)
<1>1. ASSUME NEW n \in Stills, NEW s, Leads(s, n) PROVE Faithful(c, s)
  <2> DEFINE o1 == Found(s, k1)
             o2 == Found(s, k2)
             t == Handler(s, c)
  <2>0. GoodObj(o1) /\ GoodObj(o2) /\ (k1 = k2 => o1 = o2) /\ Start(s)
    BY <1>1, FoundAgain DEF Leads
  <2>1. ASSUME NEW R, R \subseteq Keys, Quietly(c, R, k1, o1, k2, o2) PROVE Faithful(c, s)
    <3>1. At(s, t, R, {}) /\ Logged(t, c) = <<>>
      BY <2>0, <2>1 DEF Quietly, Given
    <3>2. QED BY <2>1, <3>1 DEF Faithful
  <2>2. ASSUME NEW e, NEW R, NEW W, NEW g, R \subseteq Keys, Makes(c, e, R, W, g, k1, o1, k2, o2)
        PROVE  Faithful(c, s)
    <3>1. At(s, t, R, W) /\ (\A j \in W : t.obj[j] = g[j]) /\ Logged(t, c) = <<e>>
      BY <2>0, <2>2 DEF Makes, Given, Acts
    <3>2. ASSUME NEW s1, Loads(s1, s, R) PROVE Table0(Handler(s1, e)) /\ Handler(s1, e).obj = t.obj
      <4>1. Given(s1, R, k1, o1, k2, o2) /\ Start(s1)
        BY <3>2, LoadsFacts DEF Given, Loads
      <4>2. PICK Q : Acts(s1, Handler(s1, e), Q, W, g)
        BY <2>2, <4>1 DEF Makes
      <4> HIDE DEF t
      <4>3. PICK u : u = Handler(s1, e)
        OBVIOUS
      <4>4. At(s1, u, Q, W) /\ \A j \in W : u.obj[j] = t.obj[j]
        BY <3>1, <4>2, <4>3 DEF Acts
      <4>5. QED BY <3>1, <3>2, <4>3, <4>4, AtRedoes
    <3>3. Redoes(e, s, t, R)
      BY <3>2 DEF Redoes
    <3>4. QED BY <2>2, <3>1, <3>3 DEF Faithful
  <2>3. QED BY <2>0, <2>1, <2>2 DEF TwoKeys
<1>2. ASSUME NEW n \in Stills, NEW s1, NEW s2, Leads(s1, n), Leads(s2, n), Alike(s1, s2)
      PROVE  Alike(Handler(s1, c), Handler(s2, c))
  <2> DEFINE o1 == Found(s1, k1)
             o2 == Found(s1, k2)
             t1 == Handler(s1, c)
             t2 == Handler(s2, c)
  <2>0. /\ GoodObj(o1) /\ GoodObj(o2) /\ (k1 = k2 => o1 = o2) /\ Start(s1) /\ Start(s2)
        /\ Found(s2, k1) = o1 /\ Found(s2, k2) = o2 /\ s1.mode = s2.mode /\ s1.clock = s2.clock
    BY <1>2, FoundAgain DEF Leads, Alike
  <2>1. ASSUME NEW R, R \subseteq Keys, Quietly(c, R, k1, o1, k2, o2) PROVE Alike(t1, t2)
    <3>1. At(s1, t1, R, {}) /\ At(s2, t2, R, {})
      BY <2>0, <2>1 DEF Quietly, Given
    <3>2. QED BY <1>2, <2>0, <3>1, AtAlike
  <2>2. ASSUME NEW e, NEW R, NEW W, NEW g, R \subseteq Keys, Makes(c, e, R, W, g, k1, o1, k2, o2)
        PROVE  Alike(t1, t2)
    <3>1. Acts(s1, t1, R, W, g) /\ Acts(s2, t2, R, W, g)
      BY <2>0, <2>2 DEF Makes, Given
    <3> HIDE DEF t1, t2
    <3>2. At(s1, t1, R, W) /\ At(s2, t2, R, W) /\ \A j \in W : t1.obj[j] = t2.obj[j]
      BY <3>1 DEF Acts
    <3>3. QED BY <1>2, <2>0, <3>2, AtAlike
  <2>3. QED BY <2>0, <2>1, <2>2 DEF TwoKeys
<1>3. QED BY <1>1, <1>2 DEF Safe

\* What a method did and answered.
Gives(s, t, R, W, g, r) == Acts(s, t, R, W, g) /\ Quiet(t) /\ IsCall(t) /\ t.res = r

\* An answer changes nothing of what two keys were left as.
LEMMA SameActs ==
  ASSUME NEW s, NEW t, NEW u, NEW R, NEW W, NEW g, Acts(s, t, R, W, g), SameTable(t, u)
  PROVE  Acts(s, u, R, W, g)
BY SameAt DEF Acts, SameTable

\* A call that counts a change is logged as it was sent, unless it must name its own effect.
LEMMA DirtyGives ==
  ASSUME NEW s, NEW t, NEW R, NEW W, NEW g, Acts(s, t, R, W, g), Quiet(t), IsCall(t), NEW c,
         c.name \notin Canonical, NEW u, u = Dirty(t)
  PROVE  Acts(s, u, R, W, g) /\ Logged(u, c) = <<c>>
<1>1. SameTable(t, u) /\ u.eff = <<>> /\ u.dirty = TRUE
  BY DirtyFacts DEF Quiet
<1>2. QED BY <1>1, SameActs DEF Logged

\* A call that names its effect is logged as that effect.
LEMMA PropagateGives ==
  ASSUME NEW s, NEW t, NEW R, NEW W, NEW g, Acts(s, t, R, W, g), Quiet(t), IsCall(t), NEW c, NEW e,
         NEW u, u = Propagate(t, e)
  PROVE  Acts(s, u, R, W, g) /\ Logged(u, c) = <<e>>
<1>1. SameTable(t, u) /\ u.eff = <<e>>
  BY PropagateFacts DEF Quiet
<1>2. QED BY <1>1, SameActs DEF Logged

\* A method that answered yes, or no, reported.
LEMMA ReportedGives ==
  ASSUME NEW s, NEW t, NEW R, NEW W, NEW g, NEW c, c.name \notin Canonical, NEW u, u = Reported(t)
  PROVE  /\ Gives(s, t, R, W, g, TRUE) => Acts(s, u, R, W, g) /\ Logged(u, c) = <<c>>
         /\ Gives(s, t, R, W, g, FALSE) => Acts(s, u, R, W, g) /\ Logged(u, c) = <<>>
<1>1. ASSUME Gives(s, t, R, W, g, TRUE) PROVE Acts(s, u, R, W, g) /\ Logged(u, c) = <<c>>
  <2>1. u = Dirty(t)
    BY <1>1 DEF Gives, Reported
  <2>2. QED BY <1>1, <2>1, DirtyGives DEF Gives
<1>2. ASSUME Gives(s, t, R, W, g, FALSE) PROVE Acts(s, u, R, W, g) /\ Logged(u, c) = <<>>
  <2>1. u = t
    BY <1>2 DEF Gives, Reported
  <2>2. QED BY <1>2, <2>1, QuietLogged DEF Gives
<1>3. QED BY <1>1, <1>2

\* What a handler makes of a method that answered, if its effect is e.
Effected(t, e) == IF t.res THEN Propagate(t, e) ELSE t

\* A call that did nothing names no effect.
LEMMA EffectedNo ==
  ASSUME NEW s, NEW t, NEW R, NEW W, NEW g, Gives(s, t, R, W, g, FALSE), NEW c, NEW e,
         NEW u, u = Effected(t, e)
  PROVE  Acts(s, u, R, W, g) /\ Logged(u, c) = <<>>
<1>1. u = t
  BY DEF Gives, Effected
<1>2. QED BY <1>1, QuietLogged DEF Gives

\* Two keys looked up, one after the other.
LEMMA LookedUpBoth ==
  ASSUME NEW s, Start(s), NEW k1 \in Keys, NEW k2 \in Keys, NEW u, u = lookup(lookup(s, k1), k2),
         NEW R, R = {k1, k2}
  PROVE  /\ At(s, u, R, {}) /\ Quiet(u) /\ IsCall(u) /\ Table0(u)
         /\ Found(u, k1) = Found(s, k1) /\ Found(u, k2) = Found(s, k2)
         /\ u.obj[k1] = Found(s, k1) /\ u.obj[k2] = Found(s, k2)
         /\ ~expired(u, k1) /\ ~expired(u, k2) /\ GoodObj(Found(s, k1)) /\ GoodObj(Found(s, k2))
<1>1. PICK t : t = lookup(s, k1)
  OBVIOUS
<1>2. /\ At(s, t, {k1}, {}) /\ Quiet(t) /\ t.obj[k1] = Found(s, k1) /\ t.clock = s.clock /\ t.mode = s.mode
      /\ \A j \in Keys \ {k1} : t.obj[j] = s.obj[j]
  BY <1>1, LookedUp
<1>3. R = {k1} \cup {k2} /\ k2 \in Keys \ {}
  OBVIOUS
<1>4. /\ At(s, u, R, {}) /\ SameFields(t, u) /\ u.obj[k2] = Found(s, k2)
      /\ \A j \in Keys \ {k2} : u.obj[j] = t.obj[j]
  BY <1>1, <1>2, <1>3, LookupAt
<1>5. u.obj[k1] = Found(s, k1)
  BY <1>2, <1>4
<1>6. u.clock = s.clock /\ u.mode = s.mode /\ IsCall(u)
  BY <1>4 DEF At
<1>7. Quiet(u)
  BY <1>2, <1>4 DEF Quiet, SameFields
<1>8. Table0(u)
  BY <1>4, AtTable
<1>9. GoodObj(Found(s, k1)) /\ GoodObj(Found(s, k2))
  BY FoundAgain
<1>10. Found(u, k1) = Found(s, k1) /\ ~expired(u, k1) /\ Found(u, k2) = Found(s, k2) /\ ~expired(u, k2)
  BY <1>4, <1>5, <1>6, FoundFacts
<1>11. QED BY <1>4, <1>5, <1>6, <1>7, <1>8, <1>9, <1>10

\* The answer of a call that looked keys up.
LEMMA LookupsGive ==
  ASSUME NEW s, Start(s), NEW k1 \in Keys, NEW k2 \in Keys, NEW g, NEW r, NEW t, NEW R
  PROVE  /\ t = Return(lookup(s, k1), r) /\ R = {k1} => Gives(s, t, R, {}, g, r)
         /\ t = Return(lookup(lookup(s, k1), k2), r) /\ R = {k1, k2} => Gives(s, t, R, {}, g, r)
<1>1. ASSUME t = Return(lookup(s, k1), r), R = {k1} PROVE Gives(s, t, R, {}, g, r)
  BY <1>1, LookupLooks DEF Looks, Gives, Acts
<1>2. ASSUME t = Return(lookup(lookup(s, k1), k2), r), R = {k1, k2} PROVE Gives(s, t, R, {}, g, r)
  <2>1. PICK u : u = lookup(lookup(s, k1), k2) /\ t = Return(u, r)
    BY <1>2
  <2>2. At(s, u, R, {}) /\ Quiet(u) /\ IsCall(u)
    BY <1>2, <2>1, LookedUpBoth
  <2>3. SameTable(u, t) /\ Quiet(t) /\ t.res = r /\ IsCall(t)
    BY <2>1, <2>2, ReturnFacts DEF Quiet, SameTable
  <2>4. QED BY <2>2, <2>3, SameAt DEF Gives, Acts
<1>3. QED BY <1>1, <1>2

\* A handler that looks up one key or two, and refuses.
LEMMA LookupsNo ==
  ASSUME NEW s, Start(s), NEW k1 \in Keys, NEW k2 \in Keys, NEW g, NEW t, NEW R
  PROVE  /\ t = Return(lookup(s, k1), FALSE) /\ R = {k1} => Gives(s, t, R, {}, g, FALSE)
         /\ t = Return(lookup(lookup(s, k1), k2), FALSE) /\ R = {k1, k2} => Gives(s, t, R, {}, g, FALSE)
<1>1. PICK r : r = FALSE
  OBVIOUS
<1>2. /\ t = Return(lookup(s, k1), r) /\ R = {k1} => Gives(s, t, R, {}, g, r)
      /\ t = Return(lookup(lookup(s, k1), k2), r) /\ R = {k1, k2} => Gives(s, t, R, {}, g, r)
  BY LookupsGive
<1>3. QED BY <1>1, <1>2

\* A handler that looks up one key or two, and changes nothing.
LEMMA LookupsYes ==
  ASSUME NEW s, Start(s), NEW k1 \in Keys, NEW k2 \in Keys, NEW g, NEW t, NEW R
  PROVE  /\ t = Return(lookup(s, k1), TRUE) /\ R = {k1} => Gives(s, t, R, {}, g, TRUE)
         /\ t = Return(lookup(lookup(s, k1), k2), TRUE) /\ R = {k1, k2} => Gives(s, t, R, {}, g, TRUE)
<1>1. PICK r : r = TRUE
  OBVIOUS
<1>2. /\ t = Return(lookup(s, k1), r) /\ R = {k1} => Gives(s, t, R, {}, g, r)
      /\ t = Return(lookup(lookup(s, k1), k2), r) /\ R = {k1, k2} => Gives(s, t, R, {}, g, r)
  BY LookupsGive
<1>3. QED BY <1>1, <1>2

\* An answer after what was done.
LEMMA ReturnGives ==
  ASSUME NEW s, NEW w, NEW R, NEW W, NEW g, Acts(s, w, R, W, g), Quiet(w), NEW r, NEW t, t = Return(w, r)
  PROVE  Gives(s, t, R, W, g, r)
<1>1. IsCall(w)
  BY DEF Acts, At
<1>2. SameTable(w, t) /\ Quiet(t) /\ t.res = r /\ IsCall(t)
  BY <1>1, ReturnFacts DEF Quiet, SameTable
<1>3. QED BY <1>1, <1>2, SameActs DEF Gives

\* The answer that something was done.
LEMMA ReturnYes ==
  ASSUME NEW s, NEW w, NEW R, NEW W, NEW g, Acts(s, w, R, W, g), Quiet(w), NEW t, t = Return(w, TRUE)
  PROVE  Gives(s, t, R, W, g, TRUE)
<1>1. PICK r : r = TRUE
  OBVIOUS
<1>2. t = Return(w, r) => Gives(s, t, R, W, g, r)
  BY ReturnGives
<1>3. QED BY <1>1, <1>2

\* MSet leaves both keys with the value and no instant.
LEMMA MSetAt ==
  ASSUME NEW s0, NEW s, NEW R, At(s0, s, R, {}), NEW k1 \in Keys, NEW k2 \in Keys, NEW val, IsSeq(val),
         NEW W, W = {k1, k2}, NEW t, t = MSet(s, k1, k2, val)
  PROVE  Acts(s0, t, R, W, [j \in W |-> Object("string", 0, val)]) /\ SameFields(s, t)
<1>1. PICK o, w : o = Object("string", 0, val) /\ w = touched(store(s, k1, o), k1)
  OBVIOUS
<1>2. t = touched(store(w, k2, o), k2)
  BY <1>1 DEF MSet
<1>3. GoodObj(o)
  BY <1>1, StringGood, EffectsAssumption
<1>4. Wrote(s, w, k1, o)
  BY <1>1, <1>3, AtTable, StoreWrites
<1>5. PICK V : V = {} \cup {k1}
  OBVIOUS
<1>6. At(s0, w, R, V) /\ SameFields(s, w) /\ w.obj[k1] = o
  BY <1>3, <1>4, <1>5, WroteAt
<1>7. Wrote(w, t, k2, o)
  BY <1>2, <1>3, <1>6, AtTable, StoreWrites
<1>8. W = V \cup {k2}
  BY <1>5
<1>9. At(s0, t, R, W) /\ SameFields(w, t) /\ t.obj[k2] = o /\ \A j \in Keys \ {k2} : t.obj[j] = w.obj[j]
  BY <1>3, <1>6, <1>7, <1>8, WroteAt
<1>10. \A j \in W : t.obj[j] = o
  BY <1>6, <1>9
<1>11. QED BY <1>1, <1>6, <1>9, <1>10 DEF Acts, SameFields

\* MSET looks nothing up, writes both keys and is logged as it was sent.
LEMMA MSetDoes ==
  ASSUME NEW s, Start(s), NEW e, e.name = "MSET", e.key \in Keys, e.dst \in Keys, IsSeq(e.val),
         NEW W, W = {e.key, e.dst}, NEW u, u = Handler(s, e)
  PROVE  /\ Acts(s, u, {}, W, [j \in W |-> Object("string", 0, e.val)])
         /\ Logged(u, e) = <<e>>
<1>1. PICK t : t = MSet(s, e.key, e.dst, e.val) /\ u = Dirty(t)
  BY Dispatch DEF cmdMSet
<1>2. PICK g : g = [j \in W |-> Object("string", 0, e.val)]
  OBVIOUS
<1>3. Acts(s, t, {}, W, g) /\ SameFields(s, t)
  BY <1>1, <1>2, StartAt, MSetAt
<1>4. Quiet(t) /\ IsCall(t)
  BY <1>3 DEF Start, SameFields, Quiet, Acts, At
<1>6. e.name \notin Canonical
  BY CanonicalNames
<1>7. QED BY <1>1, <1>2, <1>3, <1>4, <1>6, DirtyGives

\* MSET is safe.
LEMMA MSetSafe ==
  ASSUME NEW c, c.name = "MSET", c.key \in Keys, c.dst \in Keys, IsSeq(c.val)
  PROVE  Safe(c)
<1> DEFINE k1 == c.key
           k2 == c.dst
<1>r. PICK R : R = {}
  OBVIOUS
<1>0. R = {} /\ R \subseteq Keys
  BY <1>r
<1>1. PICK W : W = {k1, k2}
  OBVIOUS
<1>2. PICK g : g = [j \in W |-> Object("string", 0, c.val)]
  OBVIOUS
<1>3. ASSUME NEW s, Start(s) PROVE Acts(s, Handler(s, c), R, W, g) /\ Logged(Handler(s, c), c) = <<c>>
  BY <1>0, <1>1, <1>2, <1>3, MSetDoes
<1>4. ASSUME NEW o1, NEW o2 PROVE Makes(c, c, R, W, g, k1, o1, k2, o2)
  BY <1>3 DEF Makes
<1>5. TwoKeys(c, k1, k2)
  BY <1>0, <1>4 DEF TwoKeys
<1>6. QED BY <1>5, TwoKeysSafe

\* MSetNX writes both keys if neither is there.
LEMMA MSetNXDoes ==
  ASSUME NEW s, Start(s), NEW k1 \in Keys, NEW k2 \in Keys, NEW val, IsSeq(val), NEW W, W = {k1, k2},
         NEW g, g = [j \in W |-> Object("string", 0, val)], NEW R, NEW t, t = MSetNX(s, k1, k2, val)
  PROVE  /\ Found(s, k1) # Nil /\ R = {k1} => Gives(s, t, R, {}, g, FALSE)
         /\ Found(s, k1) = Nil /\ Found(s, k2) # Nil /\ R = {k1, k2} => Gives(s, t, R, {}, g, FALSE)
         /\ Found(s, k1) = Nil /\ Found(s, k2) = Nil /\ R = {k1, k2} => Gives(s, t, R, W, g, TRUE)
<1>1. PICK u : u = lookup(lookup(s, k1), k2)
  OBVIOUS
<1>2. PICK Q : Q = {k1, k2}
  OBVIOUS
<1>3. At(s, u, Q, {}) /\ Quiet(u) /\ Found(u, k2) = Found(s, k2)
  BY <1>1, <1>2, LookedUpBoth
<1>4. Found(lookup(s, k1), k1) = Found(s, k1)
  BY FoundAgain
<1>5. ASSUME Found(s, k1) # Nil, R = {k1} PROVE Gives(s, t, R, {}, g, FALSE)
  <2>1. t = Return(lookup(s, k1), FALSE)
    BY <1>4, <1>5 DEF MSetNX
  <2>2. QED BY <1>5, <2>1, LookupsNo
<1>6. ASSUME Found(s, k1) = Nil, Found(s, k2) # Nil, R = {k1, k2} PROVE Gives(s, t, R, {}, g, FALSE)
  <2>1. t = Return(lookup(lookup(s, k1), k2), FALSE)
    BY <1>1, <1>3, <1>4, <1>6 DEF MSetNX
  <2>2. QED BY <1>6, <2>1, LookupsNo
<1>7. ASSUME Found(s, k1) = Nil, Found(s, k2) = Nil, R = {k1, k2} PROVE Gives(s, t, R, W, g, TRUE)
  <2>1. PICK w : w = MSet(u, k1, k2, val) /\ t = Return(w, TRUE)
    BY <1>1, <1>3, <1>4, <1>7 DEF MSetNX
  <2>2. Acts(s, w, Q, W, g) /\ SameFields(u, w)
    BY <1>3, <2>1, MSetAt
  <2>3. Quiet(w) /\ R = Q
    BY <1>2, <1>3, <1>7, <2>2 DEF Quiet, SameFields
  <2>4. QED BY <2>1, <2>2, <2>3, ReturnYes
<1>8. QED BY <1>5, <1>6, <1>7

\* MSETNX is safe: it is logged as the MSET it amounts to.
LEMMA MSetNXSafe ==
  ASSUME NEW c, IsCommand(c), c.name = "MSETNX", c.key \in Keys, c.dst \in Keys, IsSeq(c.val)
  PROVE  Safe(c)
<1> DEFINE k1 == c.key
           k2 == c.dst
<1>1. PICK R1, R, W, g : /\ R1 = {k1} /\ R = {k1, k2} /\ R1 \subseteq Keys /\ R \subseteq Keys /\ W = {k1, k2}
                         /\ g = [j \in W |-> Object("string", 0, c.val)]
  OBVIOUS
<1>2. PICK e : e = [c EXCEPT !.name = "MSET"]
  OBVIOUS
<1>3. e.name = "MSET" /\ e.key = k1 /\ e.dst = k2 /\ e.val = c.val
  BY <1>2 DEF IsCommand
<1>4. ASSUME NEW s, Start(s)
      PROVE  \E t : t = MSetNX(s, k1, k2, c.val) /\ Handler(s, c) = Effected(t, e)
  BY <1>2, Dispatch DEF cmdMSetNX, Effected
<1>7. ASSUME NEW o1, NEW o2
      PROVE  \/ \E Q : Q \subseteq Keys /\ Quietly(c, Q, k1, o1, k2, o2)
             \/ \E f, Q, V, h : Q \subseteq Keys /\ Makes(c, f, Q, V, h, k1, o1, k2, o2)
  <2>1. CASE o1 # Nil
    <3>1. ASSUME NEW s, Start(s), Given(s, R1, k1, o1, k2, o2)
          PROVE  At(s, Handler(s, c), R1, {}) /\ Logged(Handler(s, c), c) = <<>>
      <4>1. Found(s, k1) # Nil
        BY <1>1, <2>1, <3>1 DEF Given
      <4>2. PICK t : t = MSetNX(s, k1, k2, c.val) /\ Handler(s, c) = Effected(t, e)
        BY <1>4, <3>1
      <4>3. Gives(s, t, R1, {}, g, FALSE)
        BY <1>1, <3>1, <4>1, <4>2, MSetNXDoes
      <4>4. QED BY <4>2, <4>3, EffectedNo DEF Acts
    <3>2. Quietly(c, R1, k1, o1, k2, o2)
      BY <3>1 DEF Quietly
    <3>3. QED BY <1>1, <3>2
  <2>2. CASE o1 = Nil /\ o2 # Nil
    <3>1. ASSUME NEW s, Start(s), Given(s, R, k1, o1, k2, o2)
          PROVE  At(s, Handler(s, c), R, {}) /\ Logged(Handler(s, c), c) = <<>>
      <4>1. Found(s, k1) = Nil /\ Found(s, k2) # Nil
        BY <1>1, <2>2, <3>1 DEF Given
      <4>2. PICK t : t = MSetNX(s, k1, k2, c.val) /\ Handler(s, c) = Effected(t, e)
        BY <1>4, <3>1
      <4>3. Gives(s, t, R, {}, g, FALSE)
        BY <1>1, <3>1, <4>1, <4>2, MSetNXDoes
      <4>4. QED BY <4>2, <4>3, EffectedNo DEF Acts
    <3>2. Quietly(c, R, k1, o1, k2, o2)
      BY <3>1 DEF Quietly
    <3>3. QED BY <1>1, <3>2
  <2>3. CASE o1 = Nil /\ o2 = Nil
    <3>1. ASSUME NEW s, Start(s), Given(s, R, k1, o1, k2, o2)
          PROVE  Acts(s, Handler(s, c), R, W, g) /\ Logged(Handler(s, c), c) = <<e>>
      <4>1. Found(s, k1) = Nil /\ Found(s, k2) = Nil
        BY <1>1, <2>3, <3>1 DEF Given
      <4>2. PICK t : t = MSetNX(s, k1, k2, c.val) /\ Handler(s, c) = Effected(t, e)
        BY <1>4, <3>1
      <4>3. Gives(s, t, R, W, g, TRUE)
        BY <1>1, <3>1, <4>1, <4>2, MSetNXDoes
      <4>4. Handler(s, c) = Propagate(t, e) /\ Acts(s, t, R, W, g) /\ Quiet(t) /\ IsCall(t)
        BY <4>2, <4>3 DEF Gives, Effected
      <4>5. QED BY <4>4, PropagateGives
    <3>2. ASSUME NEW s, Start(s) PROVE Acts(s, Handler(s, e), {}, W, g)
      BY <1>1, <1>3, <3>2, MSetDoes
    <3>3. Makes(c, e, R, W, g, k1, o1, k2, o2)
      BY <3>1, <3>2 DEF Makes
    <3>4. QED BY <1>1, <3>3
  <2>4. QED BY <2>1, <2>2, <2>3
<1>8. TwoKeys(c, k1, k2)
  BY <1>7 DEF TwoKeys
<1>9. QED BY <1>8, TwoKeysSafe

\* A method that always answers no changes nothing; one that always answers yes is logged.
LEMMA ReportsNo ==
  ASSUME NEW c, NEW R, NEW g, NEW k1, NEW o1, NEW k2, NEW o2,
         \A s : Start(s) /\ Given(s, R, k1, o1, k2, o2)
                  => \E t : Handler(s, c) = Reported(t) /\ Gives(s, t, R, {}, g, FALSE)
  PROVE  Quietly(c, R, k1, o1, k2, o2)
<1>1. ASSUME NEW s, Start(s), Given(s, R, k1, o1, k2, o2)
      PROVE  At(s, Handler(s, c), R, {}) /\ Logged(Handler(s, c), c) = <<>>
  <2>1. PICK t : Handler(s, c) = Reported(t) /\ Gives(s, t, R, {}, g, FALSE)
    BY <1>1
  <2>2. Handler(s, c) = t
    BY <2>1 DEF Gives, Reported
  <2>3. QED BY <2>1, <2>2, QuietLogged DEF Gives, Acts
<1>2. QED BY <1>1 DEF Quietly

\* A command that reports what it did makes what it did, and is logged as it was sent.
LEMMA ReportsYes ==
  ASSUME NEW c, c.name \notin Canonical, NEW R, NEW W, NEW g, NEW k1, NEW o1, NEW k2, NEW o2,
         \A s : Start(s) /\ Given(s, R, k1, o1, k2, o2)
                  => \E t : Handler(s, c) = Reported(t) /\ Gives(s, t, R, W, g, TRUE)
  PROVE  Makes(c, c, R, W, g, k1, o1, k2, o2)
<1>1. ASSUME NEW s, Start(s), Given(s, R, k1, o1, k2, o2)
      PROVE  Acts(s, Handler(s, c), R, W, g) /\ Logged(Handler(s, c), c) = <<c>>
  <2>1. PICK t : Handler(s, c) = Reported(t) /\ Gives(s, t, R, W, g, TRUE)
    BY <1>1
  <2>2. Handler(s, c) = Dirty(t)
    BY <2>1 DEF Gives, Reported
  <2>3. Acts(s, t, R, W, g) /\ Quiet(t) /\ IsCall(t)
    BY <2>1 DEF Gives
  <2>4. QED BY <2>2, <2>3, DirtyGives
<1>2. QED BY <1>1 DEF Makes

\* The same where the effect is not the command.
LEMMA EffectsNo ==
  ASSUME NEW c, NEW e, NEW R, NEW g, NEW k1, NEW o1, NEW k2, NEW o2,
         \A s : Start(s) /\ Given(s, R, k1, o1, k2, o2)
                  => \E t : Handler(s, c) = Effected(t, e) /\ Gives(s, t, R, {}, g, FALSE)
  PROVE  Quietly(c, R, k1, o1, k2, o2)
<1>1. ASSUME NEW s, Start(s), Given(s, R, k1, o1, k2, o2)
      PROVE  At(s, Handler(s, c), R, {}) /\ Logged(Handler(s, c), c) = <<>>
  <2>1. PICK t : Handler(s, c) = Effected(t, e) /\ Gives(s, t, R, {}, g, FALSE)
    BY <1>1
  <2>2. Handler(s, c) = t
    BY <2>1 DEF Gives, Effected
  <2>3. QED BY <2>1, <2>2, QuietLogged DEF Gives, Acts
<1>2. QED BY <1>1 DEF Quietly

\* A command that names its effect when it did something makes what it did.
LEMMA EffectsYes ==
  ASSUME NEW c, NEW e, NEW R, NEW W, NEW g, NEW k1, NEW o1, NEW k2, NEW o2,
         \A s : Start(s) /\ Given(s, R, k1, o1, k2, o2)
                  => \E t : Handler(s, c) = Effected(t, e) /\ Gives(s, t, R, W, g, TRUE),
         \A s : Start(s) /\ Given(s, R, k1, o1, k2, o2) => \E Q : Acts(s, Handler(s, e), Q, W, g)
  PROVE  Makes(c, e, R, W, g, k1, o1, k2, o2)
<1>1. ASSUME NEW s, Start(s), Given(s, R, k1, o1, k2, o2)
      PROVE  Acts(s, Handler(s, c), R, W, g) /\ Logged(Handler(s, c), c) = <<e>>
  <2>1. PICK t : Handler(s, c) = Effected(t, e) /\ Gives(s, t, R, W, g, TRUE)
    BY <1>1
  <2>2. Handler(s, c) = Propagate(t, e)
    BY <2>1 DEF Gives, Effected
  <2>3. QED BY <2>1, <2>2, PropagateGives DEF Gives
<1>2. QED BY <1>1 DEF Makes

\* One more key deleted.
LEMMA DelMore ==
  ASSUME NEW s0, Start(s0), NEW s, NEW R, NEW W, NEW g, g = [j \in Keys |-> Nil], NEW r,
         Gives(s0, s, R, W, g, r), NEW k \in Keys \ W, W \subseteq Keys, NEW t, t = delOne(s, k),
         NEW Q, Q = R \cup {k}, NEW V, V = W \cup {k}
  PROVE  /\ Found(s0, k) = Nil => Gives(s0, t, Q, W, g, r)
         /\ Found(s0, k) # Nil => Gives(s0, t, Q, V, g, TRUE)
<1>1. PICK u : u = lookup(s, k)
  OBVIOUS
<1>2. /\ At(s0, u, Q, W) /\ SameFields(s, u) /\ Found(u, k) = Found(s0, k)
      /\ \A j \in Keys \ {k} : u.obj[j] = s.obj[j]
  BY <1>1, LookupAt DEF Gives, Acts
<1>3. Gives(s0, u, Q, W, g, r)
  BY <1>2 DEF Gives, Acts, Quiet, SameFields, At
<1>4. ASSUME Found(s0, k) = Nil PROVE Gives(s0, t, Q, W, g, r)
  <2>1. t = u
    BY <1>1, <1>2, <1>4 DEF delOne
  <2>2. QED BY <1>3, <2>1
<1>5. ASSUME Found(s0, k) # Nil PROVE Gives(s0, t, Q, V, g, TRUE)
  <2>1. PICK w : w = touched(removeLocked(u, k), k) /\ t = Return(w, TRUE)
    BY <1>1, <1>2, <1>5 DEF delOne
  <2>2. Wrote(u, w, k, Nil)
    BY <1>2, <2>1, AtTable, RemoveWrites
  <2>3. /\ At(s0, w, Q, V) /\ SameFields(u, w) /\ w.obj[k] = Nil
        /\ \A j \in Keys \ {k} : w.obj[j] = u.obj[j]
    BY <1>2, <2>2, NilFacts, WroteAt
  <2>4. \A j \in V : w.obj[j] = g[j]
    BY <1>3, <2>3 DEF Gives, Acts
  <2>5. Acts(s0, w, Q, V, g) /\ Quiet(w)
    BY <1>3, <2>3, <2>4 DEF Acts, Gives, Quiet, SameFields
  <2>6. QED BY <2>1, <2>5, ReturnYes
<1>6. QED BY <1>4, <1>5

\* A DEL that has not begun has removed nothing.
LEMMA DelNone ==
  ASSUME NEW s, Start(s), NEW q, q = Return(s, FALSE), NEW g
  PROVE  Gives(s, q, {}, {}, g, FALSE)
<1>1. PICK r : r = FALSE
  OBVIOUS
<1>2. Acts(s, s, {}, {}, g) /\ Quiet(s)
  BY StartAt DEF Acts, Start, Quiet
<1>3. q = Return(s, r) => Gives(s, q, {}, {}, g, r)
  BY <1>2, ReturnGives
<1>4. QED BY <1>1, <1>3

\* Del of two keys removes those that are there.
LEMMA DelDoes ==
  ASSUME NEW s, Start(s), NEW k1 \in Keys, NEW k2 \in Keys, k1 # k2, NEW R, R = {k1, k2},
         NEW g, g = [j \in Keys |-> Nil], NEW W, NEW t, t = Del(s, k1, k2)
  PROVE  /\ Found(s, k1) = Nil /\ Found(s, k2) = Nil => Gives(s, t, R, {}, g, FALSE)
         /\ ~(Found(s, k1) = Nil /\ Found(s, k2) = Nil) /\ W = {j \in R : Found(s, j) # Nil}
              => Gives(s, t, R, W, g, TRUE)
<1>1. PICK q, u, no : q = Return(s, FALSE) /\ u = delOne(q, k1) /\ no = {}
  OBVIOUS
<1>2. t = delOne(u, k2)
  BY <1>1 DEF Del
<1>3. Gives(s, q, no, no, g, FALSE)
  BY <1>1, DelNone
<1>4. PICK K1, f : K1 = no \cup {k1} /\ f = FALSE
  OBVIOUS
<1>5. k1 \in Keys \ no /\ no \subseteq Keys
  BY <1>1
<1>6. /\ Found(s, k1) = Nil => Gives(s, u, K1, no, g, f)
      /\ Found(s, k1) # Nil => Gives(s, u, K1, K1, g, TRUE)
  BY <1>1, <1>3, <1>4, <1>5, DelMore
<1>7. R = K1 \cup {k2} /\ k2 \in Keys \ no /\ k2 \in Keys \ K1 /\ K1 \subseteq Keys
  BY <1>1, <1>4
<1>8. CASE Found(s, k1) = Nil
  <2>1. PICK V : V = no \cup {k2}
    OBVIOUS
  <2>2. Gives(s, u, K1, no, g, f)
    BY <1>6, <1>8
  <2>3. /\ Found(s, k2) = Nil => Gives(s, t, R, no, g, f)
        /\ Found(s, k2) # Nil => Gives(s, t, R, V, g, TRUE)
    BY <1>2, <1>5, <1>7, <2>1, <2>2, DelMore
  <2>4. Found(s, k2) # Nil /\ W = {j \in R : Found(s, j) # Nil} => W = V
    BY <1>1, <1>8, <2>1
  <2>5. QED BY <1>1, <1>4, <1>8, <2>3, <2>4
<1>9. CASE Found(s, k1) # Nil
  <2>1. PICK V, y : V = K1 \cup {k2} /\ y = TRUE
    OBVIOUS
  <2>2. Gives(s, u, K1, K1, g, y)
    BY <1>6, <1>9, <2>1
  <2>3. /\ Found(s, k2) = Nil => Gives(s, t, R, K1, g, y)
        /\ Found(s, k2) # Nil => Gives(s, t, R, V, g, TRUE)
    BY <1>2, <1>7, <2>1, <2>2, DelMore
  <2>4. /\ Found(s, k2) # Nil /\ W = {j \in R : Found(s, j) # Nil} => W = V
        /\ Found(s, k2) = Nil /\ W = {j \in R : Found(s, j) # Nil} => W = K1
    BY <1>1, <1>4, <1>9, <2>1
  <2>5. QED BY <1>9, <2>1, <2>3, <2>4
<1>10. QED BY <1>8, <1>9

\* DEL is safe.
LEMMA DelSafe ==
  ASSUME NEW c, c.name = "DEL", c.key \in Keys, c.dst \in Keys
  PROVE  Safe(c)
<1> DEFINE k1 == c.key
           k2 == c.dst
<1>1. CASE k1 = k2
  <2>1. ASSUME NEW o, NEW n \in Stills, GoodObj(o)
        PROVE  Idle(c, k1, o, n) \/ \E f, x : Does(c, k1, o, n, f, x)
    <3>0. ASSUME NEW s, Start(s), Found(s, k1) = o, NEW t, t = Handler(s, c)
          PROVE  /\ o = Nil => Looks(s, t, k1) /\ Logged(t, c) = <<>>
                 /\ o # Nil => Puts(s, t, k1, Nil) /\ Logged(t, c) = <<c>>
      BY <1>1, <3>0, DelOneKey
    <3>1. CASE o = Nil
      BY <3>0, <3>1 DEF Idle, Leads
    <3>2. CASE o # Nil
      <4>1. Does(c, k1, o, n, c, Nil)
        BY <3>0, <3>2 DEF Does, Leads
      <4>2. QED BY <4>1
    <3>3. QED BY <3>1, <3>2
  <2>2. QED BY <2>1, OneKeySafe DEF OneKey
<1>2. CASE k1 # k2
  <2>1. PICK R, g : R = {k1, k2} /\ g = [j \in Keys |-> Nil]
    OBVIOUS
  <2>2. c.name \notin Canonical /\ R \subseteq Keys
    BY <2>1, CanonicalNames
  <2>3. ASSUME NEW s PROVE Handler(s, c) = Reported(Del(s, k1, k2))
    BY Dispatch DEF cmdDel
  <2>4. ASSUME NEW o1, NEW o2
        PROVE  \/ Quietly(c, R, k1, o1, k2, o2)
               \/ \E W : Makes(c, c, R, W, g, k1, o1, k2, o2)
    <3>1. CASE o1 = Nil /\ o2 = Nil
      <4>1. ASSUME NEW s, Start(s), Given(s, R, k1, o1, k2, o2)
            PROVE  \E t : Handler(s, c) = Reported(t) /\ Gives(s, t, R, {}, g, FALSE)
        <5>1. Found(s, k1) = Nil /\ Found(s, k2) = Nil
          BY <2>1, <3>1, <4>1 DEF Given
        <5>2. QED BY <1>2, <2>1, <2>3, <4>1, <5>1, DelDoes
      <4>2. QED BY <4>1, ReportsNo
    <3>2. CASE ~(o1 = Nil /\ o2 = Nil)
      <4>0. PICK W : W = {j \in R : (IF j = k1 THEN o1 ELSE o2) # Nil}
        OBVIOUS
      <4>1. ASSUME NEW s, Start(s), Given(s, R, k1, o1, k2, o2)
            PROVE  \E t : Handler(s, c) = Reported(t) /\ Gives(s, t, R, W, g, TRUE)
        <5>1. Found(s, k1) = o1 /\ Found(s, k2) = o2
          BY <2>1, <4>1 DEF Given
        <5>2. W = {j \in R : Found(s, j) # Nil}
          BY <2>1, <4>0, <5>1
        <5>3. ~(Found(s, k1) = Nil /\ Found(s, k2) = Nil)
          BY <3>2, <5>1
        <5>4. QED BY <1>2, <2>1, <2>3, <4>1, <5>2, <5>3, DelDoes
      <4>2. Makes(c, c, R, W, g, k1, o1, k2, o2)
        BY <2>2, <4>1, ReportsYes
      <4>3. QED BY <4>2
    <3>3. QED BY <3>1, <3>2
  <2>5. TwoKeys(c, k1, k2)
    BY <2>2, <2>4 DEF TwoKeys
  <2>6. QED BY <2>5, TwoKeysSafe
<1>3. QED BY <1>1, <1>2

\* A command that only answers leaves the table alone and is not logged.
LEMMA AnswersOnly ==
  ASSUME NEW c, NEW R, NEW g, NEW k1, NEW o1, NEW k2, NEW o2,
         \A s : Start(s) /\ Given(s, R, k1, o1, k2, o2) => \E r : Gives(s, Handler(s, c), R, {}, g, r)
  PROVE  Quietly(c, R, k1, o1, k2, o2)
BY QuietLogged DEF Quietly, Gives, Acts

\* A command that counts a change in any case makes what it did.
LEMMA DirtyMakes ==
  ASSUME NEW c, c.name \notin Canonical, NEW R, NEW W, NEW g, NEW k1, NEW o1, NEW k2, NEW o2,
         \A s : Start(s) /\ Given(s, R, k1, o1, k2, o2)
                  => \E t, r : Handler(s, c) = Dirty(t) /\ Gives(s, t, R, W, g, r)
  PROVE  Makes(c, c, R, W, g, k1, o1, k2, o2)
<1>1. ASSUME NEW s, Start(s), Given(s, R, k1, o1, k2, o2)
      PROVE  Acts(s, Handler(s, c), R, W, g) /\ Logged(Handler(s, c), c) = <<c>>
  <2>1. PICK t : Handler(s, c) = Dirty(t) /\ \E r : Gives(s, t, R, W, g, r)
    BY <1>1
  <2>2. Handler(s, c) = Dirty(t)
    BY <2>1
  <2>3. Acts(s, t, R, W, g) /\ Quiet(t) /\ IsCall(t)
    BY <2>1 DEF Gives
  <2>4. c.name \notin Canonical
    OBVIOUS
  <2>5. QED BY ONLY <2>2, <2>3, <2>4, DirtyGives
<1>2. QED BY <1>1 DEF Makes

\* A command that names its effect in any case makes what it did.
LEMMA EffectMakes ==
  ASSUME NEW c, NEW e, NEW R, NEW W, NEW g, NEW k1, NEW o1, NEW k2, NEW o2,
         \A s : Start(s) /\ Given(s, R, k1, o1, k2, o2)
                  => \E t, r : Handler(s, c) = Propagate(t, e) /\ Gives(s, t, R, W, g, r),
         \A s : Start(s) /\ Given(s, R, k1, o1, k2, o2) => \E Q : Acts(s, Handler(s, e), Q, W, g)
  PROVE  Makes(c, e, R, W, g, k1, o1, k2, o2)
<1>1. ASSUME NEW s, Start(s), Given(s, R, k1, o1, k2, o2)
      PROVE  Acts(s, Handler(s, c), R, W, g) /\ Logged(Handler(s, c), c) = <<e>>
  <2>1. PICK t : Handler(s, c) = Propagate(t, e) /\ Acts(s, t, R, W, g) /\ Quiet(t) /\ IsCall(t)
    BY <1>1 DEF Gives
  <2>2. QED BY <2>1, PropagateGives
<1>2. QED BY <1>1 DEF Makes

\* store in any table, without its signal.
LEMMA StoreStored ==
  ASSUME NEW s, Table0(s), NEW k \in Keys, NEW o, GoodObj(o)
  PROVE  Stored(s, store(s, k, o), k, o)
<1>1. /\ GoodObj(s.obj[k]) /\ o.at \in Nat /\ s.obj[k].at \in Nat
      /\ k \in s.ttl <=> s.obj[k].at > 0
  BY GoodFacts DEF Table0, Whole, Indexed
<1>2. QED BY <1>1, SizeType, StoreFields DEF Table0

\* removeLocked in any table, without its signal.
LEMMA RemoveStored ==
  ASSUME NEW s, Table0(s), NEW k \in Keys
  PROVE  Stored(s, removeLocked(s, k), k, Nil)
<1>1. GoodObj(s.obj[k])
  BY DEF Table0, Whole
<1>2. QED BY <1>1, SizeType, RemoveFields DEF Table0

\* What a key moved leaves: the object under its new name, and nothing under the old one.
Moved(dst, o) == [j \in Keys |-> IF j = dst THEN o ELSE Nil]

\* An object moved from one key to another.
LEMMA MoveAt ==
  ASSUME NEW s0, NEW u, NEW R, At(s0, u, R, {}), NEW src \in Keys, NEW dst \in Keys, src # dst,
         NEW o, GoodObj(o), NEW W, W = {src, dst}, NEW g, g = Moved(dst, o),
         NEW t, t = touched(touched(store(removeLocked(u, src), dst, o), src), dst)
  PROVE  Acts(s0, t, R, W, g) /\ SameFields(u, t)
<1>1. PICK m, x : m = removeLocked(u, src) /\ x = store(m, dst, o)
  OBVIOUS
<1>2. Stored(u, m, src, Nil) /\ GoodObj(Nil) /\ Table0(u)
  BY <1>1, AtTable, RemoveStored, NilFacts
<1>3. Table0(m)
  BY <1>2, StoredTable
<1>4. Stored(m, x, dst, o)
  BY <1>1, <1>3, StoreStored
<1>5. PICK w, V : w = touched(m, src) /\ V = {} \cup {src}
  OBVIOUS
<1>6. Wrote(u, w, src, Nil)
  BY <1>2, <1>5, TouchStored
<1>7. At(s0, w, R, V) /\ SameFields(u, w) /\ w.obj[src] = Nil
  BY <1>2, <1>5, <1>6, WroteAt
<1>8. IsCall(m) /\ IsCall(x)
  BY <1>2, <1>4 DEF Stored
<1>9. Wrote(w, t, dst, o)
  <2>1. /\ IsCall(w) /\ SameFields(m, w) /\ w.obj = m.obj /\ w.ttl = m.ttl /\ w.mode = m.mode
        /\ w.clock = m.clock /\ w.log = m.log /\ w.sig = m.sig \cup {src}
    BY <1>5, <1>8, TouchedFacts
  <2>2. PICK y : y = touched(x, src)
    OBVIOUS
  <2>3. /\ IsCall(y) /\ SameFields(x, y) /\ y.obj = x.obj /\ y.ttl = x.ttl /\ y.mode = x.mode
        /\ y.clock = x.clock /\ y.log = x.log /\ y.sig = x.sig \cup {src} /\ y.mem = x.mem
    BY <1>8, <2>2, TouchedFacts
  <2>4. t = touched(y, dst)
    BY <1>1, <2>2
  <2>5. /\ IsCall(t) /\ SameFields(y, t) /\ t.obj = y.obj /\ t.ttl = y.ttl /\ t.mode = y.mode
        /\ t.clock = y.clock /\ t.log = y.log /\ t.sig = y.sig \cup {dst} /\ t.mem = y.mem
    BY <2>3, <2>4, TouchedFacts
  <2>6. QED BY <1>4, <2>1, <2>3, <2>5 DEF Stored, Wrote, SameFields
<1>10. W = V \cup {dst}
  BY <1>5
<1>11. /\ At(s0, t, R, W) /\ SameFields(w, t) /\ t.obj[dst] = o
       /\ \A j \in Keys \ {dst} : t.obj[j] = w.obj[j]
  BY <1>7, <1>9, <1>10, WroteAt
<1>12. \A j \in W : t.obj[j] = g[j]
  BY <1>7, <1>11 DEF Moved
<1>13. QED BY <1>7, <1>11, <1>12 DEF Acts, SameFields

\* Rename, by what it finds at the source, and at the destination when that must be free.
LEMMA RenameDoes ==
  ASSUME NEW s, Start(s), NEW src \in Keys, NEW dst \in Keys, NEW o, o = Found(s, src), NEW nx,
         NEW R, NEW W, W = {src, dst}, NEW g, g = Moved(dst, o), NEW t, t = Rename(s, src, dst, nx)
  PROVE  /\ o = Nil /\ R = {src} => Gives(s, t, R, {}, g, "nokey")
         /\ o # Nil /\ nx /\ Found(s, dst) # Nil /\ R = {src, dst} => Gives(s, t, R, {}, g, "exists")
         /\ o # Nil /\ ~nx /\ src = dst /\ R = {src} => Gives(s, t, R, {}, g, "ok")
         /\ o # Nil /\ ~nx /\ src # dst /\ R = {src} => Gives(s, t, R, W, g, "ok")
         /\ o # Nil /\ nx /\ Found(s, dst) = Nil /\ R = {src, dst} => Gives(s, t, R, W, g, "ok")
<1>1. PICK a, b : a = lookup(s, src) /\ b = lookup(lookup(s, src), dst)
  OBVIOUS
<1>2. Found(a, src) = o /\ GoodObj(o) /\ Quiet(a) /\ At(s, a, {src}, {})
  BY <1>1, LookedUp
<1>3. PICK Q : Q = {src, dst}
  OBVIOUS
<1>4. At(s, b, Q, {}) /\ Quiet(b) /\ Found(b, dst) = Found(s, dst)
  BY <1>1, <1>3, LookedUpBoth
<1>5. ASSUME o = Nil, R = {src} PROVE Gives(s, t, R, {}, g, "nokey")
  <2>1. t = Return(lookup(s, src), "nokey")
    BY <1>1, <1>2, <1>5 DEF Rename
  <2>2. QED BY <1>5, <2>1, LookupsGive
<1>6. ASSUME o # Nil, nx, Found(s, dst) # Nil, R = {src, dst} PROVE Gives(s, t, R, {}, g, "exists")
  <2>1. t = Return(lookup(lookup(s, src), dst), "exists")
    BY <1>1, <1>2, <1>4, <1>6 DEF Rename
  <2>2. QED BY <1>6, <2>1, LookupsGive
<1>7. ASSUME o # Nil, ~nx, src = dst, R = {src} PROVE Gives(s, t, R, {}, g, "ok")
  <2>1. t = Return(lookup(s, src), "ok")
    BY <1>1, <1>2, <1>7 DEF Rename
  <2>2. QED BY <1>7, <2>1, LookupsGive
<1>8. ASSUME o # Nil, ~nx, src # dst, R = {src} PROVE Gives(s, t, R, W, g, "ok")
  <2>1. PICK w : /\ w = touched(touched(store(removeLocked(a, src), dst, o), src), dst)
                 /\ t = Return(w, "ok")
    BY <1>1, <1>2, <1>8 DEF Rename
  <2>2. At(s, a, R, {})
    BY <1>2, <1>8
  <2>3. Acts(s, w, R, W, g) /\ SameFields(a, w)
    BY <1>2, <1>8, <2>1, <2>2, MoveAt
  <2>4. Quiet(w)
    BY <1>2, <2>3 DEF Quiet, SameFields
  <2>5. QED BY <2>1, <2>3, <2>4, ReturnGives
<1>9. ASSUME o # Nil, nx, Found(s, dst) = Nil, R = {src, dst} PROVE Gives(s, t, R, W, g, "ok")
  <2>0. src # dst
    BY <1>9
  <2>1. PICK w : /\ w = touched(touched(store(removeLocked(b, src), dst, o), src), dst)
                 /\ t = Return(w, "ok")
    BY <1>1, <1>2, <1>4, <1>9, <2>0 DEF Rename
  <2>2. At(s, b, R, {})
    BY <1>3, <1>4, <1>9
  <2>3. Acts(s, w, R, W, g) /\ SameFields(b, w)
    BY <1>2, <2>0, <2>1, <2>2, MoveAt
  <2>4. Quiet(w)
    BY <1>4, <2>3 DEF Quiet, SameFields
  <2>5. QED BY <2>1, <2>3, <2>4, ReturnGives
<1>10. QED BY <1>5, <1>6, <1>7, <1>8, <1>9

\* RENAME without NX: the destination is not looked at.
LEMMA RenameRuns ==
  ASSUME NEW c, c.name = "RENAME", c.key \in Keys, c.dst \in Keys, NEW s, NEW nx, nx = ("NX" \in c.opts)
  PROVE  \E t : /\ t = Rename(s, c.key, c.dst, nx)
                /\ t.res = "ok" /\ ~nx => Handler(s, c) = Dirty(t)
                /\ t.res = "ok" /\ nx => Handler(s, c) = Propagate(t, [c EXCEPT !.opts = {}])
                /\ t.res # "ok" => Handler(s, c) = t
<1>1. PICK t : t = Rename(s, c.key, c.dst, nx)
  OBVIOUS
<1>2. Handler(s, c) = CASE t.res = "ok" /\ ~nx -> Dirty(t)
                        [] t.res = "ok" /\ nx -> Propagate(t, [c EXCEPT !.opts = {}])
                        [] OTHER -> t
  BY <1>1, Dispatch DEF cmdRename
<1>3. QED BY <1>1, <1>2

\* RENAME does one thing for what it finds at its two keys.
LEMMA RenamePlain ==
  ASSUME NEW c, c.name = "RENAME", c.key \in Keys, c.dst \in Keys, "NX" \notin c.opts,
         NEW o1, GoodObj(o1), NEW o2
  PROVE  \/ \E R : R \subseteq Keys /\ Quietly(c, R, c.key, o1, c.dst, o2)
         \/ \E R, W, g : R \subseteq Keys /\ Makes(c, c, R, W, g, c.key, o1, c.dst, o2)
<1> DEFINE k1 == c.key
           k2 == c.dst
<1>1. PICK R, W, g : R = {k1} /\ W = {k1, k2} /\ g = Moved(k2, o1)
  OBVIOUS
<1>2. c.name \notin Canonical /\ R \subseteq Keys
  BY <1>1, CanonicalNames
<1>0. PICK nx : nx = ("NX" \in c.opts)
  OBVIOUS
<1>n. ~nx
  BY <1>0
<1>3. ASSUME NEW s, Start(s), Given(s, R, k1, o1, k2, o2)
      PROVE  /\ o1 = Nil => \E r : Gives(s, Handler(s, c), R, {}, g, r)
             /\ o1 # Nil /\ k1 = k2 => \E t, r : Handler(s, c) = Dirty(t) /\ Gives(s, t, R, {}, g, r)
             /\ o1 # Nil /\ k1 # k2 => \E t, r : Handler(s, c) = Dirty(t) /\ Gives(s, t, R, W, g, r)
  <2>1. Found(s, k1) = o1
    BY <1>1, <1>3 DEF Given
  <2>2. PICK t : /\ t = Rename(s, k1, k2, nx)
                 /\ t.res = "ok" => Handler(s, c) = Dirty(t)
                 /\ t.res # "ok" => Handler(s, c) = t
    BY <1>0, RenameRuns
  <2>3. CASE o1 = Nil
    <3>1. Gives(s, t, R, {}, g, "nokey")
      BY <1>1, <1>3, <2>1, <2>2, <2>3, RenameDoes
    <3>2. Handler(s, c) = t
      BY <2>2, <3>1 DEF Gives
    <3>3. QED BY <2>3, <3>1, <3>2
  <2>4. CASE o1 # Nil /\ k1 = k2
    <3>1. Gives(s, t, R, {}, g, "ok")
      BY <1>n, <1>1, <1>3, <2>1, <2>2, <2>4, RenameDoes
    <3>2. Handler(s, c) = Dirty(t)
      BY <2>2, <3>1 DEF Gives
    <3>3. QED BY <2>4, <3>1, <3>2
  <2>5. CASE o1 # Nil /\ k1 # k2
    <3>1. Gives(s, t, R, W, g, "ok")
      BY <1>n, <1>1, <1>3, <2>1, <2>2, <2>5, RenameDoes
    <3>2. Handler(s, c) = Dirty(t)
      BY <2>2, <3>1 DEF Gives
    <3>3. QED BY <2>5, <3>1, <3>2
  <2>6. QED BY <2>3, <2>4, <2>5
<1>4. CASE o1 = Nil
  <2>1. Quietly(c, R, k1, o1, k2, o2)
    BY <1>3, <1>4, AnswersOnly
  <2>2. QED BY <1>2, <2>1
<1>5. CASE o1 # Nil /\ k1 = k2
  <2>1. Makes(c, c, R, {}, g, k1, o1, k2, o2)
    BY <1>2, <1>3, <1>5, DirtyMakes
  <2>2. QED BY <1>2, <2>1
<1>6. CASE o1 # Nil /\ k1 # k2
  <2>1. Makes(c, c, R, W, g, k1, o1, k2, o2)
    BY <1>2, <1>3, <1>6, DirtyMakes
  <2>2. QED BY <1>2, <2>1
<1>7. QED BY <1>4, <1>5, <1>6

\* RENAMENX looks at the destination, and is logged as a RENAME.
LEMMA RenameNX ==
  ASSUME NEW c, IsCommand(c), c.name = "RENAME", c.key \in Keys, c.dst \in Keys, "NX" \in c.opts,
         NEW o1, GoodObj(o1), NEW o2, c.key = c.dst => o1 = o2
  PROVE  \/ \E R : R \subseteq Keys /\ Quietly(c, R, c.key, o1, c.dst, o2)
         \/ \E e, R, W, g : R \subseteq Keys /\ Makes(c, e, R, W, g, c.key, o1, c.dst, o2)
<1> DEFINE k1 == c.key
           k2 == c.dst
<1>1. PICK R1, R, W, g : R1 = {k1} /\ R = {k1, k2} /\ W = {k1, k2} /\ g = Moved(k2, o1)
  OBVIOUS
<1>2. R1 \subseteq Keys /\ R \subseteq Keys
  BY <1>1
<1>0. PICK nx, e : nx = ("NX" \in c.opts) /\ e = [c EXCEPT !.opts = {}]
  OBVIOUS
<1>e. e.name = "RENAME" /\ e.key = k1 /\ e.dst = k2 /\ "NX" \notin e.opts
  BY <1>0 DEF IsCommand
<1>3. ASSUME NEW s, Start(s)
      PROVE  \E t : /\ t = Rename(s, k1, k2, nx)
                    /\ t.res = "ok" => Handler(s, c) = Propagate(t, e)
                    /\ t.res # "ok" => Handler(s, c) = t
  <2>1. PICK t : /\ t = Rename(s, k1, k2, nx)
                 /\ t.res = "ok" /\ nx => Handler(s, c) = Propagate(t, [c EXCEPT !.opts = {}])
                 /\ t.res # "ok" => Handler(s, c) = t
    BY <1>0, RenameRuns
  <2>2. nx
    BY <1>0
  <2>3. QED BY <1>0, <2>1, <2>2
<1>4. CASE o1 = Nil
  <2>1. ASSUME NEW s, Start(s), Given(s, R1, k1, o1, k2, o2)
        PROVE  \E r : Gives(s, Handler(s, c), R1, {}, g, r)
    <3>1. Found(s, k1) = o1
      BY <1>1, <2>1 DEF Given
    <3>2. PICK t : t = Rename(s, k1, k2, nx) /\ (t.res # "ok" => Handler(s, c) = t)
      BY <1>3, <2>1
    <3>3. Gives(s, t, R1, {}, g, "nokey")
      BY <1>1, <1>4, <2>1, <3>1, <3>2, RenameDoes
    <3>4. QED BY <3>2, <3>3 DEF Gives
  <2>2. Quietly(c, R1, k1, o1, k2, o2)
    BY <2>1, AnswersOnly
  <2>3. QED BY <1>2, <2>2
<1>5. CASE o1 # Nil /\ o2 # Nil
  <2>1. ASSUME NEW s, Start(s), Given(s, R, k1, o1, k2, o2)
        PROVE  \E r : Gives(s, Handler(s, c), R, {}, g, r)
    <3>1. Found(s, k1) = o1 /\ Found(s, k2) # Nil
      BY <1>1, <1>5, <2>1 DEF Given
    <3>2. PICK t : t = Rename(s, k1, k2, nx) /\ (t.res # "ok" => Handler(s, c) = t)
      BY <1>3, <2>1
    <3>3. Gives(s, t, R, {}, g, "exists")
      BY <1>0, <1>1, <1>5, <2>1, <3>1, <3>2, RenameDoes
    <3>4. QED BY <3>2, <3>3 DEF Gives
  <2>2. Quietly(c, R, k1, o1, k2, o2)
    BY <2>1, AnswersOnly
  <2>3. QED BY <1>2, <2>2
<1>6. CASE o1 # Nil /\ o2 = Nil
  <2>1. ASSUME NEW s, Start(s), Given(s, R, k1, o1, k2, o2)
        PROVE  \E t, r : Handler(s, c) = Propagate(t, e) /\ Gives(s, t, R, W, g, r)
    <3>1. Found(s, k1) = o1 /\ Found(s, k2) = Nil
      BY <1>1, <1>6, <2>1 DEF Given
    <3>2. PICK t : t = Rename(s, k1, k2, nx) /\ (t.res = "ok" => Handler(s, c) = Propagate(t, e))
      BY <1>3, <2>1
    <3>3. Gives(s, t, R, W, g, "ok")
      BY <1>0, <1>1, <1>6, <2>1, <3>1, <3>2, RenameDoes
    <3>4. QED BY <3>2, <3>3 DEF Gives
  <2>2. ASSUME NEW s, Start(s), Given(s, R, k1, o1, k2, o2) PROVE Acts(s, Handler(s, e), R1, W, g)
    <3>1. Found(s, k1) = o1
      BY <1>1, <2>2 DEF Given
    <3>0. PICK no : no = ("NX" \in e.opts)
      OBVIOUS
    <3>n. ~no
      BY <1>e, <3>0
    <3>2. PICK t : t = Rename(s, k1, k2, no) /\ (t.res = "ok" => Handler(s, e) = Dirty(t))
      <4>1. PICK t : /\ t = Rename(s, e.key, e.dst, no)
                     /\ t.res = "ok" /\ ~no => Handler(s, e) = Dirty(t)
        <5>1. e.name = "RENAME" /\ e.key \in Keys /\ e.dst \in Keys
          BY <1>e
        <5>2. QED BY ONLY <3>0, <5>1, RenameRuns, ZenonT(30)
      <4>2. QED BY <1>e, <3>n, <4>1
    <3>3. Gives(s, t, R1, W, g, "ok")
      BY <1>1, <1>6, <2>2, <3>n, <3>1, <3>2, RenameDoes
    <3>4. Handler(s, e) = Dirty(t) /\ Acts(s, t, R1, W, g) /\ IsCall(t)
      BY <3>2, <3>3 DEF Gives
    <3>5. QED BY <3>4, DirtyFacts, SameActs
  <2>3. Makes(c, e, R, W, g, k1, o1, k2, o2)
    BY <2>1, <2>2, EffectMakes
  <2>4. QED BY <1>2, <2>3
<1>7. QED BY <1>4, <1>5, <1>6

\* RENAME and RENAMENX are safe.
LEMMA RenameSafe ==
  ASSUME NEW c, IsCommand(c), c.name = "RENAME", c.key \in Keys, c.dst \in Keys
  PROVE  Safe(c)
<1>1. TwoKeys(c, c.key, c.dst)
  BY RenamePlain, RenameNX DEF TwoKeys
<1>2. QED BY <1>1, TwoKeysSafe

\* What a key copied leaves: the object under the destination.
LEMMA PutDown ==
  ASSUME NEW s, NEW u, NEW R, At(s, u, R, {}), Quiet(u), NEW dst \in Keys, NEW o, GoodObj(o),
         NEW W, W = {dst}, NEW g, g = Moved(dst, o), NEW t, t = Return(touched(store(u, dst, o), dst), TRUE)
  PROVE  Gives(s, t, R, W, g, TRUE)
<1>1. PICK w : w = touched(store(u, dst, o), dst) /\ t = Return(w, TRUE)
  OBVIOUS
<1>2. Wrote(u, w, dst, o) /\ W = {} \cup {dst}
  BY <1>1, AtTable, StoreWrites
<1>3. At(s, w, R, W) /\ SameFields(u, w) /\ w.obj[dst] = o
  BY <1>2, WroteAt
<1>4. Acts(s, w, R, W, g) /\ Quiet(w)
  BY <1>3 DEF Acts, Moved, Quiet, SameFields
<1>5. QED BY <1>1, <1>4, ReturnYes

\* COPY with and without REPLACE, which does not look at the destination.
Answers(s, t, R, W, g) == Gives(s, t, R, W, g, TRUE)
\* The answers of a command on two keys.
Refuses(s, t, R, g) == Gives(s, t, R, {}, g, FALSE)

CopiedOver(s, src, dst) == copyLocked(s, src, dst, TRUE)

\* COPY with REPLACE puts the source's object at the destination.
LEMMA CopyOver ==
  ASSUME NEW s, Start(s), NEW src \in Keys, NEW dst \in Keys, src # dst, NEW o, o = Found(s, src),
         NEW W, W = {dst}, NEW g, g = Moved(dst, o), NEW R,
         NEW t, t = CopiedOver(s, src, dst)
  PROVE  /\ o = Nil /\ R = {src} => Refuses(s, t, R, g)
         /\ o # Nil /\ R = {src} => Answers(s, t, R, W, g)
<1>1. PICK a : a = lookup(s, src)
  OBVIOUS
<1>2. Found(a, src) = o /\ GoodObj(o) /\ Quiet(a) /\ At(s, a, {src}, {})
  BY <1>1, LookedUp
<1>3. ASSUME o = Nil, R = {src} PROVE Refuses(s, t, R, g)
  <2>1. t = Return(lookup(s, src), FALSE)
    BY <1>1, <1>2, <1>3 DEF copyLocked, CopiedOver
  <2>2. QED BY <1>3, <2>1, LookupsNo DEF Refuses
<1>4. ASSUME o # Nil, R = {src} PROVE Answers(s, t, R, W, g)
  <2>1. t = Return(touched(store(a, dst, o), dst), TRUE)
    BY <1>1, <1>2, <1>4 DEF copyLocked, CopiedOver
  <2>2. Gives(s, t, R, W, g, TRUE)
    BY <1>2, <1>4, <2>1, PutDown
  <2>3. QED BY <2>2 DEF Answers
<1>5. QED BY <1>3, <1>4

\* COPY without REPLACE does so if the destination is free.
LEMMA CopyAside ==
  ASSUME NEW s, Start(s), NEW src \in Keys, NEW dst \in Keys, src # dst, NEW o, o = Found(s, src),
         NEW W, W = {dst}, NEW g, g = Moved(dst, o), NEW R, NEW t, t = copyLocked(s, src, dst, FALSE)
  PROVE  /\ o = Nil /\ R = {src} => Gives(s, t, R, {}, g, FALSE)
         /\ o # Nil /\ Found(s, dst) # Nil /\ R = {src, dst} => Gives(s, t, R, {}, g, FALSE)
         /\ o # Nil /\ Found(s, dst) = Nil /\ R = {src, dst} => Gives(s, t, R, W, g, TRUE)
<1>1. PICK b, Q : b = lookup(lookup(s, src), dst) /\ Q = {src, dst}
  OBVIOUS
<1>2. Found(lookup(s, src), src) = o /\ GoodObj(o)
  BY LookedUp
<1>3. At(s, b, Q, {}) /\ Quiet(b) /\ Found(b, dst) = Found(s, dst)
  BY <1>1, LookedUpBoth
<1>4. ASSUME o = Nil, R = {src} PROVE Gives(s, t, R, {}, g, FALSE)
  <2>1. t = Return(lookup(s, src), FALSE)
    BY <1>2, <1>4 DEF copyLocked
  <2>2. QED BY <1>4, <2>1, LookupsNo
<1>5. ASSUME o # Nil, Found(s, dst) # Nil, R = {src, dst} PROVE Gives(s, t, R, {}, g, FALSE)
  <2>1. t = Return(lookup(lookup(s, src), dst), FALSE)
    BY <1>1, <1>2, <1>3, <1>5 DEF copyLocked
  <2>2. QED BY <1>5, <2>1, LookupsNo
<1>6. ASSUME o # Nil, Found(s, dst) = Nil, R = {src, dst} PROVE Gives(s, t, R, W, g, TRUE)
  <2>1. t = Return(touched(store(b, dst, o), dst), TRUE)
    BY <1>1, <1>2, <1>3, <1>6 DEF copyLocked
  <2>2. R = Q
    BY <1>1, <1>6
  <2>3. QED BY <1>2, <1>3, <2>1, <2>2, PutDown
<1>7. QED BY <1>4, <1>5, <1>6

\* COPY is safe: it is logged with REPLACE, since the log knows the destination was free.
LEMMA CopySafe ==
  ASSUME NEW c, IsCommand(c), c.name = "COPY", c.key \in Keys, c.dst \in Keys, c.key # c.dst
  PROVE  Safe(c)
<1> DEFINE k1 == c.key
           k2 == c.dst
<1>1. PICK R1, R, W : R1 = {k1} /\ R = {k1, k2} /\ W = {k2}
  OBVIOUS
<1>2. R1 \subseteq Keys /\ R \subseteq Keys
  BY <1>1
<1>0. PICK e : e = [c EXCEPT !.opts = {"REPLACE"}]
  OBVIOUS
<1>e. e.name = "COPY" /\ e.key = k1 /\ e.dst = k2 /\ e.opts = {"REPLACE"}
  BY <1>0 DEF IsCommand
<1>f. [e EXCEPT !.opts = {"REPLACE"}] = e
  BY <1>0
<1>3. ASSUME NEW s
      PROVE  /\ "REPLACE" \in c.opts => \E t : t = CopiedOver(s, k1, k2) /\ Handler(s, c) = Effected(t, e)
             /\ "REPLACE" \notin c.opts => \E t : t = copyLocked(s, k1, k2, FALSE) /\ Handler(s, c) = Effected(t, e)
  <2>1. Handler(s, c) = Effected(copyLocked(s, k1, k2, "REPLACE" \in c.opts), e)
    BY <1>0, Dispatch DEF cmdCopy, Effected
  <2>2. CASE "REPLACE" \in c.opts
    <3>1. ("REPLACE" \in c.opts) = TRUE
      BY <2>2
    <3>2. QED BY <2>1, <2>2, <3>1, Zenon DEF CopiedOver
  <2>3. CASE "REPLACE" \notin c.opts
    <3>1. ("REPLACE" \in c.opts) = FALSE
      BY <2>3
    <3>2. QED BY <2>1, <2>3, <3>1, Zenon
  <2>4. QED BY <2>2, <2>3
<1>5. ASSUME NEW s PROVE \E t : t = CopiedOver(s, k1, k2) /\ Handler(s, e) = Effected(t, e)
  <2>1. Handler(s, e) = Effected(copyLocked(s, e.key, e.dst, "REPLACE" \in e.opts), [e EXCEPT !.opts = {"REPLACE"}])
    BY <1>e, Dispatch DEF cmdCopy, Effected
  <2>2. "REPLACE" \in e.opts
    BY <1>e
  <2>3. QED BY <1>e, <1>f, <2>1, <2>2 DEF CopiedOver
<1>6. ASSUME NEW o1, GoodObj(o1), NEW o2
      PROVE  \/ \E Q : Q \subseteq Keys /\ Quietly(c, Q, k1, o1, k2, o2)
             \/ \E f, Q, V, h : Q \subseteq Keys /\ Makes(c, f, Q, V, h, k1, o1, k2, o2)
  <2>0. PICK g : g = Moved(k2, o1)
    OBVIOUS
  <2>1. ASSUME NEW s, Start(s), Found(s, k1) = o1, o1 # Nil PROVE Acts(s, Handler(s, e), R1, W, g)
    <3>1. PICK t : t = CopiedOver(s, k1, k2) /\ Handler(s, e) = Effected(t, e)
      BY <1>5
    <3>y. Answers(s, t, R1, W, g)
      BY <1>1, <2>0, <2>1, <3>1, CopyOver
    <3>2. Gives(s, t, R1, W, g, TRUE)
      BY <3>y DEF Answers
    <3>3. Handler(s, e) = Propagate(t, e) /\ Acts(s, t, R1, W, g) /\ Quiet(t) /\ IsCall(t)
      BY <3>1, <3>2 DEF Gives, Effected
    <3>4. QED BY <3>3, PropagateGives
  <2>2. CASE o1 = Nil
    <3>1. ASSUME NEW s, Start(s), Given(s, R1, k1, o1, k2, o2)
          PROVE  \E t : Handler(s, c) = Effected(t, e) /\ Gives(s, t, R1, {}, g, FALSE)
      <4>1. Found(s, k1) = o1
        BY <1>1, <3>1 DEF Given
      <4>2. ASSUME NEW t, t = CopiedOver(s, k1, k2) \/ t = copyLocked(s, k1, k2, FALSE)
            PROVE  Gives(s, t, R1, {}, g, FALSE)
        <5>1. CASE t = CopiedOver(s, k1, k2)
          <6>1. Refuses(s, t, R1, g)
            BY <1>1, <2>0, <2>2, <3>1, <4>1, <5>1, CopyOver
          <6>2. QED BY <6>1 DEF Refuses
        <5>2. CASE t = copyLocked(s, k1, k2, FALSE)
          BY <1>1, <2>0, <2>2, <3>1, <4>1, <5>2, CopyAside
        <5>3. QED BY <4>2, <5>1, <5>2
      <4>3. QED BY <1>3, <4>2
    <3>2. Quietly(c, R1, k1, o1, k2, o2)
      BY <3>1, EffectsNo
    <3>3. QED BY <1>2, <3>2
  <2>3. CASE o1 # Nil /\ "REPLACE" \notin c.opts /\ o2 # Nil
    <3>1. ASSUME NEW s, Start(s), Given(s, R, k1, o1, k2, o2)
          PROVE  \E t : Handler(s, c) = Effected(t, e) /\ Gives(s, t, R, {}, g, FALSE)
      <4>1. Found(s, k1) = o1 /\ Found(s, k2) # Nil
        BY <1>1, <2>3, <3>1 DEF Given
      <4>2. PICK t : t = copyLocked(s, k1, k2, FALSE) /\ Handler(s, c) = Effected(t, e)
        BY <1>3, <2>3
      <4>3. Gives(s, t, R, {}, g, FALSE)
        BY <1>1, <2>0, <2>3, <3>1, <4>1, <4>2, CopyAside
      <4>4. QED BY <4>2, <4>3
    <3>2. Quietly(c, R, k1, o1, k2, o2)
      BY <3>1, EffectsNo
    <3>3. QED BY <1>2, <3>2
  <2>4. CASE o1 # Nil /\ "REPLACE" \notin c.opts /\ o2 = Nil
    <3>1. ASSUME NEW s, Start(s), Given(s, R, k1, o1, k2, o2)
          PROVE  \E t : Handler(s, c) = Effected(t, e) /\ Gives(s, t, R, W, g, TRUE)
      <4>1. Found(s, k1) = o1 /\ Found(s, k2) = Nil
        BY <1>1, <2>4, <3>1 DEF Given
      <4>2. PICK t : t = copyLocked(s, k1, k2, FALSE) /\ Handler(s, c) = Effected(t, e)
        BY <1>3, <2>4
      <4>3. Gives(s, t, R, W, g, TRUE)
        BY <1>1, <2>0, <2>4, <3>1, <4>1, <4>2, CopyAside
      <4>4. QED BY <4>2, <4>3
    <3>2. ASSUME NEW s, Start(s), Given(s, R, k1, o1, k2, o2) PROVE \E Q : Acts(s, Handler(s, e), Q, W, g)
      BY <1>1, <2>1, <2>4, <3>2 DEF Given
    <3>3. Makes(c, e, R, W, g, k1, o1, k2, o2)
      BY <3>1, <3>2, EffectsYes
    <3>4. QED BY <1>2, <3>3
  <2>5. CASE o1 # Nil /\ "REPLACE" \in c.opts
    <3>1. ASSUME NEW s, Start(s), Given(s, R1, k1, o1, k2, o2)
          PROVE  \E t : Handler(s, c) = Effected(t, e) /\ Gives(s, t, R1, W, g, TRUE)
      <4>1. Found(s, k1) = o1
        BY <1>1, <3>1 DEF Given
      <4>2. PICK t : t = CopiedOver(s, k1, k2) /\ Handler(s, c) = Effected(t, e)
        BY <1>3, <2>5
      <4>y. Answers(s, t, R1, W, g)
        BY <1>1, <2>0, <2>5, <3>1, <4>1, <4>2, CopyOver
      <4>3. Gives(s, t, R1, W, g, TRUE)
        BY <4>y DEF Answers
      <4>4. QED BY <4>2, <4>3
    <3>2. ASSUME NEW s, Start(s), Given(s, R1, k1, o1, k2, o2) PROVE \E Q : Acts(s, Handler(s, e), Q, W, g)
      BY <1>1, <2>1, <2>5, <3>2 DEF Given
    <3>3. Makes(c, e, R1, W, g, k1, o1, k2, o2)
      BY <3>1, <3>2, EffectsYes
    <3>4. QED BY <1>2, <3>3
  <2>6. QED BY <2>2, <2>3, <2>4, <2>5
<1>7. TwoKeys(c, k1, k2)
  BY <1>6 DEF TwoKeys
<1>8. QED BY <1>7, TwoKeysSafe

\* What a STORE command leaves: its destination replaced.
LEMMA StoredAs ==
  ASSUME NEW s, Start(s), NEW u, NEW R, At(s, u, R, {}), Quiet(u), NEW dst \in Keys,
         NEW ty \in Collections, NEW v, Fits(ty, v), NEW Q, Q = R \cup {dst}, NEW W, W = {dst},
         NEW g, g = Moved(dst, Put(Nil, ty, v)), NEW w, w = Replace(u, dst, ty, v)
  PROVE  Acts(s, w, Q, W, g) /\ Quiet(w) /\ IsCall(w)
<1>1. PICK no : no = {}
  OBVIOUS
<1>2. At(s, u, R, no) /\ dst \notin no /\ W = no \cup {dst}
  BY <1>1
<1>3. At(s, w, Q, W) /\ SameFields(u, w) /\ w.obj[dst] = Put(Nil, ty, v)
  BY <1>2, ReplacedAt
<1>4. Quiet(w) /\ IsCall(w)
  BY <1>3 DEF Quiet, SameFields, At
<1>5. \A j \in W : w.obj[j] = g[j]
  BY <1>3 DEF Moved
<1>6. QED BY <1>3, <1>4, <1>5 DEF Acts

\* A call that failed, having reported nothing.
Failed(t) == t.err = TRUE /\ t.eff = <<>> /\ t.dirty = FALSE

\* What SORT refuses, reads and stores.
SortWrong(o) == o.type \notin {"none", "list", "set", "zset"}
SortVal(o) == IF o.type \in {"none", "list"} THEN o.val ELSE All(o.val)
SortStored(q, desc, n) == limitSlice(Reversed(Sorted(q), desc), n)

\* The members of a collection, in order, are a sequence.
LEMMA AllSeq == ASSUME NEW z, DOMAIN z \subseteq Elems PROVE IsSeq(All(z))
<1>1. PICK S, w : S = DOMAIN z /\ w = All(z)
  OBVIOUS
<1>2. Cardinality(S) \in Nat
  BY <1>1, EffectsAssumption, FS_Subset, FS_CardinalityType
<1> DEFINE at(i) == CHOOSE x \in S : Cardinality({y \in S : z[y] < z[x] \/ (z[y] = z[x] /\ y <= x)}) = i
<1>3. w = [i \in 1 .. Cardinality(S) |-> w[i]]
  <2>1. w = [i \in 1 .. Cardinality(S) |-> at(i)]
    <3>1. w = [i \in 1 .. Cardinality(DOMAIN z) |->
                 CHOOSE x \in DOMAIN z :
                   Cardinality({y \in DOMAIN z : z[y] < z[x] \/ (z[y] = z[x] /\ y <= x)}) = i]
      BY <1>1 DEF All, Ordered
    <3>2. QED BY <1>1, <3>1
  <2> HIDE DEF at
  <2>2. QED BY <2>1
<1>4. QED BY <1>1, <1>2, <1>3, MakeSeq

\* So are they in reverse.
LEMMA ReversedSeq == ASSUME NEW q, IsSeq(q), NEW rev PROVE IsSeq(Reversed(q, rev))
<1>1. PICK w : w = Reverse(q)
  OBVIOUS
<1>2. w = [i \in 1 .. Len(q) |-> w[i]]
  BY <1>1 DEF Reverse
<1>3. IsSeq(w)
  BY <1>2, IsSeqLen, MakeSeq
<1>4. QED BY <1>1, <1>3 DEF Reversed

\* What SORT stores is a sequence.
LEMMA SortStoredSeq == ASSUME NEW q, IsSeq(q), NEW desc, NEW n \in Int PROVE IsSeq(SortStored(q, desc, n))
<1>1. PICK w : w = Sorted(q)
  OBVIOUS
<1>2. DOMAIN q = 1 .. Len(q) /\ Len(q) \in Nat
  BY IsSeqLen
<1>3. w = [i \in 1 .. Len(q) |-> w[i]]
  <2>1. w = [i \in DOMAIN q |-> w[i]]
    BY <1>1 DEF Sorted
  <2>2. QED BY <1>2, <2>1
<1>4. IsSeq(w)
  BY <1>2, <1>3, MakeSeq
<1>5. PICK x : x = Reversed(w, desc)
  OBVIOUS
<1>6. IsSeq(x) /\ Len(x) \in Nat
  BY <1>4, <1>5, ReversedSeq, IsSeqLen
<1>7. PICK h : h = IF n < Len(x) THEN n ELSE Len(x)
  OBVIOUS
<1>8. h \in Int
  BY <1>6, <1>7
<1>9. IsSeq(SubSeq(x, 1, h))
  BY <1>6, <1>8, SubSeqSeq
<1>10. SortStored(q, desc, n) = SubSeq(x, 1, h)
  BY <1>1, <1>5, <1>7 DEF SortStored, limitSlice
<1>11. QED BY <1>9, <1>10

\* What SORT reads.
LEMMA SortReads ==
  ASSUME NEW s, Start(s), NEW k \in Keys, NEW o, o = Found(s, k), NEW R, R = {k},
         NEW t, t = SortSource(s, k)
  PROVE  /\ SortWrong(o) => At(s, t, R, {}) /\ Failed(t)
         /\ ~SortWrong(o) => At(s, t, R, {}) /\ Quiet(t) /\ t.res = SortVal(o) /\ IsSeq(SortVal(o))
<1>0. Found(lookup(s, k), k) = o /\ GoodObj(o) /\ At(s, lookup(s, k), R, {}) /\ Quiet(lookup(s, k))
  BY LookedUp
<1>00. PICK u : u = lookup(s, k)
  OBVIOUS
<1>c. IsCall(u)
  BY <1>0, <1>00 DEF At
<1>1. ASSUME SortWrong(o)
      PROVE  At(s, t, R, {}) /\ Failed(t)
  <2>1. t = Fail(u)
    BY <1>0, <1>00, <1>1 DEF SortSource, SortWrong
  <2>2. SameTable(u, t) /\ t.eff = u.eff /\ t.dirty = u.dirty /\ t.err = TRUE
    BY <1>c, <2>1, FailFacts DEF SameTable
  <2>3. QED BY <1>0, <1>00, <2>2, SameAt DEF Quiet, Failed
<1>2. ASSUME ~SortWrong(o)
      PROVE  At(s, t, R, {}) /\ Quiet(t) /\ t.res = SortVal(o) /\ IsSeq(SortVal(o))
  <2>1. t = Return(u, SortVal(o))
    BY <1>0, <1>00, <1>2 DEF SortSource, SortWrong, SortVal
  <2>2. SameTable(u, t) /\ t.eff = u.eff /\ t.dirty = u.dirty /\ t.err = u.err /\ t.res = SortVal(o)
    BY <1>c, <2>1, ReturnFacts DEF SameTable
  <2>3. IsSeq(SortVal(o))
    <3>1. CASE o.type \in {"none", "list"}
      BY <1>0, <3>1, ValSeq DEF SortVal
    <3>2. CASE o.type \notin {"none", "list"}
      <4>1. o.type \in {"set", "zset"} /\ o # Nil
        BY <1>2, <3>2, NilFacts DEF SortWrong
      <4>2. DOMAIN o.val \subseteq Elems
        BY <1>0, <4>1 DEF GoodObj, Proper, Shape
      <4>3. QED BY <3>2, <4>2, AllSeq DEF SortVal
    <3>3. QED BY <3>1, <3>2
  <2>4. QED BY <1>0, <1>00, <2>2, <2>3, SameAt DEF Quiet
<1>3. QED BY <1>1, <1>2

\* SORT with STORE is safe.
LEMMA SortSafe ==
  ASSUME NEW c, c.name = "SORT", c.key \in Keys, c.dst \in Keys, c.n \in Int
  PROVE  Safe(c)
<1> DEFINE k1 == c.key
           k2 == c.dst
<1>1. PICK R1, R, W : R1 = {k1} /\ R = R1 \cup {k2} /\ W = {k2}
  OBVIOUS
<1>2. c.name \notin Canonical /\ R1 \subseteq Keys /\ R \subseteq Keys
  BY <1>1, CanonicalNames
<1>0. PICK desc : desc = ("DESC" \in c.opts)
  OBVIOUS
<1>3. ASSUME NEW s
      PROVE  \E t : /\ t = SortSource(s, k1)
                    /\ t.err => Handler(s, c) = t
                    /\ ~t.err => Handler(s, c) = Dirty(Replace(t, k2, "list", SortStored(t.res, desc, c.n)))
  BY <1>0, Dispatch DEF cmdSort, StoreList, SortStored
<1>4. ASSUME NEW o1, GoodObj(o1), NEW o2
      PROVE  \/ \E Q : Q \subseteq Keys /\ Quietly(c, Q, k1, o1, k2, o2)
             \/ \E f, Q, V, h : Q \subseteq Keys /\ Makes(c, f, Q, V, h, k1, o1, k2, o2)
  <2>1. CASE SortWrong(o1)
    <3>1. ASSUME NEW s, Start(s), Given(s, R1, k1, o1, k2, o2)
          PROVE  At(s, Handler(s, c), R1, {}) /\ Logged(Handler(s, c), c) = <<>>
      <4>1. Found(s, k1) = o1
        BY <1>1, <3>1 DEF Given
      <4>2. PICK t : t = SortSource(s, k1) /\ (t.err => Handler(s, c) = t)
        BY <1>3
      <4>3. At(s, t, R1, {}) /\ Failed(t)
        BY <1>1, <2>1, <3>1, <4>1, <4>2, SortReads
      <4>4. QED BY <4>2, <4>3 DEF Logged, Failed
    <3>2. Quietly(c, R1, k1, o1, k2, o2)
      BY <3>1 DEF Quietly
    <3>3. QED BY <1>2, <3>2
  <2>2. CASE ~SortWrong(o1)
    <3>0. PICK v, g : v = SortStored(SortVal(o1), desc, c.n) /\ g = Moved(k2, Put(Nil, "list", v))
      OBVIOUS
    <3>1. ASSUME NEW s, Start(s), Given(s, R, k1, o1, k2, o2)
          PROVE  Acts(s, Handler(s, c), R, W, g) /\ Logged(Handler(s, c), c) = <<c>>
      <4>1. Found(s, k1) = o1
        BY <1>1, <3>1 DEF Given
      <4>2. PICK t : /\ t = SortSource(s, k1)
                     /\ ~t.err => Handler(s, c) = Dirty(Replace(t, k2, "list", SortStored(t.res, desc, c.n)))
        BY <1>3
      <4>3. At(s, t, R1, {}) /\ Quiet(t) /\ t.res = SortVal(o1) /\ IsSeq(SortVal(o1))
        BY <1>1, <2>2, <3>1, <4>1, <4>2, SortReads
      <4>4. PICK w : w = Replace(t, k2, "list", v)
        OBVIOUS
      <4>5. Handler(s, c) = Dirty(w)
        BY <3>0, <4>2, <4>3, <4>4 DEF Quiet
      <4>6. IsSeq(v)
        BY <3>0, <4>3, SortStoredSeq
      <4>7. Fits("list", v) /\ "list" \in Collections
        BY <4>6, ListFits
      <4>8. Acts(s, w, R, W, g) /\ Quiet(w) /\ IsCall(w)
        BY <1>1, <3>0, <3>1, <4>3, <4>4, <4>7, StoredAs
      <4>9. QED BY ONLY <1>2, <4>5, <4>8, DirtyGives
    <3>2. Makes(c, c, R, W, g, k1, o1, k2, o2)
      BY <3>1 DEF Makes
    <3>3. QED BY <1>2, <3>2
  <2>3. QED BY <2>1, <2>2
<1>5. TwoKeys(c, k1, k2)
  BY <1>4 DEF TwoKeys
<1>6. QED BY <1>5, TwoKeysSafe

\* One key written, and then another.
Both(k2, x2, x1) == [j \in Keys |-> IF j = k2 THEN x2 ELSE x1]

\* A destination that is made if it is missing, and what is left there.
Onto(u, dst, ty, v0, v1) == IF Found(u, dst) = Nil THEN touched(store(u, dst, Object(ty, 0, v0)), dst)
                                                   ELSE Change(u, dst, ty, v1)
OntoObj(o, ty, v0, v1) == IF o = Nil THEN Object(ty, 0, v0) ELSE Put(o, ty, v1)

\* A destination that is made, or changed, is one more key in W.
LEMMA OntoAt ==
  ASSUME NEW s, NEW u, NEW R, At(s, u, R, {}), NEW dst \in Keys, ~expired(u, dst),
         NEW ty \in Collections, NEW o, o = u.obj[dst], o = Nil \/ o.type = ty,
         NEW v0, GoodObj(Object(ty, 0, v0)), NEW v1, Fits(ty, v1), NEW V, V = {dst},
         NEW p, p = Onto(u, dst, ty, v0, v1)
  PROVE  /\ At(s, p, R, V) /\ SameFields(u, p) /\ p.obj[dst] = OntoObj(o, ty, v0, v1)
         /\ \A j \in Keys \ {dst} : p.obj[j] = u.obj[j]
<1>1. PICK no : no = {}
  OBVIOUS
<1>2. At(s, u, R, no) /\ V = no \cup {dst} /\ Table0(u)
  BY <1>1, AtTable
<1>3. Found(u, dst) = o
  BY DEF Found
<1>4. CASE o = Nil
  <2>1. PICK x : x = Object(ty, 0, v0)
    OBVIOUS
  <2>2. p = touched(store(u, dst, x), dst) /\ OntoObj(o, ty, v0, v1) = x
    BY <1>3, <1>4, <2>1 DEF Onto, OntoObj
  <2>3. Wrote(u, p, dst, x)
    BY <1>2, <2>1, <2>2, StoreWrites
  <2>4. GoodObj(x)
    BY <2>1
  <2>5. QED BY <1>2, <2>2, <2>3, <2>4, WroteAt
<1>5. CASE o # Nil
  <2>1. p = Change(u, dst, ty, v1) /\ OntoObj(o, ty, v0, v1) = Put(o, ty, v1)
    BY <1>3, <1>5 DEF Onto, OntoObj
  <2>2. QED BY <1>2, <2>1, ChangeAt
<1>6. QED BY <1>4, <1>5

\* Calls given as the value of an operator, so that a lemma about them has a variable to name.
Answered(r) == Return(r, TRUE)

\* What LMOVE and SMOVE do to two keys.
LEMMA Shifted ==
  ASSUME NEW s, Start(s), NEW src \in Keys, NEW dst \in Keys, src # dst, NEW R, R = {src, dst},
         NEW u, u = lookup(lookup(s, src), dst), NEW ty \in Collections,
         NEW o1, o1 = Found(s, src), o1.type = ty, NEW o2, o2 = Found(s, dst), o2 = Nil \/ o2.type = ty,
         NEW v0, GoodObj(Object(ty, 0, v0)), NEW v1, Fits(ty, v1), NEW w, Fits(ty, w),
         NEW W, W = {src, dst}, NEW g, g = Both(dst, OntoObj(o2, ty, v0, v1), Put(o1, ty, w)),
         NEW t, t = Answered(Change(Onto(u, dst, ty, v0, v1), src, ty, w))
  PROVE  Answers(s, t, R, W, g)
<1>1. /\ At(s, u, R, {}) /\ Quiet(u) /\ u.obj[src] = o1 /\ u.obj[dst] = o2
      /\ ~expired(u, src) /\ ~expired(u, dst)
  BY LookedUpBoth
<1>2. PICK p, V, x : p = Onto(u, dst, ty, v0, v1) /\ V = {dst} /\ x = OntoObj(o2, ty, v0, v1)
  OBVIOUS
<1>3. At(s, p, R, V) /\ SameFields(u, p) /\ p.obj[dst] = x /\ \A j \in Keys \ {dst} : p.obj[j] = u.obj[j]
  BY <1>1, <1>2, OntoAt, SMTT(30)
<1>4. ~expired(p, src) /\ p.obj[src] = o1
  <2>1. p.mode = u.mode /\ p.clock = u.clock
    BY <1>1, <1>3 DEF At
  <2>2. QED BY <1>1, <1>3, <2>1 DEF expired, Now, Due
<1>5. PICK r : r = Change(p, src, ty, w) /\ t = Answered(r)
  BY <1>2
<1>6. W = V \cup {src}
  BY <1>2
<1>7. /\ At(s, r, R, W) /\ SameFields(p, r) /\ r.obj[src] = Put(o1, ty, w)
      /\ \A j \in Keys \ {src} : r.obj[j] = p.obj[j]
  <2>1. At(s, p, R, V) /\ ~expired(p, src) /\ p.obj[src].type = ty
    BY <1>3, <1>4
  <2>2. r = Change(p, src, ty, w)
    BY <1>5
  <2>3. Table0(p)
    BY <2>1, AtTable
  <2>4. PICK x1 : x1 = Put(p.obj[src], ty, w)
    OBVIOUS
  <2>5. Wrote(p, r, src, x1) /\ GoodObj(x1)
    BY ONLY <2>1, <2>2, <2>3, <2>4, ChangeWrites, src \in Keys, ty \in Collections, Fits(ty, w)
  <2>6. /\ At(s, r, R, W) /\ SameFields(p, r) /\ r.obj[src] = x1
        /\ \A j \in Keys \ {src} : r.obj[j] = p.obj[j]
    BY ONLY <1>6, <2>1, <2>5, WroteAt, src \in Keys
  <2>7. QED BY <1>4, <2>4, <2>6
<1>8. \A j \in W : r.obj[j] = g[j]
  BY <1>2, <1>3, <1>7 DEF Both
<1>9. Acts(s, r, R, W, g) /\ Quiet(r)
  BY <1>1, <1>3, <1>7, <1>8 DEF Acts, Quiet, SameFields
<1>10. Gives(s, t, R, W, g, TRUE)
  <2>1. t = Return(r, TRUE)
    BY <1>5 DEF Answered
  <2>2. QED BY <1>9, <2>1, ReturnYes
<1>11. QED BY <1>10 DEF Answers

\* A move from a key to itself is a change of that key.
LEMMA YesAnswers ==
  ASSUME NEW s, NEW t, NEW k \in Keys, NEW new, Yes(s, t, k, new), NEW R, R = {k}, NEW g, g = Moved(k, new)
  PROVE  Answers(s, t, R, R, g)
<1>1. At(s, t, R, R) /\ t.obj[k] = new
  BY DEF Yes, Puts
<1>2. \A j \in R : t.obj[j] = g[j]
  BY <1>1 DEF Moved
<1>3. QED BY <1>1, <1>2 DEF Yes, Answers, Gives, Acts

\* The end of a list, and the list without it, are sequences.
LEMMA TopPopped ==
  ASSUME NEW o, GoodObj(o), o.type = "list", NEW f
  PROVE  IsSeq(Popped(o.val, f)) /\ IsSeq(<<Top(o.val, f)>>) /\ DOMAIN <<Top(o.val, f)>> # {}
<1>1. IsSeq(Popped(o.val, f))
  BY ListVal, PopSeq
<1>2. PICK x : x = Top(o.val, f)
  OBVIOUS
<1>3. IsSeq(<<x>>) /\ DOMAIN <<x>> # {}
  BY OneSeq, IsSeqLen
<1>4. QED BY <1>1, <1>2, <1>3

\* The end of an LMove.
LMoveDone(t, s, src, dst, f, d) == t = LMove(s, src, dst, f, d)

\* What LMove does depends on what it finds at its two keys alone.
LEMMA LMoveDoes ==
  ASSUME NEW src \in Keys, NEW dst \in Keys, NEW f, NEW d, NEW o1, GoodObj(o1), NEW o2, GoodObj(o2),
         src = dst => o1 = o2
  PROVE  \/ \E R, g : /\ R \subseteq Keys
                      /\ \A s, t : Start(s) /\ Given(s, R, src, o1, dst, o2) /\ LMoveDone(t, s, src, dst, f, d)
                                     => Refuses(s, t, R, g)
         \/ \E R, W, g : /\ R \subseteq Keys
                         /\ \A s, t : Start(s) /\ Given(s, R, src, o1, dst, o2) /\ LMoveDone(t, s, src, dst, f, d)
                                        => Answers(s, t, R, W, g)
<1>1. PICK R1, R, no : R1 = {src} /\ R = {src, dst} /\ no = Nil
  OBVIOUS
<1>2. R1 \subseteq Keys /\ R \subseteq Keys
  BY <1>1
<1>3. PICK v, rest : v = <<Top(o1.val, f)>> /\ rest = Popped(o1.val, f)
  OBVIOUS
<1>4. CASE o1.type # "list"
  <2>1. ASSUME NEW s, NEW t, Start(s), Given(s, R1, src, o1, dst, o2), LMoveDone(t, s, src, dst, f, d)
        PROVE  Refuses(s, t, R1, no)
    <3>1. Found(lookup(s, src), src) = o1
      BY <1>1, <2>1, FoundAgain DEF Given
    <3>2. t = Return(lookup(s, src), FALSE)
      BY <1>4, <2>1, <3>1 DEF LMove, LMoveDone
    <3>3. QED BY <1>1, <2>1, <3>2, LookupsNo DEF Refuses
  <2>2. QED BY <1>2, <2>1
<1>5. CASE o1.type = "list" /\ src = dst
  <2>0. PICK x, new, g : x = Push(rest, v, d) /\ new = Put(o1, "list", x) /\ g = Moved(src, new)
    OBVIOUS
  <2>1. Fits("list", x) /\ "list" \in Collections
    BY <1>3, <1>5, <2>0, TopPopped, ConcatSeq, ListFits DEF Push
  <2>2. ASSUME NEW s, NEW t, Start(s), Given(s, R1, src, o1, dst, o2), LMoveDone(t, s, src, dst, f, d)
        PROVE  Answers(s, t, R1, R1, g)
    <3>1. Found(lookup(s, src), src) = o1 /\ Found(s, src) = o1
      BY <1>1, <2>2, FoundAgain DEF Given
    <3>2. t = Return(Change(lookup(s, src), src, "list", x), TRUE)
      BY <1>3, <1>5, <2>0, <2>2, <3>1 DEF LMove, LMoveDone
    <3>3. Yes(s, t, src, new)
      BY <1>5, <2>0, <2>1, <2>2, <3>1, <3>2, ChangeYes
    <3>4. QED BY <1>1, <2>0, <3>3, YesAnswers
  <2>3. QED BY <1>2, <2>2
<1>6. CASE o1.type = "list" /\ src # dst /\ WrongType(o2, "list")
  <2>1. ASSUME NEW s, NEW t, Start(s), Given(s, R, src, o1, dst, o2), LMoveDone(t, s, src, dst, f, d)
        PROVE  Refuses(s, t, R, no)
    <3>1. Found(lookup(s, src), src) = o1
      BY <1>1, <2>1, FoundAgain DEF Given
    <3>2. Found(lookup(lookup(s, src), dst), dst) = o2
      BY <1>1, <2>1, LookedUpBoth DEF Given
    <3>3. t = Return(lookup(lookup(s, src), dst), FALSE)
      BY <1>6, <2>1, <3>1, <3>2 DEF LMove, LMoveDone
    <3>4. QED BY <1>1, <2>1, <3>3, LookupsNo DEF Refuses
  <2>2. QED BY <1>2, <2>1
<1>7. CASE o1.type = "list" /\ src # dst /\ ~WrongType(o2, "list")
  <2>0. PICK v1, g : /\ v1 = Push(o2.val, v, d)
                     /\ g = Both(dst, OntoObj(o2, "list", v, v1), Put(o1, "list", rest))
    OBVIOUS
  <2>1. o2.type \in {"none", "list"} /\ (o2 = Nil \/ o2.type = "list")
    BY <1>7, GoodFacts DEF WrongType
  <2>2. IsSeq(v) /\ DOMAIN v # {} /\ IsSeq(rest) /\ IsSeq(o2.val)
    BY <1>3, <1>7, <2>1, TopPopped, ValSeq
  <2>3. Fits("list", rest) /\ Fits("list", v1) /\ "list" \in Collections
    BY <2>0, <2>2, ConcatSeq, ListFits DEF Push
  <2>4. GoodObj(Object("list", 0, v))
    BY <2>2, ObjectFacts, EffectsAssumption DEF GoodObj, Proper, Shape, Types
  <2>5. ASSUME NEW s, NEW t, Start(s), Given(s, R, src, o1, dst, o2), LMoveDone(t, s, src, dst, f, d)
        PROVE  Answers(s, t, R, R, g)
    <3>1. Found(lookup(s, src), src) = o1 /\ Found(s, src) = o1 /\ Found(s, dst) = o2
      BY <1>1, <2>5, FoundAgain DEF Given
    <3>2. PICK u : u = lookup(lookup(s, src), dst)
      OBVIOUS
    <3>3. Found(u, dst) = o2
      BY <1>1, <2>5, <3>1, <3>2, LookedUpBoth
    <3>4. t = Answered(Change(Onto(u, dst, "list", v, v1), src, "list", rest))
      <4>1. t = Return(Change(IF o2 = Nil THEN touched(store(u, dst, Object("list", 0, v)), dst)
                                          ELSE Change(u, dst, "list", v1), src, "list", rest), TRUE)
        BY <1>3, <1>7, <2>0, <2>5, <3>1, <3>2, <3>3 DEF LMove, LMoveDone
      <4>2. QED BY <3>3, <4>1 DEF Onto, Answered
    <3>5. o1.type = "list" /\ src # dst /\ (o2 = Nil \/ o2.type = "list") /\ Start(s)
      BY <1>7, <2>1, <2>5
    <3>6. PICK ty, Q : ty = "list" /\ Q = R
      OBVIOUS
    <3>7. /\ Start(s) /\ src \in Keys /\ dst \in Keys /\ src # dst /\ R = {src, dst}
          /\ u = lookup(lookup(s, src), dst) /\ ty \in Collections
      BY <1>1, <2>3, <3>2, <3>5, <3>6
    <3>8. /\ o1 = Found(s, src) /\ o1.type = ty /\ o2 = Found(s, dst) /\ (o2 = Nil \/ o2.type = ty)
      BY <3>1, <3>5, <3>6
    <3>9. GoodObj(Object(ty, 0, v)) /\ Fits(ty, v1) /\ Fits(ty, rest)
      BY <2>3, <2>4, <3>6
    <3>10. /\ Q = {src, dst} /\ g = Both(dst, OntoObj(o2, ty, v, v1), Put(o1, ty, rest))
           /\ t = Answered(Change(Onto(u, dst, ty, v, v1), src, ty, rest))
      BY <1>1, <2>0, <3>4, <3>6
    <3>11. Answers(s, t, R, Q, g)
      BY ONLY <3>7, <3>8, <3>9, <3>10, Shifted, ZenonT(30)
    <3>12. QED BY <3>6, <3>11
  <2>6. QED BY <1>2, <2>5
<1>8. QED BY <1>4, <1>5, <1>6, <1>7

\* LMOVE is safe.
LEMMA LMoveSafe ==
  ASSUME NEW c, c.name = "LMOVE", c.key \in Keys, c.dst \in Keys
  PROVE  Safe(c)
<1> DEFINE k1 == c.key
           k2 == c.dst
<1>0. PICK f, d : f = Srcfront(c) /\ d = Dstfront(c)
  OBVIOUS
<1>1. ASSUME NEW s PROVE \E t : LMoveDone(t, s, k1, k2, f, d) /\ Handler(s, c) = Reported(t)
  BY <1>0, DispatchCollections DEF listMove, LMoveDone
<1>2. c.name \notin Canonical
  BY CanonicalNames
<1>3. ASSUME NEW o1, GoodObj(o1), NEW o2, GoodObj(o2), k1 = k2 => o1 = o2
      PROVE  \/ \E Q : Q \subseteq Keys /\ Quietly(c, Q, k1, o1, k2, o2)
             \/ \E Q, V, h : Q \subseteq Keys /\ Makes(c, c, Q, V, h, k1, o1, k2, o2)
  <2>1. ASSUME NEW R, NEW g,
               \A s, t : Start(s) /\ Given(s, R, k1, o1, k2, o2) /\ LMoveDone(t, s, k1, k2, f, d)
                           => Refuses(s, t, R, g)
        PROVE  Quietly(c, R, k1, o1, k2, o2)
    <3>1. ASSUME NEW s, Start(s), Given(s, R, k1, o1, k2, o2)
          PROVE  \E t : Handler(s, c) = Reported(t) /\ Gives(s, t, R, {}, g, FALSE)
      BY <1>1, <2>1, <3>1 DEF Refuses
    <3>2. QED BY <3>1, ReportsNo
  <2>2. ASSUME NEW R, NEW W, NEW g,
               \A s, t : Start(s) /\ Given(s, R, k1, o1, k2, o2) /\ LMoveDone(t, s, k1, k2, f, d)
                           => Answers(s, t, R, W, g)
        PROVE  Makes(c, c, R, W, g, k1, o1, k2, o2)
    <3>1. ASSUME NEW s, Start(s), Given(s, R, k1, o1, k2, o2)
          PROVE  \E t : Handler(s, c) = Reported(t) /\ Gives(s, t, R, W, g, TRUE)
      BY <1>1, <2>2, <3>1 DEF Answers
    <3>2. QED BY <1>2, <3>1, ReportsYes
  <2>3. \/ \E R, g : /\ R \subseteq Keys
                     /\ \A s, t : Start(s) /\ Given(s, R, k1, o1, k2, o2) /\ LMoveDone(t, s, k1, k2, f, d)
                                    => Refuses(s, t, R, g)
        \/ \E R, W, g : /\ R \subseteq Keys
                        /\ \A s, t : Start(s) /\ Given(s, R, k1, o1, k2, o2) /\ LMoveDone(t, s, k1, k2, f, d)
                                       => Answers(s, t, R, W, g)
    BY <1>3, LMoveDoes
  <2>4. QED BY <2>1, <2>2, <2>3
<1>4. TwoKeys(c, k1, k2)
  BY <1>3 DEF TwoKeys
<1>5. QED BY <1>4, TwoKeysSafe

\* BLMOVE is safe: served at once, it is logged as the LMOVE it amounts to.
LEMMA BLMoveSafe ==
  ASSUME NEW c, IsCommand(c), c.name = "BLMOVE", c.key \in Keys, c.dst \in Keys
  PROVE  Safe(c)
<1> DEFINE k1 == c.key
           k2 == c.dst
<1>0. PICK f, d, e : f = Srcfront(c) /\ d = Dstfront(c) /\ e = [c EXCEPT !.name = "LMOVE"]
  OBVIOUS
<1>e. e.name = "LMOVE" /\ e.key = k1 /\ e.dst = k2 /\ e.opts = c.opts
  BY <1>0 DEF IsCommand
<1>1. ASSUME NEW s PROVE \E t : LMoveDone(t, s, k1, k2, f, d) /\ Handler(s, c) = Effected(t, e)
  BY <1>0, DispatchCollections DEF blockingMove, LMoveDone, Effected
<1>2. ASSUME NEW s PROVE \E t : LMoveDone(t, s, k1, k2, f, d) /\ Handler(s, e) = Reported(t)
  <2>1. f = Srcfront(e) /\ d = Dstfront(e)
    BY <1>0, <1>e DEF Srcfront, Dstfront
  <2>2. QED BY <1>e, <2>1, DispatchCollections DEF listMove, LMoveDone
<1>3. ASSUME NEW o1, GoodObj(o1), NEW o2, GoodObj(o2), k1 = k2 => o1 = o2
      PROVE  \/ \E Q : Q \subseteq Keys /\ Quietly(c, Q, k1, o1, k2, o2)
             \/ \E Q, V, h : Q \subseteq Keys /\ Makes(c, e, Q, V, h, k1, o1, k2, o2)
  <2>1. ASSUME NEW R, NEW g,
               \A s, t : Start(s) /\ Given(s, R, k1, o1, k2, o2) /\ LMoveDone(t, s, k1, k2, f, d)
                           => Refuses(s, t, R, g)
        PROVE  Quietly(c, R, k1, o1, k2, o2)
    <3>1. ASSUME NEW s, Start(s), Given(s, R, k1, o1, k2, o2)
          PROVE  \E t : Handler(s, c) = Effected(t, e) /\ Gives(s, t, R, {}, g, FALSE)
      BY <1>1, <2>1, <3>1 DEF Refuses
    <3>2. QED BY <3>1, EffectsNo
  <2>2. ASSUME NEW R, NEW W, NEW g,
               \A s, t : Start(s) /\ Given(s, R, k1, o1, k2, o2) /\ LMoveDone(t, s, k1, k2, f, d)
                           => Answers(s, t, R, W, g)
        PROVE  Makes(c, e, R, W, g, k1, o1, k2, o2)
    <3>1. ASSUME NEW s, Start(s), Given(s, R, k1, o1, k2, o2)
          PROVE  \E t : Handler(s, c) = Effected(t, e) /\ Gives(s, t, R, W, g, TRUE)
      BY <1>1, <2>2, <3>1 DEF Answers
    <3>2. ASSUME NEW s, Start(s), Given(s, R, k1, o1, k2, o2) PROVE Acts(s, Handler(s, e), R, W, g)
      <4>1. PICK t : Handler(s, e) = Reported(t) /\ Answers(s, t, R, W, g)
        BY <1>2, <2>2, <3>2
      <4>2. Handler(s, e) = Dirty(t) /\ Acts(s, t, R, W, g) /\ IsCall(t)
        BY <4>1 DEF Answers, Gives, Reported
      <4>3. QED BY <4>2, DirtyFacts, SameActs
    <3>3. ASSUME NEW s, Start(s), Given(s, R, k1, o1, k2, o2) PROVE \E Q : Acts(s, Handler(s, e), Q, W, g)
      BY <3>2, <3>3
    <3>4. QED BY <3>1, <3>3, EffectsYes
  <2>3. \/ \E R, g : /\ R \subseteq Keys
                     /\ \A s, t : Start(s) /\ Given(s, R, k1, o1, k2, o2) /\ LMoveDone(t, s, k1, k2, f, d)
                                    => Refuses(s, t, R, g)
        \/ \E R, W, g : /\ R \subseteq Keys
                        /\ \A s, t : Start(s) /\ Given(s, R, k1, o1, k2, o2) /\ LMoveDone(t, s, k1, k2, f, d)
                                       => Answers(s, t, R, W, g)
    BY <1>3, LMoveDoes
  <2>4. QED BY <2>1, <2>2, <2>3
<1>4. TwoKeys(c, k1, k2)
  BY <1>3 DEF TwoKeys
<1>5. QED BY <1>4, TwoKeysSafe

\* SMOVE is safe.
LEMMA SMoveSafe ==
  ASSUME NEW c, c.name = "SMOVE", c.key \in Keys, c.dst \in Keys
  PROVE  Safe(c)
<1>p. PICK src, dst, m : src = c.key /\ dst = c.dst /\ m = c.n
  OBVIOUS
<1>q. src \in Keys /\ dst \in Keys
  BY <1>p
<1>0. ASSUME NEW s PROVE \E t : t = SMove(s, src, dst, m) /\ Handler(s, c) = Reported(t)
  BY <1>p, DispatchCollections DEF cmdSMove
<1>n. c.name \notin Canonical
  BY CanonicalNames
<1>1. PICK R1, R, W, no : R1 = {src} /\ R = {src, dst} /\ W = {} /\ no = Nil
  OBVIOUS
<1>2. R1 \subseteq Keys /\ R \subseteq Keys
  BY <1>q, <1>1
<1>3. ASSUME NEW o1, GoodObj(o1), NEW o2, GoodObj(o2), src = dst => o1 = o2
      PROVE  \/ \E Q : Q \subseteq Keys /\ Quietly(c, Q, src, o1, dst, o2)
             \/ \E Q, V, h : Q \subseteq Keys /\ Makes(c, c, Q, V, h, src, o1, dst, o2)
  <2>1. CASE o1.type # "set"
    <3>1. ASSUME NEW s, Start(s), Given(s, R1, src, o1, dst, o2)
          PROVE  \E t : Handler(s, c) = Reported(t) /\ Gives(s, t, R1, {}, no, FALSE)
      <4>1. Found(lookup(s, src), src) = o1
        BY <1>q, <1>1, <3>1, FoundAgain DEF Given
      <4>2. PICK t : t = SMove(s, src, dst, m) /\ Handler(s, c) = Reported(t)
        BY <1>0
      <4>3. t = Return(lookup(s, src), FALSE)
        BY <2>1, <4>1, <4>2 DEF SMove
      <4>4. Gives(s, t, R1, {}, no, FALSE)
        BY <1>q, <1>1, <3>1, <4>3, LookupsNo
      <4>5. QED BY <4>2, <4>4
    <3>2. Quietly(c, R1, src, o1, dst, o2)
      BY <3>1, ReportsNo
    <3>3. QED BY <1>2, <3>2
  <2>2. CASE o1.type = "set" /\ (WrongType(o2, "set") \/ m \notin DOMAIN o1.val)
    <3>1. ASSUME NEW s, Start(s), Given(s, R, src, o1, dst, o2)
          PROVE  \E t : Handler(s, c) = Reported(t) /\ Gives(s, t, R, {}, no, FALSE)
      <4>1. Found(lookup(s, src), src) = o1
        BY <1>q, <1>1, <3>1, FoundAgain DEF Given
      <4>2. PICK t : t = SMove(s, src, dst, m) /\ Handler(s, c) = Reported(t)
        BY <1>0
      <4>3. Found(lookup(lookup(s, src), dst), dst) = o2
        BY <1>q, <1>1, <3>1, LookedUpBoth DEF Given
      <4>4. t = Return(lookup(lookup(s, src), dst), FALSE)
        BY <2>2, <4>1, <4>2, <4>3 DEF SMove, WrongType
      <4>5. Gives(s, t, R, {}, no, FALSE)
        BY <1>q, <1>1, <3>1, <4>4, LookupsNo
      <4>6. QED BY <4>2, <4>5
    <3>2. Quietly(c, R, src, o1, dst, o2)
      BY <3>1, ReportsNo
    <3>3. QED BY <1>2, <3>2
  <2>3. CASE o1.type = "set" /\ ~WrongType(o2, "set") /\ m \in DOMAIN o1.val /\ src = dst
    <3>1. ASSUME NEW s, Start(s), Given(s, R, src, o1, dst, o2)
          PROVE  \E t : Handler(s, c) = Reported(t) /\ Gives(s, t, R, W, no, TRUE)
      <4>1. Found(lookup(s, src), src) = o1
        BY <1>q, <1>1, <3>1, FoundAgain DEF Given
      <4>2. PICK t : t = SMove(s, src, dst, m) /\ Handler(s, c) = Reported(t)
        BY <1>0
      <4>3. Found(lookup(lookup(s, src), dst), dst) = o2
        BY <1>q, <1>1, <3>1, LookedUpBoth DEF Given
      <4>0. o2 = o1
        BY <1>3, <2>3
      <4>4. t = Return(lookup(lookup(s, src), dst), TRUE)
        BY <2>3, <4>0, <4>1, <4>2, <4>3 DEF SMove, WrongType
      <4>5. Gives(s, t, R, {}, no, TRUE)
        BY <1>q, <1>1, <3>1, <4>4, LookupsYes
      <4>6. Gives(s, t, R, W, no, TRUE)
        BY <1>1, <4>5
      <4>7. QED BY <4>2, <4>6
    <3>2. Makes(c, c, R, W, no, src, o1, dst, o2)
      BY <1>n, <3>1, ReportsYes
    <3>3. QED BY <1>2, <3>2
  <2>4. CASE o1.type = "set" /\ ~WrongType(o2, "set") /\ m \in DOMAIN o1.val /\ src # dst
    <3>0. PICK v0, v1, w, g :
            /\ v0 = AsSet({m}) /\ v1 = AsSet(DOMAIN o2.val \cup {m}) /\ w = AsSet(DOMAIN o1.val \ {m})
            /\ g = Both(dst, OntoObj(o2, "set", v0, v1), Put(o1, "set", w))
      OBVIOUS
    <3>1. o2 = Nil \/ o2.type = "set"
      BY <1>3, <2>4, GoodFacts DEF WrongType
    <3>2. DOMAIN o1.val \subseteq Elems /\ DOMAIN o2.val \subseteq Elems /\ m \in Elems /\ "set" \in Collections
      <4>1. "set" \in Maps
        BY DEF Maps
      <4>2. QED BY <1>3, <2>4, <3>1, <4>1, MapVal
    <3>3. Fits("set", v1) /\ Fits("set", w)
      <4>1. PICK d1, d2 : d1 = DOMAIN o2.val \cup {m} /\ d2 = DOMAIN o1.val \ {m}
        OBVIOUS
      <4>2. d1 \subseteq Elems /\ d2 \subseteq Elems
        BY <3>2, <4>1
      <4>3. v1 = AsSet(d1) /\ w = AsSet(d2)
        BY <3>0, <4>1
      <4>4. QED BY <4>2, <4>3, SetFits
    <3>4. GoodObj(Object("set", 0, v0))
      <4>1. PICK d1 : d1 = {m} /\ v0 = AsSet(d1)
        BY <3>0
      <4>2. d1 \subseteq Elems /\ d1 # {}
        BY <3>2, <4>1
      <4>3. Fits("set", v0) /\ DOMAIN v0 = d1
        BY <4>1, <4>2, SetFits
      <4>4. Shape("set", v0)
        BY <4>2, <4>3 DEF Fits
      <4>5. QED BY <4>4, ObjectFacts, EffectsAssumption DEF GoodObj, Proper, Types
    <3>5. ASSUME NEW s, Start(s), Given(s, R, src, o1, dst, o2)
          PROVE  \E t : Handler(s, c) = Reported(t) /\ Gives(s, t, R, R, g, TRUE)
      <4>1. Found(lookup(s, src), src) = o1 /\ Found(s, src) = o1 /\ Found(s, dst) = o2
        BY <1>q, <1>1, <3>5, FoundAgain DEF Given
      <4>2. PICK t : t = SMove(s, src, dst, m) /\ Handler(s, c) = Reported(t)
        BY <1>0
      <4>3. PICK u : u = lookup(lookup(s, src), dst)
        OBVIOUS
      <4>4. Found(u, dst) = o2
        BY <1>q, <1>1, <3>5, <4>1, <4>3, LookedUpBoth
      <4>5. t = Answered(Change(Onto(u, dst, "set", v0, v1), src, "set", w))
        <5>1. t = Return(Change(IF o2 = Nil THEN touched(store(u, dst, Object("set", 0, v0)), dst)
                                            ELSE Change(u, dst, "set", v1), src, "set", w), TRUE)
          BY <2>4, <3>0, <4>1, <4>2, <4>3, <4>4 DEF SMove
        <5>2. QED BY <4>4, <5>1 DEF Onto, Answered
      <4>6. o1.type = "set" /\ src # dst /\ Start(s) /\ src \in Keys /\ dst \in Keys
        BY <1>q, <2>4, <3>5
      <4>7. Answers(s, t, R, R, g)
        <5>1. PICK ty, Q : ty = "set" /\ Q = R
          OBVIOUS
        <5>2. /\ Start(s) /\ src \in Keys /\ dst \in Keys /\ src # dst /\ R = {src, dst}
              /\ u = lookup(lookup(s, src), dst) /\ ty \in Collections
          BY <1>1, <3>2, <4>3, <4>6, <5>1
        <5>3. /\ o1 = Found(s, src) /\ o1.type = ty /\ o2 = Found(s, dst) /\ (o2 = Nil \/ o2.type = ty)
          BY <3>1, <4>1, <4>6, <5>1
        <5>4. GoodObj(Object(ty, 0, v0)) /\ Fits(ty, v1) /\ Fits(ty, w)
          BY <3>3, <3>4, <5>1
        <5>5. /\ Q = {src, dst} /\ g = Both(dst, OntoObj(o2, ty, v0, v1), Put(o1, ty, w))
              /\ t = Answered(Change(Onto(u, dst, ty, v0, v1), src, ty, w))
          BY <1>1, <3>0, <4>5, <5>1
        <5>6. Answers(s, t, R, Q, g)
          BY ONLY <5>2, <5>3, <5>4, <5>5, Shifted, ZenonT(30)
        <5>7. QED BY <5>1, <5>6
      <4>8. QED BY <4>2, <4>7 DEF Answers
    <3>6. Makes(c, c, R, R, g, src, o1, dst, o2)
      BY <1>n, <3>5, ReportsYes
    <3>7. QED BY <1>2, <3>6
  <2>5. QED BY <2>1, <2>2, <2>3, <2>4
<1>4. TwoKeys(c, src, dst)
  BY <1>3 DEF TwoKeys
<1>5. QED BY <1>p, <1>4, <1>q, TwoKeysSafe

\* A call that gave up on a value of another type.
GaveUp(t) == t.err = TRUE /\ t.eff = <<>> /\ t.dirty = FALSE /\ t.res = FALSE
-----------------------------------------------------------------------------
(* The STORE commands.                                                     *)

\* A source of the wrong type, and what is known once a source, or both, are read.
Odd(o, types) == o.type \notin types \cup {"none"}

SourceRead(s, u, t, R, o, types) ==
  /\ Odd(o, types) => At(s, t, R, {}) /\ GaveUp(t)
  /\ ~Odd(o, types) => At(s, t, R, {}) /\ Quiet(t) /\ t.res = Append(u.res, o.val)

\* A source of a combination is one more key looked up.
LEMMA SourceReads ==
  ASSUME NEW s, Start(s), NEW u, NEW Q, At(s, u, Q, {}), Quiet(u), NEW k \in Keys, NEW types,
         NEW o, o = Found(s, k), NEW R, R = Q \cup {k}, NEW t, t = source(u, k, types)
  PROVE  SourceRead(s, u, t, R, o, types)
<1>1. PICK no, w : no = {} /\ w = lookup(u, k)
  OBVIOUS
<1>2. At(s, u, Q, no) /\ k \in Keys \ no
  BY <1>1
<1>3. At(s, w, R, no) /\ SameFields(u, w) /\ Found(w, k) = o
  BY <1>1, <1>2, LookupAt
<1>4. IsCall(w) /\ Quiet(w) /\ w.res = u.res
  BY <1>3 DEF At, Quiet, SameFields
<1>5. ~u.err
  BY DEF Quiet
<1>6. ASSUME Odd(o, types) PROVE At(s, t, R, {}) /\ GaveUp(t)
  <2>1. t = Fail(w)
    BY <1>1, <1>3, <1>5, <1>6 DEF source, Odd
  <2>2. SameTable(w, t) /\ t.eff = w.eff /\ t.dirty = w.dirty /\ t.err = TRUE /\ t.res = FALSE
    BY <1>4, <2>1 DEF Fail, IsCall, SameTable
  <2>3. QED BY <1>1, <1>3, <1>4, <2>2, SameAt DEF Quiet, GaveUp
<1>7. ASSUME ~Odd(o, types) PROVE At(s, t, R, {}) /\ Quiet(t) /\ t.res = Append(u.res, o.val)
  <2>1. PICK r : r = Append(u.res, o.val)
    OBVIOUS
  <2>2. t = Return(w, r)
    BY <1>1, <1>3, <1>4, <1>5, <1>7, <2>1 DEF source, Odd
  <2>3. SameTable(w, t) /\ t.eff = w.eff /\ t.dirty = w.dirty /\ t.err = w.err /\ t.res = r
    BY <1>4, <2>2, ReturnFacts
  <2>4. QED BY <1>1, <1>3, <1>4, <2>1, <2>3, SameAt DEF Quiet
<1>8. QED BY <1>6, <1>7 DEF SourceRead

ReadBoth(t, o1, o2) == Quiet(t) /\ t.res[1] = o1.val /\ t.res[2] = o2.val

\* What a combination of two collections reads.
LEMMA SourcesRead ==
  ASSUME NEW s, Start(s), NEW k1 \in Keys, NEW k2 \in Keys, NEW types,
         NEW o1, o1 = Found(s, k1), NEW o2, o2 = Found(s, k2), NEW R1, R1 = {k1},
         NEW R, R = {k1, k2}, NEW t, t = Sources(s, k1, k2, types)
  PROVE  /\ Odd(o1, types) => At(s, t, R1, {}) /\ GaveUp(t)
         /\ ~Odd(o1, types) /\ Odd(o2, types) => At(s, t, R, {}) /\ GaveUp(t)
         /\ ~Odd(o1, types) /\ ~Odd(o2, types) =>
              At(s, t, R, {}) /\ ReadBoth(t, o1, o2)
<1>1. PICK no, u, w : no = {} /\ u = Return(s, <<>>) /\ w = source(u, k1, types)
  OBVIOUS
<1>2. At(s, s, no, {}) /\ IsCall(s) /\ Quiet(s)
  BY <1>1, StartAt DEF Start, Quiet
<1>3. SameTable(s, u) /\ u.eff = s.eff /\ u.dirty = s.dirty /\ u.err = s.err /\ u.res = <<>>
  BY <1>1, <1>2, ReturnFacts
<1>4. At(s, u, no, {}) /\ Quiet(u) /\ R1 = no \cup {k1} /\ R = R1 \cup {k2}
  BY <1>1, <1>2, <1>3, SameAt DEF Quiet
<1>a. SourceRead(s, u, w, R1, o1, types)
  BY ONLY <1>1, <1>4, SourceReads, Start(s), k1 \in Keys, o1 = Found(s, k1)
<1>5. /\ Odd(o1, types) => At(s, w, R1, {}) /\ GaveUp(w)
      /\ ~Odd(o1, types) => At(s, w, R1, {}) /\ Quiet(w) /\ w.res = Append(u.res, o1.val)
  BY <1>a DEF SourceRead
<1>6. t = source(w, k2, types)
  BY <1>1 DEF Sources
<1>7. CASE Odd(o1, types)
  <2>1. t = w
    BY <1>5, <1>6, <1>7 DEF source, GaveUp
  <2>2. QED BY <1>5, <1>7, <2>1
<1>8. CASE ~Odd(o1, types)
  <2>0. SourceRead(s, w, t, R, o2, types)
    BY ONLY <1>4, <1>5, <1>6, <1>8, SourceReads, Start(s), k2 \in Keys, o2 = Found(s, k2)
  <2>1. /\ Odd(o2, types) => At(s, t, R, {}) /\ GaveUp(t)
        /\ ~Odd(o2, types) => At(s, t, R, {}) /\ Quiet(t) /\ t.res = Append(w.res, o2.val)
    BY <2>0 DEF SourceRead
  <2>2. w.res = <<o1.val>>
    BY <1>3, <1>5, <1>8
  <2>3. PICK x1, x2 : x1 = o1.val /\ x2 = o2.val
    OBVIOUS
  <2>4. Append(<<x1>>, x2)[1] = x1 /\ Append(<<x1>>, x2)[2] = x2
    OBVIOUS
  <2>5. QED BY <1>8, <2>1, <2>2, <2>3, <2>4 DEF ReadBoth
<1>9. QED BY <1>7, <1>8

\* What the commands that store a combination of two sources store.
Agg(c) == CASE "MIN" \in c.opts -> "MIN"
            [] "MAX" \in c.opts -> "MAX"
            [] OTHER -> "SUM"
\* What a STORE command combines its sources to.
Combined(c, a, b) ==
  IF c.name = "SSTORE" THEN combineLocked(Op(c), a, b)
                       ELSE zcombineLocked(Op(c), Agg(c), a, [m \in DOMAIN b |-> c.n * b[m]])

Joins(s, c, t, ty, types) ==
  /\ t = Sources(s, c.key, c.dst, types)
  /\ t.err => Handler(s, c) = Reported(t)
  /\ ~t.err => Handler(s, c) = Reported(Answered(Replace(t, c.dst, ty, Combined(c, t.res[1], t.res[2]))))

\* The combination of two collections fits its type.
LEMMA CombinedFits ==
  ASSUME NEW c, NEW a, DOMAIN a \subseteq Elems, NEW b, DOMAIN b \subseteq Elems
  PROVE  /\ c.name = "SSTORE" => Fits("set", Combined(c, a, b))
         /\ c.name = "ZSTORE" => Fits("zset", Combined(c, a, b))
<1>1. PICK op : op = Op(c) /\ op \in {"INTER", "UNION", "DIFF"}
  BY DEF Op
<1>2. ASSUME c.name = "SSTORE" PROVE Fits("set", Combined(c, a, b))
  <2>1. PICK ms : ms = CASE op = "INTER" -> DOMAIN a \cap DOMAIN b
                         [] op = "UNION" -> DOMAIN a \cup DOMAIN b
                         [] op = "DIFF"  -> DOMAIN a \ DOMAIN b
    OBVIOUS
  <2>2. ms \subseteq Elems
    BY <1>1, <2>1
  <2>3. Combined(c, a, b) = AsSet(ms)
    BY <1>1, <1>2, <2>1 DEF Combined, combineLocked
  <2>4. QED BY <2>2, <2>3, SetFits
<1>3. ASSUME c.name = "ZSTORE" PROVE Fits("zset", Combined(c, a, b))
  <2>1. PICK x, agg : x = [m \in DOMAIN b |-> c.n * b[m]] /\ agg = Agg(c)
    OBVIOUS
  <2>2. PICK w : w = zcombineLocked(op, agg, a, x)
    OBVIOUS
  <2>3. w = Combined(c, a, b) /\ DOMAIN x = DOMAIN b
    BY <1>1, <1>3, <2>1, <2>2 DEF Combined
  <2>4. DOMAIN w = CASE op = "INTER" -> DOMAIN a \cap DOMAIN x
                     [] op = "UNION" -> DOMAIN a \cup DOMAIN x
                     [] op = "DIFF"  -> DOMAIN a \ (DOMAIN a \cap DOMAIN x)
    BY <2>2 DEF zcombineLocked
  <2>5. DOMAIN w \subseteq Elems /\ "zset" \in Maps
    BY <1>1, <2>3, <2>4 DEF Maps
  <2>6. QED BY <2>3, <2>5, MapFits
<1>4. QED BY <1>2, <1>3

\* A command that stores a combination of its sources is safe.
LEMMA JoinSafe ==
  ASSUME NEW c, c.name \notin Canonical, c.key \in Keys, c.dst \in Keys, NEW ty \in Maps,
         NEW types, types \subseteq Maps,
         \A s : \E t : Joins(s, c, t, ty, types),
         \A a, b : DOMAIN a \subseteq Elems /\ DOMAIN b \subseteq Elems => Fits(ty, Combined(c, a, b))
  PROVE  Safe(c)
<1>p. PICK k1, k2 : k1 = c.key /\ k2 = c.dst
  OBVIOUS
<1>q. k1 \in Keys /\ k2 \in Keys /\ ty \in Collections
  BY <1>p DEF Maps, Collections
<1>1. PICK R1, R, W : R1 = {k1} /\ R = {k1, k2} /\ W = {k2}
  OBVIOUS
<1>2. R1 \subseteq Keys /\ R \subseteq Keys /\ R = R \cup {k2}
  BY <1>q, <1>1
<1>3. ASSUME NEW o1, GoodObj(o1), NEW o2, GoodObj(o2), k1 = k2 => o1 = o2
      PROVE  \/ \E Q : Q \subseteq Keys /\ Quietly(c, Q, k1, o1, k2, o2)
             \/ \E Q, V, h : Q \subseteq Keys /\ Makes(c, c, Q, V, h, k1, o1, k2, o2)
  <2>1. CASE Odd(o1, types)
    <3>1. ASSUME NEW s, Start(s), Given(s, R1, k1, o1, k2, o2)
          PROVE  At(s, Handler(s, c), R1, {}) /\ Logged(Handler(s, c), c) = <<>>
      <4>1. Found(s, k1) = o1
        BY <1>1, <3>1 DEF Given
      <4>0. Start(s)
        BY <3>1
      <4>2. PICK t : Joins(s, c, t, ty, types)
        OBVIOUS
      <4>s. t = Sources(s, k1, k2, types)
        BY <1>p, <4>2 DEF Joins
      <4>3. At(s, t, R1, {}) /\ GaveUp(t)
        BY ONLY <1>q, <1>1, <2>1, <4>0, <4>1, <4>s, SourcesRead
      <4>4. Handler(s, c) = t
        BY <4>2, <4>3 DEF Joins, GaveUp, Reported
      <4>5. QED BY <4>3, <4>4 DEF Logged, GaveUp
    <3>2. Quietly(c, R1, k1, o1, k2, o2)
      BY <3>1 DEF Quietly
    <3>3. QED BY <1>2, <3>2
  <2>2. CASE ~Odd(o1, types) /\ Odd(o2, types)
    <3>1. ASSUME NEW s, Start(s), Given(s, R, k1, o1, k2, o2)
          PROVE  At(s, Handler(s, c), R, {}) /\ Logged(Handler(s, c), c) = <<>>
      <4>1. Found(s, k1) = o1 /\ Found(s, k2) = o2
        BY <1>1, <3>1 DEF Given
      <4>0. Start(s)
        BY <3>1
      <4>2. PICK t : Joins(s, c, t, ty, types)
        OBVIOUS
      <4>s. t = Sources(s, k1, k2, types)
        BY <1>p, <4>2 DEF Joins
      <4>3. At(s, t, R, {}) /\ GaveUp(t)
        BY ONLY <1>q, <1>1, <2>2, <4>0, <4>1, <4>s, SourcesRead
      <4>4. Handler(s, c) = t
        BY <4>2, <4>3 DEF Joins, GaveUp, Reported
      <4>5. QED BY <4>3, <4>4 DEF Logged, GaveUp
    <3>2. Quietly(c, R, k1, o1, k2, o2)
      BY <3>1 DEF Quietly
    <3>3. QED BY <1>2, <3>2
  <2>3. CASE ~Odd(o1, types) /\ ~Odd(o2, types)
    <3>0. PICK v, g : v = Combined(c, o1.val, o2.val) /\ g = Moved(k2, Put(Nil, ty, v))
      OBVIOUS
    <3>1. DOMAIN o1.val \subseteq Elems /\ DOMAIN o2.val \subseteq Elems
      <4>1. ASSUME NEW o, GoodObj(o), ~Odd(o, types) PROVE DOMAIN o.val \subseteq Elems
        <5>1. o = Nil \/ o.type \in Maps
          BY <4>1, GoodFacts DEF Odd
        <5>2. QED BY <4>1, <5>1, MapVal, NilFacts
      <4>2. QED BY <1>3, <2>3, <4>1
    <3>2. Fits(ty, v)
      BY <3>0, <3>1
    <3>3. ASSUME NEW s, Start(s), Given(s, R, k1, o1, k2, o2)
          PROVE  \E t : Handler(s, c) = Reported(t) /\ Gives(s, t, R, W, g, TRUE)
      <4>1. Found(s, k1) = o1 /\ Found(s, k2) = o2
        BY <1>1, <3>3 DEF Given
      <4>0. Start(s)
        BY <3>3
      <4>2. PICK t : Joins(s, c, t, ty, types)
        OBVIOUS
      <4>s. t = Sources(s, k1, k2, types)
        BY <1>p, <4>2 DEF Joins
      <4>3. At(s, t, R, {}) /\ ReadBoth(t, o1, o2)
        BY ONLY <1>q, <1>1, <2>3, <4>0, <4>1, <4>s, SourcesRead
      <4>4. PICK w : w = Replace(t, k2, ty, v)
        OBVIOUS
      <4>5. PICK a : a = Answered(w)
        OBVIOUS
      <4>6. Handler(s, c) = Reported(a)
        BY <1>p, <3>0, <4>2, <4>3, <4>4, <4>5 DEF Joins, Quiet, ReadBoth
      <4>7. Acts(s, w, R, W, g) /\ Quiet(w)
        BY <1>q, <1>1, <1>2, <3>0, <3>2, <3>3, <4>3, <4>4, StoredAs DEF ReadBoth
      <4>8. Gives(s, a, R, W, g, TRUE)
        BY <4>5, <4>7, ReturnYes DEF Answered
      <4>9. QED BY <4>6, <4>8
    <3>4. Makes(c, c, R, W, g, k1, o1, k2, o2)
      BY <3>3, ReportsYes
    <3>5. QED BY <1>2, <3>4
  <2>4. QED BY <2>1, <2>2, <2>3
<1>4. TwoKeys(c, k1, k2)
  BY <1>3 DEF TwoKeys
<1>5. QED BY <1>q, <1>4, TwoKeysSafe

\* SINTERSTORE, SUNIONSTORE and SDIFFSTORE are safe.
LEMMA SStoreSafe ==
  ASSUME NEW c, c.name = "SSTORE", c.key \in Keys, c.dst \in Keys
  PROVE  Safe(c)
<1>1. PICK ty, types : ty = "set" /\ types = {"set"}
  OBVIOUS
<1>2. ASSUME NEW s PROVE \E t : Joins(s, c, t, ty, types)
  <2>1. PICK t : t = Sources(s, c.key, c.dst, types)
    OBVIOUS
  <2>2. PICK x : x = SetCombineStore(s, Op(c), c.dst, c.key, c.dst)
    OBVIOUS
  <2>3. Handler(s, c) = Reported(x)
    BY <2>2, DispatchCollections DEF setCombineStore
  <2>4. /\ t.err => x = t
        /\ ~t.err => x = Answered(Replace(t, c.dst, ty, combineLocked(Op(c), t.res[1], t.res[2])))
    BY <1>1, <2>1, <2>2 DEF SetCombineStore, Answered
  <2>5. combineLocked(Op(c), t.res[1], t.res[2]) = Combined(c, t.res[1], t.res[2])
    BY DEF Combined
  <2>6. Joins(s, c, t, ty, types)
    BY <2>1, <2>3, <2>4, <2>5 DEF Joins
  <2>7. QED BY <2>6
<1>3. ASSUME NEW a, NEW b, DOMAIN a \subseteq Elems, DOMAIN b \subseteq Elems PROVE Fits(ty, Combined(c, a, b))
  BY <1>1, <1>3, CombinedFits
<1>4. c.name \notin Canonical /\ ty \in Maps /\ types \subseteq Maps
  BY <1>1, CanonicalNames DEF Maps
<1>5. QED BY <1>2, <1>3, <1>4, JoinSafe

\* ZINTERSTORE, ZUNIONSTORE and ZDIFFSTORE are safe.
LEMMA ZStoreSafe ==
  ASSUME NEW c, c.name = "ZSTORE", c.key \in Keys, c.dst \in Keys
  PROVE  Safe(c)
<1>1. PICK ty, types : ty = "zset" /\ types = {"zset", "set"}
  OBVIOUS
<1>2. ASSUME NEW s PROVE \E t : Joins(s, c, t, ty, types)
  <2>1. PICK t : t = Sources(s, c.key, c.dst, types)
    OBVIOUS
  <2>2. PICK x, op, agg : x = ZCombineStore(s, op, c.dst, c.key, c.dst, c.n, agg) /\ op = Op(c) /\ agg = Agg(c)
    OBVIOUS
  <2>3. Handler(s, c) = Reported(x)
    BY <2>2, DispatchCollections DEF zcombineStore, Agg
  <2>4. PICK v : v = zcombineLocked(op, agg, t.res[1], [m \in DOMAIN t.res[2] |-> c.n * t.res[2][m]])
    OBVIOUS
  <2>5. /\ t.err => x = t
        /\ ~t.err => x = Answered(Replace(t, c.dst, ty, v))
    BY <1>1, <2>1, <2>2, <2>4 DEF ZCombineStore, Answered
  <2>6. v = Combined(c, t.res[1], t.res[2])
    BY <2>2, <2>4 DEF Combined
  <2>7. Joins(s, c, t, ty, types)
    BY <2>1, <2>3, <2>5, <2>6 DEF Joins
  <2>8. QED BY <2>7
<1>3. ASSUME NEW a, NEW b, DOMAIN a \subseteq Elems, DOMAIN b \subseteq Elems PROVE Fits(ty, Combined(c, a, b))
  BY <1>1, <1>3, CombinedFits
<1>4. c.name \notin Canonical /\ ty \in Maps /\ types \subseteq Maps
  BY <1>1, CanonicalNames DEF Maps
<1>5. QED BY <1>2, <1>3, <1>4, JoinSafe

\* What ZRANGESTORE stores.
Ranged(c, o) == Restrict(o.val, rangeBy(o.val, By(c), c.val[1], c.val[2], "REV" \in c.opts))
RangeStored(s, c, t) == t = ZRangeStore(s, c.dst, c.key, By(c), c.val[1], c.val[2], "REV" \in c.opts)

\* A range of a sorted set is one.
LEMMA RangedFits ==
  ASSUME NEW c, NEW o, DOMAIN o.val \subseteq Elems
  PROVE  Fits("zset", Ranged(c, o))
<1>1. PICK lo, hi, rev, by : lo = c.val[1] /\ hi = c.val[2] /\ rev = ("REV" \in c.opts) /\ by = By(c)
  OBVIOUS
<1>2. PICK S : S = rangeBy(o.val, by, lo, hi, rev)
  OBVIOUS
<1>3. S \subseteq DOMAIN o.val
  BY <1>2 DEF rangeBy
<1>4. PICK w : w = Restrict(o.val, S)
  OBVIOUS
<1>5. DOMAIN w = S
  BY <1>4 DEF Restrict
<1>6. w = Ranged(c, o)
  BY <1>1, <1>2, <1>4 DEF Ranged
<1>7. DOMAIN w \subseteq Elems /\ "zset" \in Maps
  BY <1>3, <1>5 DEF Maps
<1>8. QED BY <1>6, <1>7, MapFits

\* ZRANGESTORE is safe.
LEMMA ZRangeStoreSafe ==
  ASSUME NEW c, c.name = "ZRANGESTORE", c.key \in Keys, c.dst \in Keys
  PROVE  Safe(c)
<1>p. PICK k1, k2, ty : k1 = c.key /\ k2 = c.dst /\ ty = "zset"
  OBVIOUS
<1>q. k1 \in Keys /\ k2 \in Keys /\ ty \in Collections /\ c.name \notin Canonical
  BY <1>p, CanonicalNames DEF Collections
<1>1. PICK R1, R, W, no : R1 = {k1} /\ R = R1 \cup {k2} /\ W = {k2} /\ no = Nil
  OBVIOUS
<1>2. R1 \subseteq Keys /\ R \subseteq Keys
  BY <1>q, <1>1
<1>0. ASSUME NEW s PROVE \E t : RangeStored(s, c, t) /\ Handler(s, c) = Reported(t)
  <2>1. PICK t : RangeStored(s, c, t)
    BY DEF RangeStored
  <2>2. Handler(s, c) = Reported(t)
    BY <2>1, DispatchCollections DEF cmdZRangeStore, RangeStored
  <2>3. QED BY <2>1, <2>2
<1>3. ASSUME NEW o1, GoodObj(o1), NEW o2
      PROVE  \/ \E Q : Q \subseteq Keys /\ Quietly(c, Q, k1, o1, k2, o2)
             \/ \E Q, V, h : Q \subseteq Keys /\ Makes(c, c, Q, V, h, k1, o1, k2, o2)
  <2>1. CASE WrongType(o1, ty)
    <3>1. ASSUME NEW s, Start(s), Given(s, R1, k1, o1, k2, o2)
          PROVE  \E t : Handler(s, c) = Reported(t) /\ Gives(s, t, R1, {}, no, FALSE)
      <4>1. Found(lookup(s, k1), k1) = o1
        BY <1>q, <1>1, <3>1, FoundAgain DEF Given
      <4>2. PICK t : RangeStored(s, c, t) /\ Handler(s, c) = Reported(t)
        BY <1>0
      <4>3. t = Return(lookup(s, k1), FALSE)
        BY <1>p, <2>1, <4>1, <4>2 DEF ZRangeStore, RangeStored
      <4>4. Gives(s, t, R1, {}, no, FALSE)
        BY <1>q, <1>1, <3>1, <4>3, LookupsNo
      <4>5. QED BY <4>2, <4>4
    <3>2. Quietly(c, R1, k1, o1, k2, o2)
      BY <3>1, ReportsNo
    <3>3. QED BY <1>2, <3>2
  <2>2. CASE ~WrongType(o1, ty)
    <3>0. PICK v, g : v = Ranged(c, o1) /\ g = Moved(k2, Put(Nil, ty, v))
      OBVIOUS
    <3>1. DOMAIN o1.val \subseteq Elems
      BY <1>3, <1>p, <2>2, MapVal, GoodFacts, NilFacts DEF WrongType, Maps
    <3>2. Fits(ty, v)
      BY <1>p, <3>0, <3>1, RangedFits
    <3>3. ASSUME NEW s, Start(s), Given(s, R, k1, o1, k2, o2)
          PROVE  \E t : Handler(s, c) = Reported(t) /\ Gives(s, t, R, W, g, TRUE)
      <4>1. Found(lookup(s, k1), k1) = o1
        BY <1>q, <1>1, <3>3, FoundAgain DEF Given
      <4>2. PICK t : RangeStored(s, c, t) /\ Handler(s, c) = Reported(t)
        BY <1>0
      <4>3. PICK u, w : u = lookup(s, k1) /\ w = Replace(u, k2, ty, v)
        OBVIOUS
      <4>4. t = Return(w, TRUE)
        BY <1>p, <2>2, <3>0, <4>1, <4>2, <4>3 DEF ZRangeStore, RangeStored, Ranged
      <4>5. At(s, u, R1, {}) /\ Quiet(u)
        BY <1>q, <1>1, <3>3, <4>3, LookedUp
      <4>6. Acts(s, w, R, W, g) /\ Quiet(w)
        BY <1>q, <1>1, <3>0, <3>2, <3>3, <4>3, <4>5, StoredAs
      <4>7. Gives(s, t, R, W, g, TRUE)
        BY <4>4, <4>6, ReturnYes
      <4>8. QED BY <4>2, <4>7
    <3>4. Makes(c, c, R, W, g, k1, o1, k2, o2)
      BY <1>q, <3>3, ReportsYes
    <3>5. QED BY <1>2, <3>4
  <2>3. QED BY <2>1, <2>2
<1>4. TwoKeys(c, k1, k2)
  BY <1>3 DEF TwoKeys
<1>5. QED BY <1>q, <1>4, TwoKeysSafe

-----------------------------------------------------------------------------
(* The commands a client can send.                                         *)

\* The arguments of a command.
Args(c, name, k, val, n, opts) ==
  c.name = name /\ c.key = k /\ c.val = val /\ c.n = n /\ c.opts = opts /\ IsCommand(c)

\* The arguments of a command on one key.
LEMMA WithFacts ==
  ASSUME NEW name, NEW k, NEW val, NEW n, NEW opts, NEW c, c = With(name, k, val, n, opts)
  PROVE  Args(c, name, k, val, n, opts) /\ c.dst = k
BY DEF With, Command, IsCommand, Args

\* The arguments of a command on two keys.
LEMMA BetweenFacts ==
  ASSUME NEW name, NEW k, NEW d, NEW val, NEW n, NEW opts, NEW c, c = Between(name, k, d, val, n, opts)
  PROVE  Args(c, name, k, val, n, opts) /\ c.dst = d
<1>1. PICK w : w = With(name, k, val, n, opts)
  OBVIOUS
<1>2. c = [w EXCEPT !.dst = d] /\ Args(w, name, k, val, n, opts)
  BY <1>1, WithFacts DEF Between
<1>3. QED BY <1>2 DEF Args, IsCommand

\* A text of one character.
OneChar(v) == IsSeq(v) /\ Len(v) = 1 /\ Len(v) <= MaxStringLength /\ v # <<>>

\* A sequence of one character.
LEMMA OneCharIs == ASSUME NEW e, NEW v, v = One(e) PROVE OneChar(v) /\ v[1] = e
BY OneSeq, EffectsAssumption DEF OneChar, One

\* A set of members is not empty, and its members are elements.
LEMMA MembersFacts ==
  ASSUME NEW ms \in Members
  PROVE  DOMAIN ms \subseteq Elems /\ DOMAIN ms # {}
<1>1. PICK x : x \in (SUBSET Elems) \ {{}} /\ ms = AsSet(x)
  BY DEF Members
<1>2. DOMAIN ms = x
  BY <1>1 DEF AsSet
<1>3. QED BY <1>1, <1>2

\* A pair of an element is not empty.
LEMMA PairElems ==
  ASSUME NEW f \in Elems, NEW v, NEW p, p = Pair(f, v)
  PROVE  DOMAIN p \subseteq Elems /\ DOMAIN p # {}
<1>1. DOMAIN p = {f}
  BY DEF Pair
<1>2. QED BY <1>1

\* The instants a command can name are in range.
LEMMA InstantFacts == ASSUME NEW at, at \in Instants \/ at = 0 PROVE at \in 0 .. MaxNow + 1
BY EffectsAssumption DEF Instants

\* The commands that set a string, and those of such names on one key.
SetLike == {"SET", "SETNX", "GETSET", "APPEND"}

\* The commands that set a string of one character are safe.
LEMMA SetCommandSafe ==
  ASSUME NEW c, NEW k \in Keys, NEW v, OneChar(v), NEW name \in SetLike, NEW n, NEW opts,
         Args(c, name, k, v, n, opts), n = 0 \/ (name = "SET" /\ n \in Instants), "PX" \notin opts
  PROVE  Safe(c)
<1>1. IsSeq(v) /\ Len(v) <= MaxStringLength
  BY DEF OneChar
<1>2. c.name = name /\ c.key \in Keys /\ c.val = v /\ c.n = n /\ c.opts = opts /\ IsCommand(c)
  BY DEF Args
<1>3. n \in 0 .. MaxNow + 1
  BY InstantFacts
<1>4. CASE name = "SET"
  BY <1>1, <1>2, <1>3, <1>4, SetSafe
<1>5. CASE name \in {"SETNX", "GETSET"}
  BY <1>1, <1>2, <1>5, SetSpellings
<1>6. CASE name = "APPEND"
  BY <1>1, <1>2, <1>6, AppendSafe
<1>7. QED BY <1>4, <1>5, <1>6 DEF SetLike

Named(names) == {With(name, k, One(e), 0, {}) : k \in Keys, e \in Elems, name \in names}

\* What the commands of such names are.
LEMMA NamedIs ==
  ASSUME NEW names, NEW c \in Named(names)
  PROVE  \E k \in Keys, e \in Elems, name \in names : c = With(name, k, One(e), 0, {})
BY DEF Named

\* Every string command a client can send is safe.
LEMMA StringCommandsSafe == ASSUME NEW c \in StringCommands PROVE Safe(c)
<1> DEFINE
  A1 == {With("SET", k, One(Some), 0, opts) : k \in Keys,
           opts \in {{"NX"}, {"XX"}, {"KEEPTTL"}, {"XX", "KEEPTTL", "GET"}}}
  A2 == {With("SET", k, One(Some), at, {"PXAT"}) : k \in Keys, at \in Instants}
  A3 == Named({"SET", "SETNX", "GETSET", "APPEND"})
  A4 == {With("PSETEX", k, One(Some), 1, {}) : k \in Keys}
  A5 == {With("GETEX", k, <<>>, at, {"PXAT"}) : k \in Keys, at \in Instants}
  A6 == {With("GETEX", k, <<>>, 0, opts) : k \in Keys, opts \in {{}, {"PERSIST"}}}
  A7 == {Command("GETDEL", k) : k \in Keys}
  A8 == Distinct({Between(name, k, d, One(e), 0, {}) : k, d \in Keys, e \in Elems,
                    name \in {"MSET", "MSETNX"}})
  A9 == {With(name, k, <<>>, n, {}) : k \in Keys, n \in Deltas,
           name \in {"INCRBY", "INCRBYFLOAT"}}
  A10 == {With("SETRANGE", k, One(e), n, {}) : k \in Keys, e \in Elems, n \in 0..1}
<1>1. CASE c \in A1
  <2>1. PICK k \in Keys, opts \in {{"NX"}, {"XX"}, {"KEEPTTL"}, {"XX", "KEEPTTL", "GET"}} :
               c = With("SET", k, One(Some), 0, opts)
    BY <1>1
  <2>2. "PX" \notin opts
    OBVIOUS
  <2>3. PICK name, v, n : name = "SET" /\ v = One(Some) /\ n = 0
    OBVIOUS
  <2>4. Args(c, name, k, v, n, opts) /\ OneChar(v) /\ name \in SetLike
    BY <2>1, <2>3, WithFacts, OneCharIs DEF SetLike
  <2>5. n = 0
    BY <2>3
  <2>6. QED BY <2>2, <2>4, <2>5, SetCommandSafe
<1>2. CASE c \in A2
  <2>1. PICK k \in Keys, n \in Instants : c = With("SET", k, One(Some), n, {"PXAT"})
    BY <1>2
  <2>2. PICK name, v, opts : name = "SET" /\ v = One(Some) /\ opts = {"PXAT"}
    OBVIOUS
  <2>3. Args(c, name, k, v, n, opts) /\ OneChar(v) /\ name \in SetLike /\ "PX" \notin opts
    BY <2>1, <2>2, WithFacts, OneCharIs DEF SetLike
  <2>4. name = "SET"
    BY <2>2
  <2>5. QED BY <2>3, <2>4, SetCommandSafe
<1>3. CASE c \in A3
  <2>1. PICK k \in Keys, e \in Elems, name \in {"SET", "SETNX", "GETSET", "APPEND"} :
               c = With(name, k, One(e), 0, {})
    BY <1>3, NamedIs
  <2>2. PICK v, n, opts : v = One(e) /\ n = 0 /\ opts = {}
    OBVIOUS
  <2>3. Args(c, name, k, v, n, opts) /\ OneChar(v) /\ "PX" \notin opts
    BY <2>1, <2>2, WithFacts, OneCharIs
  <2>4. n = 0 /\ name \in SetLike
    BY <2>2 DEF SetLike
  <2>5. QED BY <2>3, <2>4, SetCommandSafe
<1>4. CASE c \in A4
  <2>1. PICK k \in Keys : c = With("PSETEX", k, One(Some), 1, {})
    BY <1>4
  <2>2. PICK v : v = One(Some)
    OBVIOUS
  <2>3. IsCommand(c) /\ c.name = "PSETEX" /\ c.key \in Keys /\ c.val = v /\ c.n = 1 /\ OneChar(v)
    BY <2>1, <2>2, WithFacts, OneCharIs DEF Args
  <2>4. QED BY <2>3, SetSpellings DEF OneChar
<1>5. CASE c \in A5
  <2>1. PICK k \in Keys, at \in Instants : c = With("GETEX", k, <<>>, at, {"PXAT"})
    BY <1>5
  <2>2. c.name = "GETEX" /\ c.key \in Keys /\ c.n = at /\ "PX" \notin c.opts
    BY <2>1, WithFacts DEF Args
  <2>3. QED BY <2>2, InstantFacts, GetExSafe
<1>6. CASE c \in A6
  <2>1. PICK k \in Keys, opts \in {{}, {"PERSIST"}} : c = With("GETEX", k, <<>>, 0, opts)
    BY <1>6
  <2>2. c.name = "GETEX" /\ c.key \in Keys /\ c.n = 0 /\ "PX" \notin c.opts
    BY <2>1, WithFacts DEF Args
  <2>3. QED BY <2>2, InstantFacts, GetExSafe
<1>7. CASE c \in A7
  BY <1>7, CommandFacts, GetDelSafe
<1>8. CASE c \in A8
  <2>1. PICK k \in Keys, d \in Keys, e \in Elems, name \in {"MSET", "MSETNX"} :
               c = Between(name, k, d, One(e), 0, {})
    BY <1>8 DEF Distinct
  <2>2. PICK v : v = One(e)
    OBVIOUS
  <2>3. /\ IsCommand(c) /\ c.name \in {"MSET", "MSETNX"} /\ c.key \in Keys /\ c.dst \in Keys
        /\ c.val = v /\ OneChar(v)
    BY <2>1, <2>2, BetweenFacts, OneCharIs DEF Args
  <2>4. QED BY <2>3, MSetSafe, MSetNXSafe DEF OneChar
<1>9. CASE c \in A9
  <2>1. PICK k \in Keys, n \in Deltas, name \in {"INCRBY", "INCRBYFLOAT"} : c = With(name, k, <<>>, n, {})
    BY <1>9
  <2>2. c.name \in {"INCRBY", "INCRBYFLOAT"} /\ c.key \in Keys
    BY <2>1, WithFacts DEF Args
  <2>3. QED BY <2>2, IncrSafe, IncrByFloatSafe
<1>10. CASE c \in A10
  <2>1. PICK k \in Keys, e \in Elems, n \in 0 .. 1 : c = With("SETRANGE", k, One(e), n, {})
    BY <1>10
  <2>2. PICK v : v = One(e)
    OBVIOUS
  <2>3. c.name = "SETRANGE" /\ c.key \in Keys /\ c.n \in Nat /\ c.val = v /\ OneChar(v)
    BY <2>1, <2>2, WithFacts, OneCharIs DEF Args
  <2>4. QED BY <2>3, SetRangeSafe, SetRangeLong DEF OneChar
<1>11. c \in UNION {A1, A2, A3, A4, A5, A6, A7, A8, A9, A10}
  BY SMTT(60) DEF StringCommands, Named
<1> HIDE DEF A1, A2, A3, A4, A5, A6, A7, A8, A9, A10
<1>12. QED
  BY <1>1, <1>2, <1>3, <1>4, <1>5, <1>6, <1>7, <1>8, <1>9, <1>10, <1>11

\* Every command on keys is.
LEMMA KeyCommandsSafe == ASSUME NEW c \in KeyCommands PROVE Safe(c)
<1> DEFINE
  A1 == {Between("DEL", k, d, <<>>, 0, {}) : k, d \in Keys}
  A2 == {Between("RENAME", k, d, <<>>, 0, opts) : k, d \in Keys, opts \in {{}, {"NX"}}}
  A3 == Distinct({Between("COPY", k, d, <<>>, 0, opts) : k, d \in Keys,
                    opts \in {{}, {"REPLACE"}}})
  A4 == {With("PEXPIREAT", k, <<>>, at, opts) : k \in Keys, at \in Instants,
           opts \in {{}, {"NX"}, {"XX"}, {"GT"}, {"LT"}}}
  A5 == {Command("PERSIST", k) : k \in Keys}
  A6 == {Between("SORT", k, d, <<>>, 1, {"DESC"}) : k, d \in Keys}
  A7 == {Between("SORT", k, d, <<>>, 2, {}) : k, d \in Keys}
<1>1. CASE c \in A1
  <2>1. PICK k \in Keys, d \in Keys : c = Between("DEL", k, d, <<>>, 0, {})
    BY <1>1
  <2>2. c.name = "DEL" /\ c.key \in Keys /\ c.dst \in Keys
    BY <2>1, BetweenFacts DEF Args
  <2>3. QED BY <2>2, DelSafe
<1>2. CASE c \in A2
  <2>1. PICK k \in Keys, d \in Keys, opts \in {{}, {"NX"}} : c = Between("RENAME", k, d, <<>>, 0, opts)
    BY <1>2
  <2>2. IsCommand(c) /\ c.name = "RENAME" /\ c.key \in Keys /\ c.dst \in Keys
    BY <2>1, BetweenFacts DEF Args
  <2>3. QED BY <2>2, RenameSafe
<1>3. CASE c \in A3
  <2>1. PICK k \in Keys, d \in Keys, opts \in {{}, {"REPLACE"}} : c = Between("COPY", k, d, <<>>, 0, opts)
    BY <1>3 DEF Distinct
  <2>2. IsCommand(c) /\ c.name = "COPY" /\ c.key \in Keys /\ c.dst \in Keys
    BY <2>1, BetweenFacts DEF Args
  <2>3. c.key # c.dst
    BY <1>3 DEF Distinct
  <2>4. QED BY <2>2, <2>3, CopySafe
<1>4. CASE c \in A4
  <2>1. PICK k \in Keys, at \in Instants, opts \in {{}, {"NX"}, {"XX"}, {"GT"}, {"LT"}} :
               c = With("PEXPIREAT", k, <<>>, at, opts)
    BY <1>4
  <2>2. c.name = "PEXPIREAT" /\ c.key \in Keys /\ c.n = at /\ "PX" \notin c.opts
    BY <2>1, WithFacts DEF Args
  <2>3. QED BY <2>2, InstantFacts, ExpireSafe
<1>5. CASE c \in A5
  BY <1>5, CommandFacts, PersistSafe
<1>6. CASE c \in A6
  <2>1. PICK k \in Keys, d \in Keys : c = Between("SORT", k, d, <<>>, 1, {"DESC"})
    BY <1>6
  <2>2. c.name = "SORT" /\ c.key \in Keys /\ c.dst \in Keys /\ c.n \in Int
    BY <2>1, BetweenFacts DEF Args
  <2>3. QED BY <2>2, SortSafe
<1>7. CASE c \in A7
  <2>1. PICK k \in Keys, d \in Keys : c = Between("SORT", k, d, <<>>, 2, {})
    BY <1>7
  <2>2. c.name = "SORT" /\ c.key \in Keys /\ c.dst \in Keys /\ c.n \in Int
    BY <2>1, BetweenFacts DEF Args
  <2>3. QED BY <2>2, SortSafe
<1>8. c \in UNION {A1, A2, A3, A4, A5, A6, A7}
  BY SMTT(60) DEF KeyCommands
<1> HIDE DEF A1, A2, A3, A4, A5, A6, A7
<1>9. QED
  BY <1>1, <1>2, <1>3, <1>4, <1>5, <1>6, <1>7, <1>8

\* Every list command is.
LEMMA ListCommandsSafe == ASSUME NEW c \in ListCommands PROVE Safe(c)
<1> DEFINE
  A1 == {With("LPUSH", k, One(e), 0, opts) : k \in Keys, e \in Elems,
           opts \in SUBSET {"FRONT", "X"}}
  A2 == {With(name, k, <<>>, 0, opts) : k \in Keys, opts \in SUBSET {"FRONT"},
           name \in {"LPOP", "BLPOP"}}
  A3 == {With("LSET", k, One(e), i, {}) : k \in Keys, e \in Elems, i \in {0, -1}}
  A4 == {With("LINSERT", k, One(Some), p, opts) : k \in Keys, p \in Elems,
           opts \in {{}, {"BEFORE"}}}
  A5 == {With("LREM", k, One(e), n, {}) : k \in Keys, e \in Elems, n \in -1..1}
  A6 == {With("LTRIM", k, r, 0, {}) : k \in Keys, r \in {<<0, 0>>, <<1, -1>>}}
  A7 == {Between("LMOVE", k, d, <<>>, 0, opts) : k, d \in Keys,
           opts \in SUBSET {"FRONT", "DSTFRONT"}}
  A8 == {Between("BLMOVE", k, d, <<>>, 0, {"FRONT"}) : k, d \in Keys}
<1>1. CASE c \in A1
  <2>1. PICK k \in Keys, e \in Elems, opts \in SUBSET {"FRONT", "X"} : c = With("LPUSH", k, One(e), 0, opts)
    BY <1>1
  <2>2. PICK v : v = One(e)
    OBVIOUS
  <2>3. c.name = "LPUSH" /\ c.key \in Keys /\ c.val = v /\ OneChar(v)
    BY <2>1, <2>2, WithFacts, OneCharIs DEF Args
  <2>4. QED BY <2>3, LPushSafe DEF OneChar
<1>2. CASE c \in A2
  <2>1. PICK k \in Keys, opts \in SUBSET {"FRONT"}, name \in {"LPOP", "BLPOP"} :
               c = With(name, k, <<>>, 0, opts)
    BY <1>2
  <2>2. IsCommand(c) /\ c.name \in {"LPOP", "BLPOP"} /\ c.key \in Keys
    BY <2>1, WithFacts DEF Args
  <2>3. QED BY <2>2, LPopSafe, BLPopSafe
<1>3. CASE c \in A3
  <2>1. PICK k \in Keys, e \in Elems, i \in {0, -1} : c = With("LSET", k, One(e), i, {})
    BY <1>3
  <2>2. c.name = "LSET" /\ c.key \in Keys
    BY <2>1, WithFacts DEF Args
  <2>3. QED BY <2>2, LSetSafe
<1>4. CASE c \in A4
  <2>1. PICK k \in Keys, p \in Elems, opts \in {{}, {"BEFORE"}} : c = With("LINSERT", k, One(Some), p, opts)
    BY <1>4
  <2>2. c.name = "LINSERT" /\ c.key \in Keys
    BY <2>1, WithFacts DEF Args
  <2>3. QED BY <2>2, LInsertSafe
<1>5. CASE c \in A5
  <2>1. PICK k \in Keys, e \in Elems, n \in -1..1 : c = With("LREM", k, One(e), n, {})
    BY <1>5
  <2>2. c.name = "LREM" /\ c.key \in Keys
    BY <2>1, WithFacts DEF Args
  <2>3. QED BY <2>2, LRemSafe
<1>6. CASE c \in A6
  <2>1. PICK k \in Keys, r \in {<<0, 0>>, <<1, -1>>} : c = With("LTRIM", k, r, 0, {})
    BY <1>6
  <2>2. r[1] \in Int /\ r[2] \in Int
    OBVIOUS
  <2>3. c.name = "LTRIM" /\ c.key \in Keys /\ c.val = r
    BY <2>1, WithFacts DEF Args
  <2>4. QED BY <2>2, <2>3, LTrimSafe
<1>7. CASE c \in A7
  <2>1. PICK k \in Keys, d \in Keys, opts \in SUBSET {"FRONT", "DSTFRONT"} :
               c = Between("LMOVE", k, d, <<>>, 0, opts)
    BY <1>7
  <2>2. c.name = "LMOVE" /\ c.key \in Keys /\ c.dst \in Keys
    BY <2>1, BetweenFacts DEF Args
  <2>3. QED BY <2>2, LMoveSafe
<1>8. CASE c \in A8
  <2>1. PICK k \in Keys, d \in Keys : c = Between("BLMOVE", k, d, <<>>, 0, {"FRONT"})
    BY <1>8
  <2>2. IsCommand(c) /\ c.name = "BLMOVE" /\ c.key \in Keys /\ c.dst \in Keys
    BY <2>1, BetweenFacts DEF Args
  <2>3. QED BY <2>2, BLMoveSafe
<1>9. c \in UNION {A1, A2, A3, A4, A5, A6, A7, A8}
  BY SMTT(60) DEF ListCommands
<1> HIDE DEF A1, A2, A3, A4, A5, A6, A7, A8
<1>10. QED
  BY <1>1, <1>2, <1>3, <1>4, <1>5, <1>6, <1>7, <1>8, <1>9

\* Every set command is.
LEMMA SetCommandsSafe == ASSUME NEW c \in SetCommands PROVE Safe(c)
<1> DEFINE
  A1 == {With(name, k, ms, 0, {}) : k \in Keys, ms \in Members,
           name \in {"SADD", "SREM", "SPOP"}}
  A2 == {Between("SMOVE", k, d, <<>>, e, {}) : k, d \in Keys, e \in Elems}
  A3 == {Between("SSTORE", k, d, <<>>, 0, {op}) : k, d \in Keys,
           op \in {"INTER", "UNION", "DIFF"}}
<1>1. CASE c \in A1
  <2>1. PICK k \in Keys, ms \in Members, name \in {"SADD", "SREM", "SPOP"} : c = With(name, k, ms, 0, {})
    BY <1>1
  <2>2. c.name \in {"SADD", "SREM", "SPOP"} /\ c.key \in Keys /\ c.val = ms
    BY <2>1, WithFacts DEF Args
  <2>3. DOMAIN ms \subseteq Elems /\ DOMAIN ms # {}
    BY MembersFacts
  <2>4. QED BY <2>2, <2>3, SAddSafe, SRemSafe, SPopSafe
<1>2. CASE c \in A2
  <2>1. PICK k \in Keys, d \in Keys, e \in Elems : c = Between("SMOVE", k, d, <<>>, e, {})
    BY <1>2
  <2>2. c.name = "SMOVE" /\ c.key \in Keys /\ c.dst \in Keys
    BY <2>1, BetweenFacts DEF Args
  <2>3. QED BY <2>2, SMoveSafe
<1>3. CASE c \in A3
  <2>1. PICK k \in Keys, d \in Keys, op \in {"INTER", "UNION", "DIFF"} :
               c = Between("SSTORE", k, d, <<>>, 0, {op})
    BY <1>3
  <2>2. c.name = "SSTORE" /\ c.key \in Keys /\ c.dst \in Keys
    BY <2>1, BetweenFacts DEF Args
  <2>3. QED BY <2>2, SStoreSafe
<1>4. c \in UNION {A1, A2, A3}
  BY SMTT(60) DEF SetCommands
<1> HIDE DEF A1, A2, A3
<1>5. QED
  BY <1>1, <1>2, <1>3, <1>4

\* Every hash command is.
LEMMA HashCommandsSafe == ASSUME NEW c \in HashCommands PROVE Safe(c)
<1> DEFINE
  A1 == {With("HSET", k, p, 0, {}) : k \in Keys, p \in Pairs \cup {Pair(f, Pad) : f \in Elems}}
  A2 == {With("HSETNX", k, Pair(f, Some), 0, {}) : k \in Keys, f \in Elems}
  A3 == {With("HDEL", k, ms, 0, {}) : k \in Keys, ms \in Members}
  A4 == {With(name, k, One(f), n, {}) : k \in Keys, f \in Elems, n \in Deltas,
           name \in {"HINCRBY", "HINCRBYFLOAT"}}
<1>1. CASE c \in A1
  <2>1. PICK k \in Keys, p \in Pairs \cup {Pair(f, Pad) : f \in Elems} : c = With("HSET", k, p, 0, {})
    BY <1>1
  <2>2. \E f \in Elems : \E v : p = Pair(f, v)
    BY DEF Pairs
  <2>3. DOMAIN p \subseteq Elems
    BY <2>2, PairElems
  <2>4. c.name = "HSET" /\ c.key \in Keys /\ c.val = p
    BY <2>1, WithFacts DEF Args
  <2>5. QED BY <2>3, <2>4, HSetSafe
<1>2. CASE c \in A2
  <2>1. PICK k \in Keys, f \in Elems : c = With("HSETNX", k, Pair(f, Some), 0, {})
    BY <1>2
  <2>2. PICK p : p = Pair(f, Some)
    OBVIOUS
  <2>3. IsCommand(c) /\ c.name = "HSETNX" /\ c.key \in Keys /\ c.val = p
    BY <2>1, <2>2, WithFacts DEF Args
  <2>4. DOMAIN p \subseteq Elems
    BY <2>2, PairElems
  <2>5. QED BY <2>3, <2>4, HSetNXSafe
<1>3. CASE c \in A3
  <2>1. PICK k \in Keys, ms \in Members : c = With("HDEL", k, ms, 0, {})
    BY <1>3
  <2>2. c.name = "HDEL" /\ c.key \in Keys
    BY <2>1, WithFacts DEF Args
  <2>3. QED BY <2>2, HDelSafe
<1>4. CASE c \in A4
  <2>1. PICK k \in Keys, f \in Elems, n \in Deltas, name \in {"HINCRBY", "HINCRBYFLOAT"} :
               c = With(name, k, One(f), n, {})
    BY <1>4
  <2>2. PICK v : v = One(f)
    OBVIOUS
  <2>3. c.name \in {"HINCRBY", "HINCRBYFLOAT"} /\ c.key \in Keys /\ c.val = v /\ c.n = n
    BY <2>1, <2>2, WithFacts DEF Args
  <2>4. v[1] \in Elems /\ n \in 0 .. MaxInt
    BY <2>2, OneCharIs, EffectsAssumption
  <2>5. QED BY <2>3, <2>4, HIncrSafe
<1>5. c \in UNION {A1, A2, A3, A4}
  BY SMTT(60) DEF HashCommands
<1> HIDE DEF A1, A2, A3, A4
<1>6. QED
  BY <1>1, <1>2, <1>3, <1>4, <1>5

\* Every sorted set command is.
LEMMA ZSetCommandsSafe == ASSUME NEW c \in ZSetCommands PROVE Safe(c)
<1> DEFINE
  A1 == {With(name, k, p, 0, {}) : k \in Keys, p \in Pairs, name \in {"ZADD", "ZINCRBY"}}
  A2 == {With("ZADD", k, Pair(Some, v), 0, opts) : k \in Keys, v \in Elems,
           opts \in {{"NX"}, {"XX"}, {"GT"}, {"LT"}}}
  A3 == {With("ZREM", k, ms, 0, {}) : k \in Keys, ms \in Members}
  A4 == {With(name, k, <<>>, 0, opts) : k \in Keys, opts \in {{}, {"MAX"}},
           name \in {"ZPOP", "BZPOP"}}
  A5 == {With("ZREMRANGE", k, <<0, 1>>, 0, {by}) : k \in Keys,
           by \in {"BYRANK", "BYSCORE", "BYLEX"}}
  A6 == {Between("ZRANGESTORE", k, d, <<0, 0>>, 0, {"BYRANK"}) : k, d \in Keys}
  A7 == {Between("ZRANGESTORE", k, d, <<0, 1>>, 0, {"BYSCORE", "REV"}) : k, d \in Keys}
  A8 == {Between("ZSTORE", k, d, <<>>, 1, {op, agg}) : k, d \in Keys,
           op \in {"INTER", "UNION"}, agg \in {"SUM", "MIN", "MAX"}}
  A9 == {Between("ZSTORE", k, d, <<>>, 1, {"DIFF"}) : k, d \in Keys}
<1>1. CASE c \in A1
  <2>1. PICK k \in Keys, p \in Pairs, name \in {"ZADD", "ZINCRBY"} : c = With(name, k, p, 0, {})
    BY <1>1
  <2>2. \E f \in Elems : \E v : p = Pair(f, v)
    BY DEF Pairs
  <2>3. DOMAIN p \subseteq Elems /\ DOMAIN p # {}
    BY <2>2, PairElems
  <2>4. IsCommand(c) /\ c.name \in {"ZADD", "ZINCRBY"} /\ c.key \in Keys /\ c.val = p
    BY <2>1, WithFacts DEF Args
  <2>5. QED BY <2>3, <2>4, ZAddSafe
<1>2. CASE c \in A2
  <2>1. PICK k \in Keys, v \in Elems, opts \in {{"NX"}, {"XX"}, {"GT"}, {"LT"}} :
               c = With("ZADD", k, Pair(Some, v), 0, opts)
    BY <1>2
  <2>2. PICK p : p = Pair(Some, v)
    OBVIOUS
  <2>3. Some \in Elems
    BY EffectsAssumption DEF Some
  <2>4. DOMAIN p \subseteq Elems /\ DOMAIN p # {}
    BY <2>2, <2>3, PairElems
  <2>5. IsCommand(c) /\ c.name = "ZADD" /\ c.key \in Keys /\ c.val = p
    BY <2>1, <2>2, WithFacts DEF Args
  <2>6. QED BY <2>4, <2>5, ZAddSafe
<1>3. CASE c \in A3
  <2>1. PICK k \in Keys, ms \in Members : c = With("ZREM", k, ms, 0, {})
    BY <1>3
  <2>2. c.name = "ZREM" /\ c.key \in Keys
    BY <2>1, WithFacts DEF Args
  <2>3. QED BY <2>2, ZRemSafe
<1>4. CASE c \in A4
  <2>1. PICK k \in Keys, opts \in {{}, {"MAX"}}, name \in {"ZPOP", "BZPOP"} :
               c = With(name, k, <<>>, 0, opts)
    BY <1>4
  <2>2. IsCommand(c) /\ c.name \in {"ZPOP", "BZPOP"} /\ c.key \in Keys
    BY <2>1, WithFacts DEF Args
  <2>3. QED BY <2>2, ZPopSafe, BZPopSafe
<1>5. CASE c \in A5
  <2>1. PICK k \in Keys, by \in {"BYRANK", "BYSCORE", "BYLEX"} : c = With("ZREMRANGE", k, <<0, 1>>, 0, {by})
    BY <1>5
  <2>2. c.name = "ZREMRANGE" /\ c.key \in Keys
    BY <2>1, WithFacts DEF Args
  <2>3. QED BY <2>2, ZRemRangeSafe
<1>6. CASE c \in A6 \/ c \in A7
  <2>1. PICK k \in Keys, d \in Keys : \/ c = Between("ZRANGESTORE", k, d, <<0, 0>>, 0, {"BYRANK"})
                                      \/ c = Between("ZRANGESTORE", k, d, <<0, 1>>, 0, {"BYSCORE", "REV"})
    BY <1>6
  <2>2. c.name = "ZRANGESTORE" /\ c.key \in Keys /\ c.dst \in Keys
    BY <2>1, BetweenFacts DEF Args
  <2>3. QED BY <2>2, ZRangeStoreSafe
<1>7. CASE c \in A8
  <2>1. PICK k \in Keys, d \in Keys, op \in {"INTER", "UNION"}, agg \in {"SUM", "MIN", "MAX"} :
               c = Between("ZSTORE", k, d, <<>>, 1, {op, agg})
    BY <1>7
  <2>2. c.name = "ZSTORE" /\ c.key \in Keys /\ c.dst \in Keys
    BY <2>1, BetweenFacts DEF Args
  <2>3. QED BY <2>2, ZStoreSafe
<1>8. CASE c \in A9
  <2>1. PICK k \in Keys, d \in Keys : c = Between("ZSTORE", k, d, <<>>, 1, {"DIFF"})
    BY <1>8
  <2>2. c.name = "ZSTORE" /\ c.key \in Keys /\ c.dst \in Keys
    BY <2>1, BetweenFacts DEF Args
  <2>3. QED BY <2>2, ZStoreSafe
<1>9. c \in UNION {A1, A2, A3, A4, A5, A6, A7, A8, A9}
  BY SMTT(60) DEF ZSetCommands
<1> HIDE DEF A1, A2, A3, A4, A5, A6, A7, A8, A9
<1>10. QED
  BY <1>1, <1>2, <1>3, <1>4, <1>5, <1>6, <1>7, <1>8, <1>9

\* Every command a client can send.
Commands == UNION {StringCommands, KeyCommands, ListCommands, SetCommands, HashCommands, ZSetCommands}

\* So every command a client can send is safe.
LEMMA CommandsSafe == ASSUME NEW c \in Commands PROVE Safe(c)
BY StringCommandsSafe, KeyCommandsSafe, ListCommandsSafe, SetCommandsSafe, HashCommandsSafe,
   ZSetCommandsSafe DEF Commands

-----------------------------------------------------------------------------
(* A log of effects, replayed.                                             *)

\* The call that starts from a table, and the table a call leaves.
LEMMA CallStart ==
  ASSUME NEW d, GoodTable(d), NEW m \in {"leader", "loading"}, NEW n, Still(n),
         NEW s, s = Call(d, m, n)
  PROVE  Start(s) /\ s.obj = d.obj /\ s.ttl = d.ttl /\ s.mem = d.mem /\ s.mode = m /\ s.clock = n
BY DEF Call, Start, IsCall, GoodTable

\* The table a call leaves.
LEMMA TableGood ==
  ASSUME NEW s, Table0(s), NEW d, d = Table(s)
  PROVE  GoodTable(d) /\ d.obj = s.obj /\ d.ttl = s.ttl /\ d.mem = s.mem /\ DOMAIN d = {"obj", "ttl", "mem"}
BY DEF Table, Table0, GoodTable

\* Nothing has expired in a keyspace that loads a log.
LEMMA LoadingFound ==
  ASSUME NEW s, s.mode = "loading", NEW k
  PROVE  Found(s, k) = s.obj[k] /\ ~expired(s, k)
BY DEF Found, expired, Now

\* An effect executed by a keyspace that loads the log.
Load(d, e) == Table(Handler(Call(d, "loading", Steady(MaxNow + 2)), e))

\* The copy that loads the log executes an effect as loading keyspaces do.
LEMMA ApplyLoads ==
  ASSUME CopyMode = "loading", NEW d, NEW e
  PROVE  Apply(d, e) = Load(d, e)
BY DEF Apply, Load

\* A deletion loaded takes its key away, if it is there.
LEMMA LoadDel ==
  ASSUME NEW d, GoodTable(d), NEW k \in Keys, NEW g, g = Load(d, Command("DEL", k))
  PROVE  GoodTable(g) /\ g.obj[k] = Nil /\ \A j \in Keys \ {k} : g.obj[j] = d.obj[j]
<1>1. PICK s : s = Call(d, "loading", Steady(MaxNow + 2))
  OBVIOUS
<1>2. Still(Steady(MaxNow + 2))
  BY StillFacts, EffectsAssumption
<1>3. Start(s) /\ s.obj = d.obj /\ s.mode = "loading"
  BY <1>1, <1>2, CallStart
<1>4. PICK e : e = Command("DEL", k)
  OBVIOUS
<1>5. e.name = "DEL" /\ e.key = k /\ e.dst = k
  BY <1>4 DEF Command
<1>6. PICK t : t = Handler(s, e)
  OBVIOUS
<1>7. PICK o : o = Found(s, k)
  OBVIOUS
<1>8. o = s.obj[k]
  BY <1>3, <1>7, LoadingFound
<1>9. \A j \in Keys : Found(s, j) = s.obj[j]
  BY <1>3, LoadingFound
<1>10. (o = Nil => Looks(s, t, k)) /\ (o # Nil => Puts(s, t, k, Nil))
  BY <1>3, <1>5, <1>6, <1>7, DelOneKey
<1>11. Table0(t)
  BY <1>10, AtTable DEF Looks, Puts
<1>12. t.obj[k] = Nil /\ \A j \in Keys \ {k} : t.obj[j] = s.obj[j]
  BY <1>8, <1>9, <1>10 DEF Looks, Puts, At
<1>13. g = Table(t)
  BY <1>1, <1>4, <1>6 DEF Load
<1>14. QED BY <1>3, <1>11, <1>12, <1>13, TableGood

-----------------------------------------------------------------------------
(* Replayed is the last value of a function from positions to tables.      *)

\* A set of naturals with 0 and with the successor of each of its members.
LEMMA Inductive ==
  ASSUME NEW T, 0 \in T, \A n \in Nat : n \in T => n + 1 \in T
  PROVE  Nat \subseteq T
<1> SUFFICES ASSUME Nat \ T # {} PROVE FALSE
  OBVIOUS
<1>1. PICK n \in Nat \ T : \A m \in Nat \ T : n <= m
  BY LeastNat
<1>2. n # 0 /\ n - 1 \in Nat
  BY <1>1
<1>3. n - 1 \in T
  BY <1>1, <1>2
<1>4. (n - 1) + 1 \in T
  BY <1>2, <1>3
<1>5. QED BY <1>1, <1>4

\* The function of Replayed's definition: the table at each position of the log.
Replays(f, d, log, n) ==
  f = [i \in 0 .. n |-> IF i = 0 THEN d ELSE Apply(f[i - 1], log[i])]

\* What a function with Replays satisfies, point by point.
LEMMA ReplaysAre ==
  ASSUME NEW f, NEW d, NEW log, NEW n \in Nat, Replays(f, d, log, n)
  PROVE  f[0] = d /\ \A i \in 1 .. n : f[i] = Apply(f[i - 1], log[i])
<1> DEFINE h == [i \in 0 .. n |-> IF i = 0 THEN d ELSE Apply(f[i - 1], log[i])]
<1>1. h[0] = d /\ \A i \in 1 .. n : h[i] = Apply(f[i - 1], log[i])
  OBVIOUS
<1>2. f = h
  BY DEF Replays
<1> HIDE DEF h
<1>3. f[0] = h[0] /\ \A i \in 1 .. n : f[i] = h[i]
  BY <1>2
<1>4. QED BY <1>1, <1>3

\* There is such a function, of any length.
LEMMA ReplaysExist ==
  ASSUME NEW d, NEW log
  PROVE  \A n \in Nat : \E f : Replays(f, d, log, n)
<1> DEFINE T == {n \in Nat : \E f : Replays(f, d, log, n)}
<1>1. 0 \in T
  <2>1. Replays([i \in 0 .. 0 |-> d], d, log, 0)
    BY DEF Replays
  <2>2. QED BY <2>1
<1>2. ASSUME NEW n \in Nat, n \in T PROVE n + 1 \in T
  <2>1. PICK f : Replays(f, d, log, n)
    BY <1>2
  <2> DEFINE g == [i \in 0 .. n + 1 |-> IF i <= n THEN f[i] ELSE Apply(f[n], log[i])]
  <2>2. ASSUME NEW i \in 0 .. n + 1
        PROVE  g[i] = IF i = 0 THEN d ELSE Apply(g[i - 1], log[i])
    <3>1. CASE i = 0
      BY <2>1, <3>1, ReplaysAre
    <3>2. CASE i \in 1 .. n
      <4>1. f[i] = Apply(f[i - 1], log[i])
        BY <2>1, <3>2, ReplaysAre
      <4>2. g[i] = f[i] /\ g[i - 1] = f[i - 1] /\ i # 0
        BY <3>2
      <4>3. QED BY <4>1, <4>2
    <3>3. CASE i = n + 1
      <4>1. i - 1 = n /\ ~(i <= n) /\ i # 0 /\ g[n] = f[n]
        BY <3>3
      <4>2. QED BY <4>1
    <3>4. QED BY <3>1, <3>2, <3>3
  <2>3. Replays(g, d, log, n + 1)
    <3> HIDE DEF g
    <3>1. g = [i \in 0 .. n + 1 |-> g[i]]
      BY DEF g
    <3>2. QED BY <2>2, <3>1 DEF Replays
  <2>4. QED BY <2>3
<1>3. Nat \subseteq T
  <2> HIDE DEF T
  <2>1. QED BY <1>1, <1>2, Inductive
<1>4. QED BY <1>3

\* Replayed is the last value of one.
LEMMA ReplayedIs ==
  ASSUME NEW d, NEW log, Len(log) \in Nat
  PROVE  \E f : Replays(f, d, log, Len(log)) /\ Replayed(d, log) = f[Len(log)]
<1> DEFINE n == Len(log)
           f == CHOOSE f : Replays(f, d, log, n)
<1>1. Replayed(d, log) = f[n]
  BY Zenon DEF Replayed, InOrder, Replays
<1>2. \E g : Replays(g, d, log, n)
  BY ReplaysExist
<1>3. Replays(f, d, log, n)
  BY <1>2
<1>4. QED BY <1>1, <1>3

\* A log of deletions names keys, each of its positions one.
LEMMA ReapsKeys ==
  ASSUME NEW D, NEW dels, Reaps(dels, D)
  PROVE  /\ Len(dels) \in Nat /\ DOMAIN dels = 1 .. Len(dels)
         /\ \A i \in 1 .. Len(dels) : dels[i].key \in D /\ dels[i] = Command("DEL", dels[i].key)
         /\ \A k \in D : \E i \in 1 .. Len(dels) : dels[i].key = k
<1> DEFINE C == {Command("DEL", k) : k \in D}
<1>1. dels \in Seq(C) /\ \A k \in D : \E i \in DOMAIN dels : dels[i] = Command("DEL", k)
  BY DEF Reaps
<1>2. \A k : Command("DEL", k).key = k
  BY DEF Command
<1>3. \A e \in C : e.key \in D /\ e = Command("DEL", e.key)
  BY <1>2
<1> HIDE DEF C
<1>4. Len(dels) \in Nat /\ DOMAIN dels = 1 .. Len(dels) /\ \A i \in 1 .. Len(dels) : dels[i] \in C
  BY <1>1
<1>5. ASSUME NEW k \in D PROVE \E i \in 1 .. Len(dels) : dels[i].key = k
  <2>1. PICK i \in DOMAIN dels : dels[i] = Command("DEL", k)
    BY <1>1
  <2>2. QED BY <1>2, <1>4, <2>1
<1>6. QED BY <1>3, <1>4, <1>5

\* A keyspace that loads a log of deletions has lost their keys, and no other.
LEMMA LoadDels ==
  ASSUME CopyMode = "loading", NEW d, GoodTable(d), NEW D, D \subseteq Keys, NEW dels, Reaps(dels, D),
         NEW log, NEW n \in Nat, Len(dels) <= n, \A i \in 1 .. Len(dels) : log[i] = dels[i],
         NEW f, Replays(f, d, log, n), NEW g, g = f[Len(dels)]
  PROVE  GoodTable(g) /\ \A k \in Keys : g.obj[k] = IF k \in D THEN Nil ELSE d.obj[k]
<1> DEFINE m == Len(dels)
           Gone(i) == {k \in Keys : \E j \in 1 .. i : dels[j].key = k}
           T == {i \in Nat : i <= m => /\ GoodTable(f[i])
                                       /\ \A k \in Keys : f[i].obj[k] = IF k \in Gone(i) THEN Nil ELSE d.obj[k]}
<1>0. /\ m \in Nat
      /\ \A i \in 1 .. m : dels[i].key \in Keys /\ dels[i].key \in D /\ dels[i] = Command("DEL", dels[i].key)
      /\ \A k \in D : \E i \in 1 .. m : dels[i].key = k
  BY ReapsKeys
<1>1. f[0] = d /\ \A i \in 1 .. n : f[i] = Load(f[i - 1], log[i])
  BY ReplaysAre, ApplyLoads
<1>2. 0 \in T
  BY <1>1
<1>3. ASSUME NEW i \in Nat, i \in T PROVE i + 1 \in T
  <2> SUFFICES ASSUME i + 1 <= m
               PROVE  /\ GoodTable(f[i + 1])
                      /\ \A k \in Keys : f[i + 1].obj[k] = IF k \in Gone(i + 1) THEN Nil ELSE d.obj[k]
    OBVIOUS
  <2>0. m <= n /\ i + 1 \in 1 .. m /\ i + 1 \in 1 .. n /\ (i + 1) - 1 = i
    BY <1>0
  <2>1. PICK x : x = dels[i + 1].key
    OBVIOUS
  <2>2. x \in Keys /\ log[i + 1] = Command("DEL", x)
    BY <1>0, <2>0, <2>1
  <2>3. f[i + 1] = Load(f[i], Command("DEL", x))
    BY <1>1, <2>0, <2>2
  <2>4. GoodTable(f[i]) /\ \A k \in Keys : f[i].obj[k] = IF k \in Gone(i) THEN Nil ELSE d.obj[k]
    BY <1>3, <2>0
  <2>5. /\ GoodTable(f[i + 1]) /\ f[i + 1].obj[x] = Nil
        /\ \A j \in Keys \ {x} : f[i + 1].obj[j] = f[i].obj[j]
    BY <2>2, <2>3, <2>4, LoadDel
  <2>6. \A k \in Keys : k \in Gone(i + 1) <=> k \in Gone(i) \/ k = x
    BY <2>1
  <2> HIDE DEF Gone
  <2>7. QED BY <2>4, <2>5, <2>6
<1>4. Nat \subseteq T
  <2> HIDE DEF T
  <2>1. QED BY <1>2, <1>3, Inductive
<1>5. \A k \in Keys : k \in Gone(m) <=> k \in D
  BY <1>0
<1>6. GoodTable(f[m]) /\ \A k \in Keys : f[m].obj[k] = IF k \in Gone(m) THEN Nil ELSE d.obj[k]
  BY <1>0, <1>4
<1> HIDE DEF Gone, T
<1>7. QED BY <1>5, <1>6

\* A call that looked up R and wrote W, and what it tells of that beside the keys it reaped.
Tells(s, t, R, W, tail) ==
  /\ R \subseteq Keys /\ At(s, t, R, W)
  /\ \/ W = {} /\ tail = <<>>
     \/ \E e : tail = <<e>> /\ Redoes(e, s, t, R)

\* The log of a step, replayed: the keys it reaped, then what it tells of itself.
LEMMA ReplayStep ==
  ASSUME CopyMode = "loading", NEW d, GoodTable(d), NEW s, Start(s), s.obj = d.obj,
         NEW R, NEW W, NEW t, NEW tail, Tells(s, t, R, W, tail),
         NEW g, g = Replayed(d, t.log \o tail)
  PROVE  GoodTable(g) /\ g.obj = t.obj
<1> DEFINE D == {k \in R : expired(s, k)}
           m == Len(t.log)
<1>a. R \subseteq Keys /\ At(s, t, R, W)
  BY DEF Tells
<1>b. \/ W = {} /\ tail = <<>>
      \/ \E e : tail = <<e>> /\ Redoes(e, s, t, R)
  BY DEF Tells
<1>0. Reaps(t.log, D) /\ D \subseteq Keys
  BY <1>a DEF At
<1>1. m \in Nat /\ t.log \in Seq({Command("DEL", k) : k \in D})
  BY <1>0, ReapsKeys DEF Reaps
<1>2. \E log : \E n : \E f :
        /\ n \in Nat /\ Replays(f, d, log, n) /\ m <= n /\ g = f[n]
        /\ \A i \in 1 .. m : log[i] = t.log[i]
        /\ \/ W = {} /\ n = m
           \/ n = m + 1 /\ Redoes(log[n], s, t, R)
  <2>1. PICK l : l = t.log
    OBVIOUS
  <2>2. ASSUME tail = <<>> \/ \E e : tail = <<e>>
        PROVE  /\ Len(l \o tail) = Len(l) + Len(tail) /\ Len(tail) \in {0, 1}
               /\ \A i \in 1 .. m : (l \o tail)[i] = l[i]
    BY <1>1, <2>1, <2>2
  <2>3. Len(l \o tail) = m + Len(tail) /\ Len(tail) \in {0, 1} /\ \A i \in 1 .. m : (l \o tail)[i] = l[i]
    BY <1>b, <2>1, <2>2
  <2>4. PICK n : n = Len(l \o tail)
    OBVIOUS
  <2>5. n \in Nat /\ m <= n
    BY <1>1, <2>3, <2>4
  <2>6. PICK f : Replays(f, d, l \o tail, n) /\ g = f[n]
    BY <2>1, <2>4, <2>5, ReplayedIs
  <2>7. CASE W = {} /\ tail = <<>>
    BY <1>1, <2>1, <2>3, <2>4, <2>5, <2>6, <2>7
  <2>8. CASE \E e : tail = <<e>> /\ Redoes(e, s, t, R)
    <3>1. PICK e : tail = <<e>> /\ Redoes(e, s, t, R)
      BY <2>8
    <3>2. n = m + 1 /\ (l \o tail)[n] = e
      BY <1>1, <2>1, <2>3, <2>4, <3>1
    <3>3. PICK log : log = l \o tail
      OBVIOUS
    <3>4. Redoes(log[n], s, t, R)
      BY <3>1, <3>2, <3>3
    <3>5. Replays(f, d, log, n) /\ \A i \in 1 .. m : log[i] = t.log[i]
      BY <2>1, <2>3, <2>6, <3>3
    <3>6. QED BY <2>5, <2>6, <3>2, <3>4, <3>5
  <2>9. QED BY <1>b, <2>7, <2>8
<1>3. PICK log, n, f :
        /\ n \in Nat /\ Replays(f, d, log, n) /\ m <= n /\ g = f[n]
        /\ \A i \in 1 .. m : log[i] = t.log[i]
        /\ \/ W = {} /\ n = m
           \/ n = m + 1 /\ Redoes(log[n], s, t, R)
  BY <1>2
<1>4. PICK b : b = f[m]
  OBVIOUS
<1>5. GoodTable(b) /\ \A k \in Keys : b.obj[k] = IF k \in D THEN Nil ELSE d.obj[k]
  <2>1. PICK E, l : E = D /\ l = t.log
    OBVIOUS
  <2>2. E \subseteq Keys /\ Reaps(l, E) /\ b = f[Len(l)] /\ Len(l) <= n /\ \A i \in 1 .. Len(l) : log[i] = l[i]
    BY <1>0, <1>3, <1>4, <2>1
  <2>3. GoodTable(b) /\ \A k \in Keys : b.obj[k] = IF k \in E THEN Nil ELSE d.obj[k]
    BY ONLY CopyMode = "loading", GoodTable(d), <1>3, <1>4, <2>2, LoadDels
  <2>4. QED BY <2>1, <2>3
<1>6. \A k \in Keys : /\ expired(s, k) => Found(s, k) = Nil
                      /\ ~expired(s, k) => Found(s, k) = s.obj[k]
  BY FoundFacts
<1>7. \A k \in Keys : b.obj[k] = Base(s, R)[k]
  BY <1>5, <1>6 DEF Base
<1>8. b.obj = Base(s, R)
  BY <1>5, <1>7 DEF GoodTable, Whole, Base
<1>9. CASE W = {} /\ n = m
  <2>1. \A k \in Keys : t.obj[k] = Base(s, R)[k]
    BY <1>a, <1>9 DEF At, Base
  <2>2. t.obj = Base(s, R)
    BY <1>a, <2>1 DEF At, Whole, Base
  <2>3. QED BY <1>3, <1>4, <1>5, <1>8, <1>9, <2>2
<1>10. CASE n = m + 1 /\ Redoes(log[n], s, t, R)
  <2>1. PICK e : e = log[n]
    OBVIOUS
  <2>2. n \in 1 .. n /\ n - 1 = m
    BY <1>1, <1>3, <1>10
  <2>3. g = Load(b, e)
    BY <1>3, <1>4, <2>1, <2>2, ReplaysAre, ApplyLoads
  <2>4. PICK r : r = Call(b, "loading", Steady(MaxNow + 2))
    OBVIOUS
  <2>5. Still(Steady(MaxNow + 2))
    BY StillFacts, EffectsAssumption
  <2>6. Start(r) /\ r.obj = b.obj /\ r.mode = "loading"
    BY <1>5, <2>4, <2>5, CallStart
  <2>7. Loads(r, s, R)
    BY <1>8, <2>6 DEF Loads
  <2>8. PICK h : h = Handler(r, e)
    OBVIOUS
  <2>9. Table0(h) /\ h.obj = t.obj
    BY <1>10, <2>1, <2>7, <2>8 DEF Redoes
  <2>10. g = Table(h)
    BY <2>3, <2>4, <2>8 DEF Load
  <2>11. QED BY <2>9, <2>10, TableGood
<1>11. QED BY <1>3, <1>9, <1>10

\* The fields of a table.
Fields == {"obj", "ttl", "mem"}

\* Strings and lists are no longer than the bound on the table.
Small(obj) ==
  \A k \in Keys : obj[k].type \in {"string", "list"} => DOMAIN obj[k].val \subseteq 1 .. MaxSize

-----------------------------------------------------------------------------
(* The leader's keyspace: the inductive invariant.                         *)

\* What holds of the leader's keyspace, of the ideal one, and of the client that rereads keys.
LeaderInv ==
  /\ GoodTable(db) /\ Small(db.obj)
  /\ GoodTable(ideal) /\ DOMAIN ideal = Fields
  /\ seen = db.obj
  /\ ideal.obj = Visible(db.obj, now)
  /\ now \in 1 .. MaxNow

\* A table without its expired keys is a table.
LEMMA VisibleGood ==
  ASSUME NEW obj, Whole(obj), NEW n
  PROVE  Whole(Visible(obj, n))
BY NilFacts DEF Whole, Visible

\* The keys that have not expired now, an instant later.
LEMMA VisibleTwice ==
  ASSUME NEW obj, NEW n \in Nat, Whole(obj)
  PROVE  Visible(Visible(obj, n), n + 1) = Visible(obj, n + 1)
<1>1. \A k \in Keys : obj[k].at \in Nat
  BY GoodFacts DEF Whole
<1>2. QED BY <1>1, NilFacts DEF Visible, Due

\* Purging leaves a table of the keys that have not expired.
LEMMA PurgedGood ==
  ASSUME NEW d, GoodTable(d), DOMAIN d = Fields, NEW n, NEW p, p = Purged(d, n)
  PROVE  GoodTable(p) /\ DOMAIN p = Fields /\ p.obj = Visible(d.obj, n)
<1>1. /\ p.obj = Visible(d.obj, n) /\ p.ttl = {k \in d.ttl : ~Due(d.obj[k], n)} /\ p.mem = d.mem
      /\ DOMAIN p = Fields
  BY DEF Purged, Fields
<1>2. Whole(p.obj)
  BY <1>1, VisibleGood DEF GoodTable
<1>3. p.ttl = Indexed(p.obj)
  <2>1. \A k \in Keys : p.obj[k] = IF Due(d.obj[k], n) THEN Nil ELSE d.obj[k]
    BY <1>1 DEF Visible
  <2>2. QED BY <1>1, <2>1, NilFacts DEF Indexed, GoodTable
<1>4. QED BY <1>1, <1>2, <1>3 DEF GoodTable

\* A clock a command can read from now to the instant n it ends at.
Runs(clock, n) ==
  /\ clock \in Stills /\ n \in 1 .. MaxNow
  /\ \A k \in Keys : clock.at[k] \in Nat /\ now <= clock.at[k] /\ clock.at[k] <= n

\* Calls that find the same leave tables with the same live keys, from the last instant read on.
LEMMA AlikeLater ==
  ASSUME NEW s, NEW i, s.mode = "leader", i.mode = "leader", s.clock = i.clock, Alike(s, i),
         Whole(s.obj), Whole(i.obj), NEW n \in Nat,
         \A k \in Keys : s.clock.at[k] \in Nat /\ s.clock.at[k] <= n
  PROVE  Visible(s.obj, n) = Visible(i.obj, n)
<1>1. ASSUME NEW k \in Keys PROVE Visible(s.obj, n)[k] = Visible(i.obj, n)[k]
  <2>1. PICK a, b, m : a = s.obj[k] /\ b = i.obj[k] /\ m = s.clock.at[k]
    OBVIOUS
  <2>2. a.at \in Nat /\ b.at \in Nat /\ m \in Nat /\ m <= n
    BY <2>1, GoodFacts DEF Whole
  <2>3. (IF Due(a, m) THEN Nil ELSE a) = IF Due(b, m) THEN Nil ELSE b
    BY <2>1 DEF Alike, Found, expired, Now
  <2>4. (IF Due(a, n) THEN Nil ELSE a) = IF Due(b, n) THEN Nil ELSE b
    BY <2>2, <2>3, NilFacts DEF Due
  <2>5. QED BY <2>1, <2>4 DEF Visible
<1>2. QED BY <1>1 DEF Visible

\* Calls that start from tables with the same live keys find the same, at that instant or later.
LEMMA AlikeEarlier ==
  ASSUME NEW s, NEW i, s.mode = "leader", i.mode = "leader", s.clock = i.clock,
         Whole(s.obj), NEW n \in Nat, i.obj = Visible(s.obj, n),
         \A k \in Keys : s.clock.at[k] \in Nat /\ n <= s.clock.at[k]
  PROVE  Alike(s, i)
<1>1. ASSUME NEW k \in Keys PROVE Found(s, k) = Found(i, k)
  <2>1. PICK a, b, m : a = s.obj[k] /\ b = i.obj[k] /\ m = s.clock.at[k]
    OBVIOUS
  <2>2. a.at \in Nat /\ m \in Nat /\ n <= m /\ b = IF Due(a, n) THEN Nil ELSE a
    BY <2>1, GoodFacts DEF Whole, Visible
  <2>3. (IF Due(a, m) THEN Nil ELSE a) = IF Due(b, m) THEN Nil ELSE b
    BY <2>2, NilFacts DEF Due
  <2>4. QED BY <2>1, <2>3 DEF Found, expired, Now
<1>2. QED BY <1>1 DEF Alike

\* The common end of a step keeps the invariant.
Moves(s0, s) ==
  /\ Table0(s) /\ s.mode = s0.mode /\ s.clock = s0.clock
  /\ \A k \in Keys : k \notin s.sig => s.obj[k] = s0.obj[k]

\* A call signals every key it changes.
LEMMA AtMoves ==
  ASSUME NEW s0, NEW s, NEW R, NEW W, At(s0, s, R, W)
  PROVE  Moves(s0, s)
<1>1. \A k \in Keys : ~expired(s0, k) => Found(s0, k) = s0.obj[k]
  BY DEF Found
<1>2. QED BY <1>1 DEF At, Moves, Table0

\* The common end of a step keeps what holds of the leader's keyspace.
LEMMA StepLeader ==
  ASSUME LeaderInv, NEW clock, NEW n, Runs(clock, n), NEW s0, s0 = Call(db, "leader", clock),
         NEW s, Moves(s0, s), Small(s.obj),
         NEW i, Table0(i), i.mode = "leader", i.clock = clock, Alike(s, i), NEW log, Step(s, log, i, n)
  PROVE  LeaderInv'
<1>0. n \in Nat /\ n \in 1 .. MaxNow /\ Still(clock)
  BY StillFacts, EffectsAssumption DEF Runs
<1>1. s0.obj = db.obj /\ s0.mode = "leader" /\ s0.clock = clock
  BY <1>0, CallStart DEF LeaderInv
<1>2. s.mode = "leader" /\ s.clock = clock /\ Table0(s)
  BY <1>1 DEF Moves
<1>3. PICK p : p = Table(i)
  OBVIOUS
<1>4. GoodTable(p) /\ p.obj = i.obj /\ DOMAIN p = Fields
  BY <1>3, TableGood DEF Fields
<1>5. /\ db' = Table(s) /\ ideal' = Purged(p, n) /\ now' = n
      /\ seen' = [k \in Keys |-> IF k \in s.sig THEN s.obj[k] ELSE seen[k]]
  BY <1>3 DEF Step
<1>6. GoodTable(db') /\ db'.obj = s.obj
  BY <1>2, <1>5, TableGood
<1>7. GoodTable(ideal') /\ DOMAIN ideal' = Fields /\ ideal'.obj = Visible(i.obj, n)
  BY <1>4, <1>5, PurgedGood
<1>8. Visible(s.obj, n) = Visible(i.obj, n)
  BY <1>0, <1>2, AlikeLater DEF Table0, Runs
<1>9. seen' = s.obj
  <2>1. \A k \in Keys : seen'[k] = s.obj[k]
    BY <1>1, <1>5 DEF Moves, LeaderInv
  <2>2. seen' = [k \in Keys |-> seen'[k]]
    BY <1>5
  <2>3. QED BY <1>2, <2>1, <2>2 DEF Table0, Whole
<1>10. Small(db'.obj)
  BY <1>6
<1>11. ideal'.obj = Visible(db'.obj, n)
  BY <1>6, <1>7, <1>8
<1>12. ideal'.obj = Visible(db'.obj, now')
  BY <1>5, <1>11
<1>13. now' \in 1 .. MaxNow
  BY <1>0, <1>5
<1>14. QED BY <1>6, <1>7, <1>9, <1>10, <1>12, <1>13 DEF LeaderInv

\* The elements of a table are finitely many, so its bound is one on every value.
LEMMA BoundedSmall ==
  ASSUME NEW s, Table0(s), Bounded(s)
  PROVE  Small(s.obj)
<1> DEFINE obj == s.obj
           F == [k \in Keys |-> {k} \X DOMAIN obj[k].val]
           A == {F[k] : k \in Keys}
           U == UNION {{k} \X DOMAIN obj[k].val : k \in Keys}
<1>1. \A k \in Keys : GoodObj(obj[k])
  BY DEF Table0, Whole
<1>2. ASSUME NEW k \in Keys PROVE IsFiniteSet(DOMAIN obj[k].val)
  <2>1. CASE obj[k] = Nil
    BY <2>1, NilFacts, FS_EmptySet
  <2>2. CASE obj[k] # Nil
    BY <1>1, <2>2, ShapeFinite DEF GoodObj, Proper
  <2>3. QED BY <2>1, <2>2
<1>3. IsFiniteSet(A)
  <2>1. F \in Surjection(Keys, A)
    BY DEF Surjection
  <2> HIDE DEF F, A
  <2>2. QED BY <2>1, FS_Surjection, EffectsAssumption
<1>4. ASSUME NEW T \in A PROVE IsFiniteSet(T)
  <2>1. PICK k \in Keys : T = {k} \X DOMAIN obj[k].val
    OBVIOUS
  <2>2. QED BY <1>2, <2>1, FS_Singleton, FS_Product
<1>5. IsFiniteSet(UNION A)
  <2> HIDE DEF A
  <2>1. QED BY <1>3, <1>4, FS_UNION
<1>6. U = UNION A
  OBVIOUS
<1>7. IsFiniteSet(U) /\ Cardinality(U) \in Nat
  <2> HIDE DEF U, A
  <2>1. QED BY <1>5, <1>6, FS_CardinalityType
<1>8. Cardinality(U) <= MaxSize
  <2>1. s.ttl \in SUBSET Keys
    BY DEF Table0, Indexed
  <2>2. Cardinality(s.ttl) \in Nat
    BY <2>1, FS_Subset, FS_CardinalityType, EffectsAssumption
  <2>3. Cardinality(U) + Cardinality(s.ttl) <= MaxSize
    BY DEF Bounded, Total
  <2> HIDE DEF U
  <2>4. QED BY <1>7, <2>2, <2>3, EffectsAssumption
<1>9. ASSUME NEW k \in Keys, obj[k].type \in {"string", "list"}
      PROVE  DOMAIN obj[k].val \subseteq 1 .. MaxSize
  <2>1. obj[k] # Nil
    BY <1>9, NilFacts
  <2>2. IsSeq(obj[k].val)
    BY <1>1, <1>9, <2>1 DEF GoodObj, Proper, Shape
  <2>3. PICK n \in Nat : DOMAIN obj[k].val = 1 .. n
    BY <2>2 DEF IsSeq
  <2>4. IsFiniteSet(1 .. n) /\ Cardinality(1 .. n) = n
    BY FS_Interval
  <2>5. Cardinality({k} \X (1 .. n)) = n
    <3>1. IsFiniteSet({k}) /\ Cardinality({k}) = 1
      BY FS_Singleton
    <3>2. PICK K, I : K = {k} /\ I = 1 .. n
      OBVIOUS
    <3>3. Cardinality(K \X I) = Cardinality(K) * Cardinality(I)
      BY ONLY <2>4, <3>1, <3>2, FS_Product
    <3>4. QED BY <2>4, <3>1, <3>2, <3>3
  <2>6. {k} \X (1 .. n) \in SUBSET U
    BY <2>3
  <2>7. Cardinality({k} \X (1 .. n)) <= Cardinality(U)
    <3> HIDE DEF U
    <3>1. QED BY <1>7, <2>6, FS_Subset
  <2>8. n <= MaxSize
    <3> HIDE DEF U
    <3>1. QED BY <1>7, <1>8, <2>5, <2>7, EffectsAssumption
  <2>9. QED BY <2>3, <2>8, EffectsAssumption
<1>10. QED BY <1>9 DEF Small

\* The calls every step begins with.
LEMMA StepCalls ==
  ASSUME LeaderInv, NEW clock, NEW n, Runs(clock, n),
         NEW s0, s0 = Call(db, "leader", clock), NEW i0, i0 = Call(ideal, "leader", clock)
  PROVE  /\ Leads(s0, clock) /\ s0.obj = db.obj /\ s0.ttl = db.ttl
         /\ Leads(i0, clock) /\ i0.obj = ideal.obj
         /\ Alike(s0, i0)
<1>1. now \in Nat /\ Still(clock)
  BY StillFacts, EffectsAssumption DEF LeaderInv, Runs
<1>2. Start(s0) /\ s0.obj = db.obj /\ s0.ttl = db.ttl /\ s0.mode = "leader" /\ s0.clock = clock
  BY <1>1, CallStart DEF LeaderInv
<1>3. Start(i0) /\ i0.obj = ideal.obj /\ i0.mode = "leader" /\ i0.clock = clock
  BY <1>1, CallStart DEF LeaderInv
<1>4. /\ Whole(s0.obj) /\ i0.obj = Visible(s0.obj, now)
      /\ \A k \in Keys : s0.clock.at[k] \in Nat /\ now <= s0.clock.at[k]
  BY <1>2, <1>3 DEF LeaderInv, GoodTable, Runs
<1>5. Alike(s0, i0)
  BY <1>1, <1>2, <1>3, <1>4, AlikeEarlier
<1>6. QED BY <1>2, <1>3, <1>5 DEF Leads

\* The clock of a step that reads it once.
LEMMA SteadyRuns == LeaderInv => Runs(Steady(now), now)
BY EffectsAssumption DEF LeaderInv, Runs, Stills, Steady

\* The clock of a command, when it shows one instant for all the readings of a key.
LEMMA ClocksRun ==
  ASSUME ~SplitReadings, LeaderInv, NEW c, NEW n \in now .. MaxNow, NEW clock \in Clocks(c, n)
  PROVE  Runs(clock, n)
<1>1. now \in 1 .. MaxNow /\ now \in Nat /\ MaxNow \in Nat
  BY EffectsAssumption DEF LeaderInv
<1>2. clock = [Steady(now) EXCEPT !.at[c.dst] = n]
  BY DEF Clocks
<1>3. /\ clock = [start |-> now, at |-> [[k \in Keys |-> now] EXCEPT ![c.dst] = n],
                  later |-> [k \in Keys |-> <<>>]]
  BY <1>2 DEF Steady
<1>4. PICK f : f = [[k \in Keys |-> now] EXCEPT ![c.dst] = n]
  OBVIOUS
<1>5. f \in [Keys -> Nat] /\ \A k \in Keys : f[k] \in Nat /\ now <= f[k] /\ f[k] <= n
  <2>1. \A k \in Keys : f[k] = IF k = c.dst THEN n ELSE now
    BY <1>4
  <2>2. f = [k \in Keys |-> f[k]]
    BY <1>4
  <2>3. \A k \in Keys : f[k] \in Nat /\ now <= f[k] /\ f[k] <= n
    BY <1>1, <2>1
  <2>4. QED BY <2>2, <2>3
<1>6. QED BY <1>1, <1>3, <1>4, <1>5 DEF Runs, Stills

\* A call that starts works on a table.
LEMMA StartTable == ASSUME NEW s, Start(s) PROVE Table0(s)
BY DEF Start, Table0

\* A command leaves the ideal keyspace as it leaves the leader's.
LEMMA ExecuteSafe ==
  ASSUME LeaderInv, NEW c \in Commands, NEW clock, NEW n, Runs(clock, n),
         NEW s0, s0 = Call(db, "leader", clock), NEW i0, i0 = Call(ideal, "leader", clock),
         NEW s, s = Handler(s0, c), NEW i, i = Handler(i0, c)
  PROVE  Faithful(c, s0) /\ Moves(s0, s) /\ Table0(i) /\ i.mode = "leader" /\ i.clock = clock /\ Alike(s, i)
<1>1. Leads(s0, clock) /\ Leads(i0, clock) /\ Alike(s0, i0) /\ clock \in Stills
  BY StepCalls DEF Runs
<1>2. Safe(c)
  BY CommandsSafe
<1>3. Faithful(c, s0) /\ Faithful(c, i0) /\ Alike(s, i)
  BY <1>1, <1>2 DEF Safe
<1>4. Moves(s0, s)
  <2>1. PICK R, W : At(s0, s, R, W)
    BY <1>3 DEF Faithful
  <2>2. QED BY <2>1, AtMoves
<1>5. PICK R, W : At(i0, i, R, W)
  BY <1>3 DEF Faithful
<1>6. Moves(i0, i)
  BY <1>5, AtMoves
<1>7. Table0(i) /\ i.mode = "leader" /\ i.clock = clock
  BY <1>1, <1>6 DEF Moves, Leads
<1>8. QED BY <1>3, <1>4, <1>7

\* What an executed command leaves, in both keyspaces.
LEMMA ExecuteIs ==
  ASSUME ~SplitReadings, LeaderInv, NEW c \in Commands, Execute(c)
  PROVE  \E clock, n, s0, s, i :
           /\ Runs(clock, n) /\ s0 = Call(db, "leader", clock) /\ s = Handler(s0, c)
           /\ Faithful(c, s0) /\ Moves(s0, s) /\ Small(s.obj)
           /\ Table0(i) /\ i.mode = "leader" /\ i.clock = clock /\ Alike(s, i)
           /\ Step(s, s.log \o Logged(s, c), i, n)
<1>. PICK n \in now .. MaxNow : \E clock \in Clocks(c, n) :
        \E s \in {Handler(Call(db, "leader", clock), c)} :
          /\ Bounded(s)
          /\ \E i \in {IF ideal = db THEN s ELSE Handler(Call(ideal, "leader", clock), c)} :
               Step(s, propagate(s, c), i, n)
  BY Zenon DEF Execute
<1>0. PICK clock \in Clocks(c, n) :
        \E s \in {Handler(Call(db, "leader", clock), c)} :
          /\ Bounded(s)
          /\ \E i \in {IF ideal = db THEN s ELSE Handler(Call(ideal, "leader", clock), c)} :
               Step(s, propagate(s, c), i, n)
  OBVIOUS
<1>00. Runs(clock, n)
  BY ClocksRun
<1>1. PICK s0, i0 : s0 = Call(db, "leader", clock) /\ i0 = Call(ideal, "leader", clock)
  OBVIOUS
<1>2. PICK s, r : s = Handler(s0, c) /\ r = Handler(i0, c)
  OBVIOUS
<1>3. Faithful(c, s0) /\ Moves(s0, s) /\ Table0(r) /\ r.mode = "leader" /\ r.clock = clock /\ Alike(s, r)
  BY <1>00, <1>1, <1>2, ExecuteSafe
<1>4. PICK i : /\ i = (IF ideal = db THEN s ELSE r)
               /\ Bounded(s) /\ Step(s, propagate(s, c), i, n)
  BY <1>0, <1>1, <1>2, Zenon
<1>5. propagate(s, c) = s.log \o Logged(s, c)
  BY Zenon DEF propagate, Logged
<1>6. i = r
  <2>1. CASE ideal = db
    <3>1. i0 = s0
      BY <1>1, <2>1
    <3>2. QED BY <1>2, <1>4, <3>1
  <2>2. CASE ideal # db
    BY <1>4, <2>2
  <2>3. QED BY <2>1, <2>2
<1>7. Small(s.obj)
  BY <1>3, <1>4, BoundedSmall DEF Moves
<1>8. QED BY <1>00, <1>1, <1>2, <1>3, <1>4, <1>5, <1>6, <1>7

\* A command keeps LeaderInv.
LEMMA ExecuteLeader ==
  ASSUME ~SplitReadings, LeaderInv, NEW c \in Commands, Execute(c)
  PROVE  LeaderInv'
BY ExecuteIs, StepLeader

\* A key whose entry is examined has an instant, so it exists.
LEMMA SampleIs ==
  ASSUME LeaderInv, NEW k \in Keys, expireSample(k)
  PROVE  \E clock, n, s0, s, i :
           /\ Runs(clock, n) /\ s0 = Call(db, "leader", clock) /\ s = lookup(s0, k) /\ Looks(s0, s, k)
           /\ Small(s.obj)
           /\ Table0(i) /\ i.mode = "leader" /\ i.clock = clock /\ Alike(s, i)
           /\ Step(s, s.log, i, n)
<1>0. PICK clock, n : clock = Steady(now) /\ n = now /\ Runs(clock, n)
  BY SteadyRuns
<1>1. PICK s0, i : s0 = Call(db, "leader", clock) /\ i = Call(ideal, "leader", clock)
  OBVIOUS
<1>2. /\ Leads(s0, clock) /\ s0.obj = db.obj /\ s0.ttl = db.ttl
      /\ Leads(i, clock) /\ Alike(s0, i)
  BY <1>0, <1>1, StepCalls
<1>3. s0.obj[k] # Nil
  <2>1. k \in db.ttl
    BY DEF expireSample
  <2>2. db.obj[k].at > 0
    BY <2>1 DEF LeaderInv, GoodTable, Indexed
  <2>3. QED BY <1>2, <2>2, NilFacts
<1>4. PICK s : s = lookup(s0, k)
  OBVIOUS
<1>5. expired(s0, k) /\ Step(expireKey(s0, k), expireKey(s0, k).log, i, n)
  BY <1>0, <1>1, <1>3 DEF expireSample
<1>6. s = expireKey(s0, k)
  BY <1>2, <1>4, <1>5, StillFacts DEF Reaped, Leads, Start
<1>7. /\ At(s0, s, {k}, {}) /\ s.obj[k] = Found(s0, k)
      /\ \A j \in Keys \ {k} : s.obj[j] = s0.obj[j]
  BY <1>2, <1>4, LookedUp DEF Leads
<1>8. Looks(s0, s, k)
  BY <1>7 DEF Looks
<1>9. s.mode = s0.mode /\ s.clock = s0.clock
  BY <1>7 DEF At
<1>10. \A j \in Keys : Found(s, j) = Found(s0, j)
  BY <1>7, <1>9, FoundFacts
<1>11. Alike(s, i)
  BY <1>2, <1>10 DEF Alike
<1>12. Found(s0, k) = Nil
  BY <1>5 DEF Found
<1>13. Small(s.obj)
  BY <1>2, <1>7, <1>12, NilFacts DEF Small, LeaderInv
<1>14. Table0(i) /\ i.mode = "leader" /\ i.clock = clock
  BY <1>2, StartTable DEF Leads
<1>15. QED BY <1>0, <1>1, <1>4, <1>5, <1>6, <1>8, <1>11, <1>13, <1>14

\* The active expiry keeps LeaderInv.
LEMMA SampleLeader ==
  ASSUME LeaderInv, NEW k \in Keys, expireSample(k)
  PROVE  LeaderInv'
BY SampleIs, AtMoves, StepLeader DEF Looks

\* An eviction removes its key from both keyspaces.
LEMMA EvictIs ==
  ASSUME LeaderInv, NEW k \in Keys, evictOne(k)
  PROVE  \E clock, n, s0, s, i :
           /\ Runs(clock, n) /\ s0 = Call(db, "leader", clock) /\ Moves(s0, s) /\ Small(s.obj)
           /\ s.obj[k] = Nil /\ \A j \in Keys \ {k} : s.obj[j] = db.obj[j]
           /\ Table0(i) /\ i.mode = "leader" /\ i.clock = clock /\ Alike(s, i)
           /\ Step(s, <<Command("DEL", k)>>, i, n)
<1>0. PICK clock, n : clock = Steady(now) /\ n = now /\ Runs(clock, n)
  BY SteadyRuns
<1>1. PICK s0, i0 : s0 = Call(db, "leader", clock) /\ i0 = Call(ideal, "leader", clock)
  OBVIOUS
<1>2. /\ Leads(s0, clock) /\ s0.obj = db.obj
      /\ Leads(i0, clock) /\ Alike(s0, i0)
  BY <1>0, <1>1, StepCalls
<1>3. PICK l, t, i : l = <<Command("DEL", k)>> /\ t = touched(removeLocked(s0, k), k) /\ i = removeLocked(i0, k)
  OBVIOUS
<1>4. PICK s : s = [t EXCEPT !.log = l]
  OBVIOUS
<1>5. s.log = l /\ Step(s, s.log, i, n)
  <2>1. Wrote(s0, t, k, Nil)
    BY <1>2, <1>3, RemoveWrites, StartTable DEF Leads
  <2>2. s.log = l
    BY <1>4, <2>1 DEF Wrote, IsCall
  <2>3. s = [touched(removeLocked(s0, k), k) EXCEPT !.log = <<Command("DEL", k)>>]
    BY <1>3, <1>4
  <2>4. Step(s, s.log, i, n)
    BY <1>0, <1>1, <1>3, <2>3, Zenon DEF evictOne
  <2>5. QED BY <2>2, <2>4
<1>6. Wrote(s0, t, k, Nil)
  BY <1>2, <1>3, RemoveWrites, StartTable DEF Leads
<1>7. Table0(t) /\ t.obj[k] = Nil /\ \A j \in Keys \ {k} : t.obj[j] = s0.obj[j]
  BY <1>2, <1>6, WroteTable, WroteObj, NilFacts, StartTable DEF Leads, Table0
<1>8. /\ IsCall(s) /\ s.obj = t.obj /\ s.ttl = t.ttl /\ s.mem = t.mem /\ s.mode = t.mode
      /\ s.clock = t.clock /\ s.sig = t.sig
  BY <1>4, <1>6 DEF IsCall, Wrote
<1>9. Table0(s)
  BY <1>7, <1>8 DEF Table0
<1>10. s.mode = "leader" /\ s.clock = clock /\ k \in s.sig
  BY <1>2, <1>6, <1>8 DEF Wrote, Leads
<1>11. Moves(s0, s)
  BY <1>2, <1>7, <1>8, <1>9, <1>10 DEF Moves, Leads
<1>12. Stored(i0, i, k, Nil)
  <2>1. Table0(i0)
    BY <1>2, StartTable DEF Leads
  <2>2. objectSize(i0.obj[k]) \in Int
    BY <2>1, SizeType DEF Table0, Whole
  <2>3. QED BY <1>3, <2>1, <2>2, RemoveFields DEF Table0
<1>13. Table0(i) /\ i.obj[k] = Nil /\ i.mode = "leader" /\ i.clock = clock
  <2>1. Table0(i) /\ i.obj[k] = Nil
    BY <1>2, <1>12, StoredTable, StartTable, NilFacts DEF Leads
  <2>2. QED BY <1>2, <1>12, <2>1 DEF Stored, Leads
<1>14. \A j \in Keys \ {k} : i.obj[j] = i0.obj[j]
  BY <1>2, <1>12 DEF Stored, Leads, Start, Whole
<1>15. Alike(s, i)
  <2>1. ASSUME NEW j \in Keys PROVE Found(s, j) = Found(i, j)
    <3>1. CASE j = k
      <4>1. s.obj[j] = Nil /\ i.obj[j] = Nil
        BY <1>7, <1>8, <1>13, <3>1
      <4>2. QED BY <4>1 DEF Found
    <3>2. CASE j # k
      <4>1. s.obj[j] = s0.obj[j] /\ i.obj[j] = i0.obj[j]
        BY <1>7, <1>8, <1>14, <3>2
      <4>2. Found(s, j) = Found(s0, j)
        BY <1>2, <1>10, <4>1, FoundFacts DEF Leads
      <4>3. Found(i, j) = Found(i0, j)
        BY <1>2, <1>13, <4>1, FoundFacts DEF Leads
      <4>4. QED BY <1>2, <4>2, <4>3 DEF Alike
    <3>3. QED BY <3>1, <3>2
  <2>2. QED BY <2>1 DEF Alike
<1>16. Small(s.obj)
  BY <1>2, <1>7, <1>8, NilFacts DEF Small, LeaderInv
<1>17. QED BY <1>0, <1>1, <1>2, <1>3, <1>5, <1>7, <1>8, <1>11, <1>13, <1>15, <1>16

\* An eviction keeps LeaderInv.
LEMMA EvictLeader ==
  ASSUME LeaderInv, NEW k \in Keys, evictOne(k)
  PROVE  LeaderInv'
BY EvictIs, StepLeader

\* The passing of time keeps LeaderInv.
LEMMA TickLeader ==
  ASSUME LeaderInv, Tick
  PROVE  LeaderInv'
<1>1. now \in Nat /\ now + 1 \in 1 .. MaxNow
  BY EffectsAssumption DEF LeaderInv, Tick
<1>2. db' = db /\ seen' = seen /\ now' = now + 1 /\ ideal' = Purged(ideal, now + 1)
  BY DEF Tick
<1>3. GoodTable(ideal') /\ DOMAIN ideal' = Fields /\ ideal'.obj = Visible(ideal.obj, now + 1)
  BY <1>2, PurgedGood DEF LeaderInv
<1>4. Visible(ideal.obj, now + 1) = Visible(db.obj, now + 1)
  BY <1>1, VisibleTwice DEF LeaderInv, GoodTable
<1>5. GoodTable(db) /\ Small(db.obj) /\ seen = db.obj
  BY DEF LeaderInv
<1>6. ideal'.obj = Visible(db'.obj, now')
  BY <1>2, <1>3, <1>4
<1>7. GoodTable(db') /\ Small(db'.obj) /\ seen' = db'.obj
  BY <1>2, <1>5
<1>8. QED BY <1>1, <1>2, <1>3, <1>6, <1>7 DEF LeaderInv

\* The empty table is a table.
LEMMA EmptyGood == GoodTable(Empty) /\ DOMAIN Empty = Fields /\ \A k \in Keys : Empty.obj[k] = Nil
<1>1. /\ Empty.obj = [k \in Keys |-> Nil] /\ Empty.ttl = {} /\ Empty.mem = 0
      /\ DOMAIN Empty = Fields
  BY DEF Empty, Fields
<1>2. Whole(Empty.obj)
  BY <1>1, NilFacts DEF Whole
<1>3. Indexed(Empty.obj) = {}
  BY <1>1, NilFacts DEF Indexed
<1>4. QED BY <1>1, <1>2, <1>3 DEF GoodTable

\* LeaderInv holds of the empty keyspaces.
LEMMA InitLeader == Init => LeaderInv
<1> SUFFICES ASSUME Init PROVE LeaderInv
  OBVIOUS
<1>1. db = Empty /\ seen = Empty.obj /\ ideal = Empty /\ now = 1
  BY DEF Init
<1>2. Small(Empty.obj)
  BY EmptyGood, NilFacts DEF Small
<1>3. Visible(Empty.obj, 1) = Empty.obj
  BY EmptyGood DEF Visible, GoodTable, Whole
<1>4. now \in 1 .. MaxNow
  BY <1>1, EffectsAssumption
<1>5. GoodTable(Empty) /\ DOMAIN Empty = Fields
  BY EmptyGood
<1>6. QED BY <1>1, <1>2, <1>3, <1>4, <1>5 DEF LeaderInv

\* Every step is a command, an expiry, an eviction or a tick of the clock.
LEMMA NextIs ==
  ASSUME Next
  PROVE  \/ \E c \in Commands : Execute(c)
         \/ \E k \in Keys : expireSample(k)
         \/ \E k \in Keys : evictOne(k)
         \/ Tick
BY DEF Next, Commands

\* Every step keeps LeaderInv.
LEMMA NextLeader ==
  ASSUME ~SplitReadings
  PROVE  LeaderInv /\ [Next]_vars => LeaderInv'
<1> SUFFICES ASSUME LeaderInv, [Next]_vars PROVE LeaderInv'
  OBVIOUS
<1>1. CASE Next
  BY <1>1, NextIs, ExecuteLeader, SampleLeader, EvictLeader, TickLeader
<1>2. CASE UNCHANGED vars
  <2>1. db' = db /\ seen' = seen /\ ideal' = ideal /\ now' = now
    BY <1>2 DEF vars
  <2>2. LeaderInv' = LeaderInv
    BY <2>1, Zenon DEF LeaderInv
  <2>3. QED BY <2>2
<1>3. QED BY <1>1, <1>2

\* LeaderInv always holds, however the copy executes the effects: the leader's table stays a table
\* with its TTL index exact, and the client that rereads keys knows it.
THEOREM LeaderSound ==
  ASSUME ~SplitReadings
  PROVE  Spec => []LeaderInv
BY InitLeader, NextLeader, PTL DEF Spec

\* No command, expiry or eviction changes a key, its value or its instant, without signalling it
\* (DB.touched of engine/keyspace.go), for any keys, elements, instants and bounds.
THEOREM SignalsHold ==
  ASSUME ~SplitReadings
  PROVE  Spec => []SignalsEveryChange
<1>1. LeaderInv => SignalsEveryChange
  BY DEF LeaderInv, SignalsEveryChange
<1>2. QED BY <1>1, LeaderSound, PTL

-----------------------------------------------------------------------------
(* The copy that loads the log.                                            *)

\* What the copy holds: the leader's table.
CopyInv == GoodTable(copy) /\ copy.obj = db.obj

\* The log of a command, loaded, makes the leader's table of it.
LEMMA ExecuteCopy ==
  ASSUME CopyMode = "loading", ~SplitReadings, LeaderInv, CopyInv, NEW c \in Commands, Execute(c)
  PROVE  CopyInv'
<1>1. PICK clock, n, s0, s, i :
        /\ Runs(clock, n) /\ s0 = Call(db, "leader", clock) /\ s = Handler(s0, c)
        /\ Faithful(c, s0) /\ Moves(s0, s)
        /\ Step(s, s.log \o Logged(s, c), i, n)
  BY ExecuteIs
<1>2. Leads(s0, clock) /\ s0.obj = db.obj
  BY <1>1, StepCalls
<1>3. PICK R, W : /\ R \subseteq Keys /\ At(s0, s, R, W)
                  /\ \/ W = {} /\ Logged(s, c) = <<>>
                     \/ \E e : Logged(s, c) = <<e>> /\ Redoes(e, s0, s, R)
  BY <1>1 DEF Faithful
<1>4. PICK tail : tail = Logged(s, c)
  OBVIOUS
<1>5. copy' = Replayed(copy, s.log \o tail) /\ db' = Table(s)
  BY <1>1, <1>4 DEF Step
<1>6. PICK g : g = Replayed(copy, s.log \o tail)
  OBVIOUS
<1>7. GoodTable(copy) /\ s0.obj = copy.obj /\ Start(s0)
  BY <1>2 DEF CopyInv, Leads
<1>8. GoodTable(g) /\ g.obj = s.obj
  <2>1. Tells(s0, s, R, W, tail)
    BY <1>3, <1>4 DEF Tells
  <2>2. QED BY ONLY CopyMode = "loading", <1>6, <1>7, <2>1, ReplayStep
<1>9. db'.obj = s.obj
  BY <1>1, <1>5, TableGood DEF Moves
<1>10. QED BY <1>5, <1>6, <1>8, <1>9 DEF CopyInv

\* So does that of an active expiry.
LEMMA SampleCopy ==
  ASSUME CopyMode = "loading", LeaderInv, CopyInv, NEW k \in Keys, expireSample(k)
  PROVE  CopyInv'
<1>1. PICK clock, n, s0, s, i :
        /\ Runs(clock, n) /\ s0 = Call(db, "leader", clock) /\ Looks(s0, s, k) /\ Step(s, s.log, i, n)
  BY SampleIs
<1>2. Leads(s0, clock) /\ s0.obj = db.obj
  BY <1>1, StepCalls
<1>3. At(s0, s, {k}, {}) /\ Moves(s0, s)
  BY <1>1, AtMoves DEF Looks
<1>4. s.log \o <<>> = s.log
  <2>1. PICK C : s.log \in Seq(C)
    BY <1>3 DEF At, Reaps
  <2>2. QED BY <2>1
<1>5. PICK tail : tail = <<>>
  OBVIOUS
<1>0. PICK g : g = Replayed(copy, s.log \o tail)
  OBVIOUS
<1>6. GoodTable(copy) /\ s0.obj = copy.obj /\ Start(s0)
  BY <1>2 DEF CopyInv, Leads
<1>7. PICK R, W : R = {k} /\ W = {}
  OBVIOUS
<1>8. GoodTable(g) /\ g.obj = s.obj
  <2>1. Tells(s0, s, R, W, tail)
    BY <1>3, <1>5, <1>7 DEF Tells
  <2>2. QED BY ONLY CopyMode = "loading", <1>0, <1>6, <2>1, ReplayStep
<1>9. copy' = g /\ db' = Table(s)
  BY <1>0, <1>1, <1>4, <1>5 DEF Step
<1>10. db'.obj = s.obj
  BY <1>3, <1>9, TableGood DEF Moves
<1>11. QED BY <1>8, <1>9, <1>10 DEF CopyInv

\* So does that of an eviction.
LEMMA EvictCopy ==
  ASSUME CopyMode = "loading", LeaderInv, CopyInv, NEW k \in Keys, evictOne(k)
  PROVE  CopyInv'
<1>1. PICK clock, n, s0, s, i :
        /\ Runs(clock, n) /\ s0 = Call(db, "leader", clock) /\ Moves(s0, s)
        /\ s.obj[k] = Nil /\ \A j \in Keys \ {k} : s.obj[j] = db.obj[j]
        /\ Step(s, <<Command("DEL", k)>>, i, n)
  BY EvictIs
<1>2. PICK D, log : D = {k} /\ log = <<Command("DEL", k)>>
  OBVIOUS
<1>3. D \subseteq Keys /\ Reaps(log, D) /\ Len(log) = 1
  BY <1>2 DEF Reaps
<1>4. PICK g, f : g = Replayed(copy, log) /\ Replays(f, copy, log, Len(log)) /\ g = f[Len(log)]
  BY <1>3, ReplayedIs
<1>5. GoodTable(g) /\ \A j \in Keys : g.obj[j] = IF j \in D THEN Nil ELSE copy.obj[j]
  <2>1. GoodTable(copy) /\ Len(log) \in Nat /\ Len(log) <= Len(log)
    BY <1>3 DEF CopyInv
  <2>2. PICK m, d, dels : m = Len(log) /\ d = copy /\ dels = log
    OBVIOUS
  <2>3. /\ m \in Nat /\ Len(dels) <= m /\ Replays(f, d, log, m) /\ GoodTable(d)
        /\ Reaps(dels, D) /\ g = f[Len(dels)] /\ \A j \in 1 .. Len(dels) : log[j] = dels[j]
    BY <1>3, <1>4, <2>1, <2>2
  <2>4. GoodTable(g) /\ \A j \in Keys : g.obj[j] = IF j \in D THEN Nil ELSE d.obj[j]
    BY ONLY CopyMode = "loading", <1>3, <2>3, LoadDels
  <2>5. QED BY <2>2, <2>4
<1>6. copy' = g /\ db' = Table(s)
  BY <1>1, <1>2, <1>4 DEF Step
<1>7. db'.obj = s.obj /\ Whole(s.obj)
  BY <1>1, <1>6, TableGood DEF Moves, Table0
<1>8. \A j \in Keys : g.obj[j] = s.obj[j]
  BY <1>1, <1>2, <1>5 DEF CopyInv
<1>9. g.obj = s.obj
  BY <1>5, <1>7, <1>8 DEF GoodTable, Whole
<1>10. QED BY <1>5, <1>6, <1>7, <1>9 DEF CopyInv

\* Every step keeps CopyInv.
LEMMA NextCopy ==
  ASSUME CopyMode = "loading", ~SplitReadings
  PROVE  LeaderInv /\ CopyInv /\ [Next]_vars => CopyInv'
<1> SUFFICES ASSUME LeaderInv, CopyInv, [Next]_vars PROVE CopyInv'
  OBVIOUS
<1>1. CASE Tick \/ UNCHANGED vars
  <2>1. db' = db /\ copy' = copy
    BY <1>1 DEF Tick, vars
  <2>2. CopyInv' = CopyInv
    BY <2>1, Zenon DEF CopyInv
  <2>3. QED BY <2>2
<1>2. CASE Next
  BY <1>1, <1>2, NextIs, ExecuteCopy, SampleCopy, EvictCopy
<1>3. QED BY <1>1, <1>2

\* CopyInv holds of the empty keyspaces.
LEMMA InitCopy == Init => CopyInv
<1> SUFFICES ASSUME Init PROVE CopyInv
  OBVIOUS
<1>1. copy = Empty /\ db = Empty
  BY DEF Init
<1>2. QED BY <1>1, EmptyGood DEF CopyInv

\* A keyspace that has loaded the log always holds the leader's table.
THEOREM CopySound ==
  ASSUME CopyMode = "loading", ~SplitReadings
  PROVE  Spec => [](LeaderInv /\ CopyInv)
<1>1. LeaderInv /\ CopyInv /\ [Next]_vars => CopyInv'
  BY NextCopy
<1>2. QED BY <1>1, InitCopy, InitLeader, NextLeader, PTL DEF Spec

\* The log is replay-safe (ADR-008): a keyspace that loads it holds the objects, values, instants
\* and TTL index of the leader that wrote it, whatever conditional, relative, random or clock-
\* dependent commands, expiries and evictions made it.
THEOREM ReplayHolds ==
  ASSUME CopyMode = "loading", ~SplitReadings
  PROVE  Spec => []ReplaySafe
<1>1. LeaderInv /\ CopyInv => ReplaySafe
  BY DEF LeaderInv, CopyInv, ReplaySafe, GoodTable
<1>2. QED BY <1>1, CopySound, PTL

\* The table of the proof satisfies the type invariant.
LEMMA GoodIsTable ==
  ASSUME NEW d, GoodTable(d), Small(d.obj)
  PROVE  IsTable(d)
<1>1. ASSUME NEW k \in Keys
      PROVE  /\ d.obj[k].type \in Payloads /\ d.obj[k].at \in 0 .. MaxNow + 1
             /\ d.obj[k].type \in {"set", "hash", "zset"} => DOMAIN d.obj[k].val \subseteq Elems
  <2>1. GoodObj(d.obj[k])
    BY DEF GoodTable, Whole
  <2>2. d.obj[k].type \in {"set", "hash", "zset"} => DOMAIN d.obj[k].val \subseteq Elems
    BY <2>1, NilFacts DEF GoodObj, Proper, Shape
  <2>3. QED BY <2>1, <2>2, GoodFacts
<1>2. DOMAIN d.obj = Keys
  BY DEF GoodTable, Whole
<1>3. QED BY <1>1, <1>2 DEF IsTable, GoodTable, Indexed, Small

\* A table without its expired keys is no larger.
LEMMA VisibleSmall ==
  ASSUME NEW obj, Small(obj), NEW n
  PROVE  Small(Visible(obj, n))
BY NilFacts DEF Small, Visible

\* What LeaderInv says of the leader's keyspace, in the terms of the properties.
LEMMA LeaderKeyspace ==
  ASSUME LeaderInv
  PROVE  /\ IsTable(db) /\ IsTable(ideal) /\ DOMAIN seen = Keys /\ now \in 1 .. MaxNow
         /\ IndexExact /\ NoEmptyCollection /\ ExpiredIsAbsent
<1>1. IsTable(db)
  BY GoodIsTable DEF LeaderInv
<1>2. IsTable(ideal)
  BY GoodIsTable, VisibleSmall DEF LeaderInv
<1>3. NoEmptyCollection
  <2>1. ASSUME NEW k \in Keys, db.obj[k].type \in {"list", "set", "hash", "zset"}
        PROVE  DOMAIN db.obj[k].val # {}
    <3>1. GoodObj(db.obj[k])
      BY DEF LeaderInv, GoodTable, Whole
    <3>2. QED BY <2>1, <3>1, NilFacts DEF GoodObj, Proper, Shape
  <2>2. QED BY <2>1 DEF NoEmptyCollection
<1>4. QED BY <1>1, <1>2, <1>3 DEF LeaderInv, IsTable, IndexExact, ExpiredIsAbsent, GoodTable, Indexed

\* The tables are tables, the TTL index lists exactly the keys with an instant (store and
\* setExpireLocked of engine/keyspace.go), no collection is left empty (finishWrite of
\* engine/collection.go), and an expired key is indistinguishable from an absent one (lookup and
\* expired), while the copy loads the log.
THEOREM KeyspaceHolds ==
  ASSUME CopyMode = "loading", ~SplitReadings
  PROVE  Spec => []KeyspaceSound
<1>1. LeaderInv /\ CopyInv => KeyspaceSound
  <2> SUFFICES ASSUME LeaderInv, CopyInv PROVE KeyspaceSound
    OBVIOUS
  <2>1. IsTable(copy)
    BY GoodIsTable DEF LeaderInv, CopyInv
  <2>2. QED BY <2>1, LeaderKeyspace DEF KeyspaceSound, TypeOK
<1>2. QED BY <1>1, CopySound, PTL
=============================================================================
