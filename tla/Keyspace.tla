------------------------------ MODULE Keyspace ------------------------------
(***************************************************************************)
(* The object table of one database and the primitives every write goes    *)
(* through: store, removeLocked, setExpireLocked, lookup with its lazy     *)
(* reaping, newCollection and finishWrite.  They are operators on a CALL,  *)
(* the state one command works on while it holds its shard: the objects,   *)
(* the TTL index and the memory estimate, plus what the command has        *)
(* emitted, signalled and decided so far.                                  *)
(*                                                                         *)
(* A value is abstracted to a function.  A string is the sequence of its   *)
(* characters, a list the sequence of its elements, a hash the function    *)
(* from its fields to their values, a sorted set the function from its     *)
(* members to their scores, and a set the function that maps each member   *)
(* to 1, the score a plain set contributes where a sorted set is expected. *)
(* How a value is encoded (listpack, intset, skiplist...) is left out.     *)
(***************************************************************************)
EXTENDS Integers, Sequences, FiniteSets, SequencesExt

CONSTANTS
  Keys,        \* the keys of the database
  Accounting   \* whether the memory estimate is followed (TRUE) or left at 0

Types == {"string", "list", "set", "hash", "zset"}

(* No object: what the table holds for a key that does not exist. *)
Nil == [type |-> "none", at |-> 0, val |-> <<>>]

Object(t, at, val) == [type |-> t, at |-> at, val |-> val]

(* The cost of an entry: its header, its entry in the TTL index if it has  *)
(* one, and one per element of its value.                                  *)
objectSize(o) ==
  IF o = Nil THEN 0
             ELSE 1 + (IF o.at > 0 THEN 1 ELSE 0) + Cardinality(DOMAIN o.val)

(***************************************************************************)
(* Commands, and the effects they are logged as: both are argument lists.  *)
(* key is the key written, dst a second key, val a value, n a number       *)
(* (an instant, an index, a delta) and opts the options given.             *)
(***************************************************************************)
Command(name, key) ==
  [name |-> name, key |-> key, dst |-> key, val |-> <<>>, n |-> 0, opts |-> {}]

(***************************************************************************)
(* The clock a call reads is a cached instant that a ticker moves, and it  *)
(* is read anew for each lookup: start is what it showed when the call     *)
(* began, at[k] what it showed when k was last looked up, and later[k]     *)
(* what it will show the next times (the last reading holds from then on). *)
(***************************************************************************)
Steady(n) ==
  [start |-> n, at |-> [k \in Keys |-> n], later |-> [k \in Keys |-> <<>>]]

(* A call starts from the table of a keyspace in one of three modes: a     *)
(* leader, a replica, or a keyspace that is loading a log.                 *)
Call(d, mode, clock) ==
  [obj |-> d.obj, ttl |-> d.ttl, mem |-> d.mem, mode |-> mode, clock |-> clock,
   log |-> <<>>, sig |-> {}, dirty |-> FALSE, eff |-> <<>>, res |-> FALSE,
   err |-> FALSE]

(* The instant last read for a key, and the call after one more reading. *)
Now(s, k) == s.clock.at[k]

Reading(s, k) ==
  IF s.clock.later[k] = <<>>
    THEN s
    ELSE [s EXCEPT !.clock.at[k] = Head(s.clock.later[k]), !.clock.later[k] = Tail(@)]

(* What is left in the keyspace once the call is over. *)
Table(s) == [obj |-> s.obj, ttl |-> s.ttl, mem |-> s.mem]

Return(s, r) == [s EXCEPT !.res = r]
Fail(s) == [s EXCEPT !.err = TRUE, !.res = FALSE]

(* The change counter of a handler, and its explicit replacement effect. *)
Dirty(s) == [s EXCEPT !.dirty = TRUE]
Propagate(s, e) == [s EXCEPT !.dirty = TRUE, !.eff = Append(@, e)]

(* The usual handler: a method that did something made the call dirty. *)
Reported(s) == IF s.res THEN Dirty(s) ELSE s

Charge(s, n) == IF Accounting THEN [s EXCEPT !.mem = @ + n] ELSE s

(***************************************************************************)
(* The table.                                                              *)
(***************************************************************************)
(* A store that leaves the TTL index alone when the new object has none. *)
store_KeepsIndex(s, k, o) ==
  Charge([s EXCEPT !.obj[k] = o,
                   !.ttl = IF o.at > 0 THEN @ \cup {k} ELSE @],
         objectSize(o) - objectSize(s.obj[k]))

store(s, k, o) ==
  Charge([s EXCEPT !.obj[k] = o,
                   !.ttl = CASE o.at > 0 -> @ \cup {k}
                             [] o.at = 0 /\ s.obj[k].at > 0 -> @ \ {k}
                             [] OTHER -> @],
         objectSize(o) - objectSize(s.obj[k]))

removeLocked(s, k) ==
  Charge([s EXCEPT !.obj[k] = Nil, !.ttl = @ \ {k}], -objectSize(s.obj[k]))

setExpireLocked(s, k, at) ==
  [s EXCEPT !.obj[k].at = at,
            !.ttl = IF at > 0 THEN @ \cup {k} ELSE @ \ {k}]

touched(s, k) == [s EXCEPT !.sig = @ \cup {k}]

(* A key past its instant, in a keyspace that is not loading a log. *)
Due(o, now) == o.at # 0 /\ o.at <= now

(* A comparison that gives a key the instant it expires at. *)
expired_Late(s, k) ==
  s.obj[k].at # 0 /\ s.obj[k].at < Now(s, k) /\ s.mode # "loading"

expired(s, k) == Due(s.obj[k], Now(s, k)) /\ s.mode # "loading"

(* Reaping a key: its deletion is logged before anything the command that  *)
(* found it expired will log.                                              *)
expireKey(s, k) ==
  touched([removeLocked(s, k) EXCEPT !.log = Append(@, Command("DEL", k))], k)

(* lookup is two operators: what it does to the table, and what it returns *)
(* to its caller.  A replica only hides the expired key.                   *)
Reaped(s, k) ==
  IF expired(s, k) /\ s.mode = "leader" THEN expireKey(s, k) ELSE s

lookup(s, k) == Reaped(Reading(s, k), k)

Found(s, k) == IF expired(s, k) THEN Nil ELSE s.obj[k]

(* typed: an object of another type is an error, a missing one is not. *)
WrongType(o, t) == o.type \notin {"none", t}

(***************************************************************************)
(* Collections.  The value is changed in place, and finishWrite removes a  *)
(* key left empty; its memory adjustment compares the object with itself,  *)
(* changed already.                                                        *)
(***************************************************************************)
newCollection(s, k, t) == store(s, k, Object(t, 0, <<>>))

(* A finishWrite that leaves the emptied key behind. *)
finishWrite_KeepsEmpty(s, k) == touched(s, k)

(* A finishWrite that removes the emptied key and tells nobody. *)
finishWrite_Quiet(s, k) ==
  IF DOMAIN s.obj[k].val = {} THEN removeLocked(s, k) ELSE touched(s, k)

finishWrite(s, k) ==
  LET prev == objectSize(s.obj[k]) IN
  IF DOMAIN s.obj[k].val = {}
    THEN touched(removeLocked(s, k), k)
    ELSE touched(Charge(s, objectSize(s.obj[k]) - prev), k)

(* The shape most collection writes share: the collection is created if it *)
(* was not found, its value changed and the write finished.                *)
Change(s, k, t, val) ==
  LET made == IF Found(s, k) = Nil THEN newCollection(s, k, t) ELSE s
  IN  finishWrite([made EXCEPT !.obj[k].val = val], k)

(* The shape the STORE commands share: the destination is looked up and    *)
(* removed, and a collection without elements is not stored.               *)
Replace(s, k, t, val) ==
  LET found   == lookup(s, k)
      removed == IF Found(found, k) # Nil THEN removeLocked(found, k) ELSE found
  IN  IF DOMAIN val = {}
        THEN touched(removed, k)
        ELSE finishWrite([newCollection(removed, k, t) EXCEPT !.obj[k].val = val], k)
=============================================================================
