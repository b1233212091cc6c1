----------------------------- MODULE StringOps ------------------------------
(***************************************************************************)
(* The string commands and the commands on whole keys: the engine's        *)
(* methods (Set, Append, Rename...) and the handlers that call them        *)
(* (cmdSet...), which decide what reaches the log.  Every operator takes   *)
(* a call and returns it changed; a method leaves its answer in res.       *)
(*                                                                         *)
(* A string is a sequence of characters.  The digits are characters, and   *)
(* the integers of the model, 0..MaxInt, are the ones a single digit       *)
(* writes: any longer text is out of range.                                *)
(***************************************************************************)
EXTENDS Keyspace

CONSTANTS
  MaxInt,           \* the largest integer (and the largest finite float)
  MaxStringLength   \* the longest string

Pad == -1           \* the zero byte SETRANGE fills a gap with
Inf == MaxInt + 1   \* a float that is not finite

IsNumber(v) == Len(v) = 1 /\ v[1] \in 0..MaxInt
Digits(n) == <<n>>

(***************************************************************************)
(* Strings in the engine.                                                  *)
(***************************************************************************)
Set(s, k, val, opts, at) ==
  LET t   == lookup(s, k)
      old == Found(t, k)
      when == CASE at > 0 -> at
                [] at = 0 /\ "KEEPTTL" \in opts -> old.at
                [] OTHER -> 0
      refused == \/ "GET" \in opts /\ WrongType(old, "string")
                 \/ "NX" \in opts /\ old # Nil
                 \/ "XX" \in opts /\ old = Nil
  IN  CASE Len(val) > MaxStringLength -> Return(s, FALSE)
        [] Len(val) <= MaxStringLength /\ refused -> Return(t, FALSE)
        [] OTHER -> Return(touched(store(t, k, Object("string", when, val)), k), TRUE)

GetDel(s, k) ==
  LET t == lookup(s, k) IN
  IF Found(t, k).type # "string"
    THEN Return(t, FALSE)
    ELSE Return(touched(removeLocked(t, k), k), TRUE)

(* The clock is read again to tell whether the instant has passed. *)
reDate(s, k, at) ==
  touched(IF at <= Now(s, k) THEN removeLocked(s, k) ELSE setExpireLocked(s, k, at), k)

GetEx(s, k, at, persist) ==
  LET t == lookup(s, k)
      o == Found(t, k)
  IN  CASE o.type # "string" -> Return(t, FALSE)
        [] o.type = "string" /\ persist ->
             Return(IF o.at # 0 THEN touched(setExpireLocked(t, k, 0), k) ELSE t, TRUE)
        [] o.type = "string" /\ ~persist /\ at > 0 ->
             Return(reDate(Reading(t, k), k, at), TRUE)
        [] OTHER -> Return(t, TRUE)

(* A value replaced in an existing object keeps the instant it expires at. *)
replaceValue(s, k, val) ==
  touched(store(s, k, Object("string", Found(s, k).at, val)), k)

(* APPEND's answer is whether it wrote: every call that does not fail does. *)
AppendTo(s, k, val) ==
  LET t == lookup(s, k)
      o == Found(t, k)
  IN  IF WrongType(o, "string") \/ Len(o.val) + Len(val) > MaxStringLength
        THEN Return(t, FALSE)
        ELSE Return(replaceValue(t, k, o.val \o val), TRUE)

SetRange(s, k, offset, val) ==
  LET t    == lookup(s, k)
      o    == Found(t, k)
      end  == offset + Len(val)
      next == [i \in 1..(IF end > Len(o.val) THEN end ELSE Len(o.val)) |->
                 CASE i > offset /\ i <= end -> val[i - offset]
                   [] i <= offset /\ i > Len(o.val) -> Pad
                   [] OTHER -> o.val[i]]
  IN  IF end > MaxStringLength
        THEN Return(s, FALSE)
        ELSE IF WrongType(o, "string") \/ val = <<>>
               THEN Return(t, FALSE)
               ELSE Return(replaceValue(t, k, next), TRUE)

(* A missing key counts from zero. *)
IncrBy(s, k, delta) ==
  LET t   == lookup(s, k)
      o   == Found(t, k)
      cur == IF o = Nil THEN 0 ELSE o.val[1]
  IN  IF \/ WrongType(o, "string")
         \/ o # Nil /\ ~IsNumber(o.val)
         \/ cur + delta \notin 0..MaxInt
        THEN Return(t, FALSE)
        ELSE Return(replaceValue(t, k, Digits(cur + delta)), TRUE)

(* INCRBYFLOAT leaves the value it rendered as its answer, <<>> when it fails. *)
IncrByFloat(s, k, delta) ==
  LET t == IncrBy(s, k, delta)
  IN  Return(t, IF t.res THEN t.obj[k].val ELSE <<>>)

(* Every pair is written and signalled in turn. *)
MSet(s, k1, k2, val) ==
  LET setOne(t, k) == touched(store(t, k, Object("string", 0, val)), k)
  IN  setOne(setOne(s, k1), k2)

(* The keys are looked up in order until one is found: the ones reaped on  *)
(* the way stay reaped.                                                    *)
MSetNX(s, k1, k2, val) ==
  LET t == lookup(s, k1)
      u == lookup(t, k2)
  IN  CASE Found(t, k1) # Nil -> Return(t, FALSE)
        [] Found(t, k1) = Nil /\ Found(u, k2) # Nil -> Return(u, FALSE)
        [] OTHER -> Return(MSet(u, k1, k2, val), TRUE)

(***************************************************************************)
(* Whole keys in the engine.                                               *)
(***************************************************************************)
(* One key of a DEL: the call answers whether any was there. *)
delOne(s, k) ==
  LET t == lookup(s, k)
  IN  IF Found(t, k) = Nil THEN t
                           ELSE Return(touched(removeLocked(t, k), k), TRUE)

Del(s, k1, k2) == delOne(delOne(Return(s, FALSE), k1), k2)

Rename(s, src, dst, nx) ==
  LET t == lookup(s, src)
      o == Found(t, src)
      u == IF nx THEN lookup(t, dst) ELSE t
  IN  CASE o = Nil -> Return(t, "nokey")
        [] o # Nil /\ nx /\ Found(u, dst) # Nil -> Return(u, "exists")
        [] o # Nil /\ ~nx /\ src = dst -> Return(t, "ok")
        [] OTHER -> Return(touched(touched(store(removeLocked(u, src), dst, o),
                                           src), dst), "ok")

copyLocked(s, src, dst, replace) ==
  LET t == lookup(s, src)
      o == Found(t, src)
      u == IF replace THEN t ELSE lookup(t, dst)
  IN  CASE o = Nil -> Return(t, FALSE)
        [] o # Nil /\ ~replace /\ Found(u, dst) # Nil -> Return(u, FALSE)
        [] OTHER -> Return(touched(store(u, dst, o), dst), TRUE)

expireConditionMet(current, next, flags) ==
  IF "NX" \in flags
    THEN current = 0
    ELSE /\ "XX" \in flags => current # 0
         /\ "GT" \in flags => current # 0 /\ next > current
         /\ "LT" \in flags => current = 0 \/ next < current

(* Expire answers what it did: nothing, a new instant, or a deletion. *)
Expire(s, k, at, flags) ==
  LET t == lookup(s, k)
      o == Found(t, k)
  IN  IF o = Nil \/ ~expireConditionMet(o.at, at, flags)
        THEN Return(t, "no")
        ELSE IF at <= Now(Reading(t, k), k) /\ t.mode # "loading"
               THEN Return(touched(removeLocked(t, k), k), "deleted")
               ELSE Return(touched(setExpireLocked(t, k, at), k), "set")

Persist(s, k) ==
  LET t == lookup(s, k) IN
  IF Found(t, k).at = 0
    THEN Return(t, FALSE)
    ELSE Return(touched(setExpireLocked(t, k, 0), k), TRUE)

(***************************************************************************)
(* The handlers.  An instant is given relative to the clock (PX) or        *)
(* absolutely (PXAT), and is absolute from here on.                        *)
(***************************************************************************)
(* A conversion that takes every instant to be relative. *)
absoluteExpiry_Relative(s, c) == IF c.n > 0 THEN c.n + s.clock.start ELSE 0

absoluteExpiry(s, c) == IF "PX" \in c.opts THEN c.n + s.clock.start ELSE c.n

propagateSet(s, c, at) ==
  Propagate(s, [Command("SET", c.key) EXCEPT
                  !.val  = c.val,
                  !.n    = at,
                  !.opts = CASE at > 0 -> {"PXAT"}
                             [] at = 0 /\ "KEEPTTL" \in c.opts -> {"KEEPTTL"}
                             [] OTHER -> {}])

cmdSet(s, c) ==
  LET at == absoluteExpiry(s, c)
      t  == Set(s, c.key, c.val, c.opts, at)
  IN  IF t.res THEN propagateSet(t, c, at) ELSE t

(* The other spellings of SET. *)
cmdSetNX(s, c) == cmdSet(s, [c EXCEPT !.opts = {"NX"}])
cmdSetEx(s, c) == cmdSet(s, [c EXCEPT !.opts = {"PX"}])
cmdGetSet(s, c) == cmdSet(s, [c EXCEPT !.opts = {"GET"}])

cmdGetDel(s, c) ==
  LET t == GetDel(s, c.key)
  IN  IF t.res THEN Propagate(t, Command("DEL", c.key)) ELSE t

(* The handler reads the clock once more to choose what it logs. *)
cmdGetEx(s, c) ==
  LET persist == "PERSIST" \in c.opts
      at == absoluteExpiry(s, c)
      t  == GetEx(s, c.key, at, persist)
      read == Now(Reading(t, c.key), c.key)
  IN  CASE t.res /\ persist -> Propagate(t, Command("PERSIST", c.key))
        [] t.res /\ ~persist /\ at # 0 /\ at <= read ->
             Propagate(t, Command("DEL", c.key))
        [] t.res /\ ~persist /\ at > read ->
             Propagate(t, [Command("PEXPIREAT", c.key) EXCEPT !.n = at])
        [] OTHER -> t

cmdMSet(s, c) == Dirty(MSet(s, c.key, c.dst, c.val))

cmdMSetNX(s, c) ==
  LET t == MSetNX(s, c.key, c.dst, c.val)
  IN  IF t.res THEN Propagate(t, [c EXCEPT !.name = "MSET"]) ELSE t

cmdIncrDecr(s, c) ==
  Reported(IncrBy(s, c.key, c.n))

(* A handler that logs a plain SET, which clears the key's instant. *)
cmdIncrByFloat_Permanent(s, c) ==
  LET t == IncrByFloat(s, c.key, c.n)
  IN  IF t.res # <<>>
        THEN Propagate(t, [Command("SET", c.key) EXCEPT !.val = t.res])
        ELSE t

cmdIncrByFloat(s, c) ==
  LET t == IncrByFloat(s, c.key, c.n)
  IN  IF t.res # <<>>
        THEN Propagate(t, [Command("SET", c.key) EXCEPT !.val = t.res,
                                                        !.opts = {"KEEPTTL"}])
        ELSE t

cmdAppend(s, c) ==
  Reported(AppendTo(s, c.key, c.val))

cmdSetRange(s, c) ==
  Reported(SetRange(s, c.key, c.n, c.val))

cmdDel(s, c) ==
  Reported(Del(s, c.key, c.dst))

cmdRename(s, c) ==
  LET nx == "NX" \in c.opts
      t  == Rename(s, c.key, c.dst, nx)
  IN  CASE t.res = "ok" /\ ~nx -> Dirty(t)
        [] t.res = "ok" /\ nx -> Propagate(t, [c EXCEPT !.opts = {}])
        [] OTHER -> t

cmdCopy(s, c) ==
  LET t == copyLocked(s, c.key, c.dst, "REPLACE" \in c.opts)
  IN  IF t.res THEN Propagate(t, [c EXCEPT !.opts = {"REPLACE"}]) ELSE t

cmdExpire(s, c) ==
  LET at == absoluteExpiry(s, c)
      t  == Expire(s, c.key, at, c.opts)
  IN  CASE t.res = "set" ->
             Propagate(t, [Command("PEXPIREAT", c.key) EXCEPT !.n = at])
        [] t.res = "deleted" -> Propagate(t, Command("DEL", c.key))
        [] OTHER -> t

cmdPersist(s, c) ==
  Reported(Persist(s, c.key))
=============================================================================
