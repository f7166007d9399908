------------------------------- MODULE IncrBy -------------------------------
(***************************************************************************)
(* INCR, INCRBY, DECR and DECRBY (server/string_family.cc: Incr, IncrBy,   *)
(* Decr, DecrBy, IncrByGeneric, OpIncrBy) on one key.                      *)
(*                                                                         *)
(* int64_t arithmetic is modelled at width W in two's complement: every    *)
(* addition, subtraction and negation the code performs wraps (Wrap), so a *)
(* missing or wrong overflow guard shows up as a wrong value.  The key     *)
(* holds nothing, an integer-encoded string, a string that is not an       *)
(* integer, or an object of another type; SET by other clients changes it  *)
(* between commands.  Lookup, expiry and journaling are those of           *)
(* DbTables.tla and are not repeated here.                                 *)
(***************************************************************************)
EXTENDS Integers

CONSTANTS
    W,         \* width of int64_t in the model
    Absent,    \* no key
    Str,       \* a string value TryGetInt rejects
    List,      \* a value that is not OBJ_STRING
    NotInt     \* an argument SimpleAtoi rejects

IntMin == -(2^(W - 1))
IntMax == 2^(W - 1) - 1
Int64 == IntMin..IntMax

\* The int64_t that the machine arithmetic produces for mathematical x.
Wrap(x) == ((x - IntMin) % (2^W)) + IntMin

Stored == Int64 \cup {Absent, Str, List}

\* Command arguments: any int64_t, or text SimpleAtoi rejects.
Args == Int64 \cup {NotInt}

VARIABLES
    value,    \* what the key holds
    reply,    \* the reply to the last command: [kind, n]
    intent    \* the mathematical increment the last command asked for

vars == <<value, reply, intent>>

Reply(kind, n) == [kind |-> kind, n |-> n]

Init ==
    /\ value \in Stored
    /\ reply = Reply("none", 0)
    /\ intent = 0

\* Mutant of Overflows: the bound itself is treated as an overflow.
OverflowsInclusive(prev, incr) ==
    \/ incr < 0 /\ prev < 0 /\ incr <= Wrap(IntMin - prev)
    \/ incr > 0 /\ prev > 0 /\ incr >= Wrap(IntMax - prev)

\* The guard of OpIncrBy, evaluated in int64_t.
Overflows(prev, incr) ==
    \/ incr < 0 /\ prev < 0 /\ incr < Wrap(IntMin - prev)
    \/ incr > 0 /\ prev > 0 /\ incr > Wrap(IntMax - prev)

\* OpIncrBy: a missing key is created holding incr (unless the memcache
\* protocol asks to skip it, or AddNew fails), other types and non-integers
\* are rejected, an overflow leaves the value alone.  Returns the new value
\* and the OpStatus.
OpIncrBy(v, incr, skipOnMissing, oom) ==
    CASE v = Absent /\ skipOnMissing -> [val |-> v, st |-> "KEY_NOTFOUND"]
      [] v = Absent /\ oom            -> [val |-> v, st |-> "OUT_OF_MEMORY"]
      [] v = Absent                   -> [val |-> incr, st |-> "OK"]
      [] v = List                     -> [val |-> v, st |-> "WRONG_TYPE"]
      [] v = Str                      -> [val |-> v, st |-> "INVALID_VALUE"]
      [] Overflows(v, incr)           -> [val |-> v, st |-> "OUT_OF_RANGE"]
      [] OTHER                        -> [val |-> Wrap(v + incr), st |-> "OK"]

\* IncrByGeneric: run OpIncrBy in one hop and turn its status into a reply.
IncrByGenericAfter(r) ==
    /\ value' = r.val
    /\ reply' = CASE r.st = "OK"            -> Reply("int", r.val)
                  [] r.st = "INVALID_VALUE" -> Reply("invalid_int", 0)
                  [] r.st = "OUT_OF_RANGE"  -> Reply("overflow", 0)
                  [] r.st = "KEY_NOTFOUND"  -> Reply("not_found", 0)
                  [] OTHER                  -> Reply(r.st, 0)

IncrByGeneric(val, memcache, oom) ==
    IncrByGenericAfter(OpIncrBy(value, val, memcache, oom))

\* INCR key / DECR key.
Incr(memcache, oom) ==
    /\ IncrByGeneric(1, memcache, oom)
    /\ intent' = 1

Decr(memcache, oom) ==
    /\ IncrByGeneric(-1, memcache, oom)
    /\ intent' = -1

\* INCRBY key arg.
IncrBy(arg, memcache, oom) ==
    IF arg = NotInt
    THEN /\ reply' = Reply("invalid_int", 0)
         /\ UNCHANGED <<value, intent>>
    ELSE /\ IncrByGeneric(arg, memcache, oom)
         /\ intent' = arg

\* Mutant of DecrBy: no special case for INT64_MIN before negating.
DecrByNoMinCheck(arg, memcache, oom) ==
    IF arg = NotInt
    THEN /\ reply' = Reply("invalid_int", 0)
         /\ UNCHANGED <<value, intent>>
    ELSE /\ IncrByGeneric(Wrap(-arg), memcache, oom)
         /\ intent' = -arg

\* DECRBY key arg: INT64_MIN cannot be negated and is refused as an
\* overflow; any other argument is negated and added.
DecrBy(arg, memcache, oom) ==
    CASE arg = NotInt ->
            /\ reply' = Reply("invalid_int", 0)
            /\ UNCHANGED <<value, intent>>
      [] arg = IntMin ->
            /\ reply' = Reply("overflow", 0)
            /\ intent' = -arg
            /\ UNCHANGED value
      [] OTHER ->
            /\ IncrByGeneric(Wrap(-arg), memcache, oom)
            /\ intent' = -arg

\* SET key x by another client.
Set(x) ==
    /\ value' = x
    /\ reply' = Reply("ok", 0)
    /\ intent' = 0

Next ==
    \/ \E mc, oom \in BOOLEAN :
          \/ Incr(mc, oom)
          \/ Decr(mc, oom)
          \/ \E arg \in Args : IncrBy(arg, mc, oom) \/ DecrBy(arg, mc, oom)
    \/ \E x \in Stored : Set(x)

Spec == Init /\ [][Next]_vars

-----------------------------------------------------------------------------

\* The value as an integer, when it is one (a missing key counts as 0).
Prev(v) == IF v = Absent THEN 0 ELSE v
IsInt(v) == v \in Int64 \cup {Absent}

\* An INCR/INCRBY/DECR/DECRBY that replies with a number replies with, and
\* stores, exactly the old value plus the requested increment: the int64_t
\* arithmetic of OpIncrBy and DecrBy never wraps silently.
IncrNeverWraps ==
    [][reply'.kind = "int" =>
           /\ IsInt(value)
           /\ reply'.n = Prev(value) + intent'
           /\ value' = reply'.n]_vars

\* OpIncrBy and DecrBy refuse an increment as an overflow only when its
\* exact result does not fit in int64_t, or when the DECRBY argument itself
\* cannot be negated (INT64_MIN, refused before the key is read, as Redis
\* does); a refused increment leaves the value alone.
IncrOverflowExact ==
    [][reply'.kind = "overflow" =>
           /\ \/ intent' \notin Int64
              \/ IsInt(value) /\ Prev(value) + intent' \notin Int64
           /\ value' = value]_vars

====
