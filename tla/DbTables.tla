------------------------------ MODULE DbTables ------------------------------
(***************************************************************************)
(* The key tables of one DbSlice database and the string commands that    *)
(* change them (src/server/db_slice.cc, src/server/string_family.cc).     *)
(*                                                                         *)
(*   prime   key -> entry [val, exp (has-expire bit), flag (mcflag bit)]  *)
(*   expire  key -> absolute deadline, 0 when the key has no entry        *)
(*   mcflag  key -> memcache flag, 0 when the key has no entry            *)
(*                                                                         *)
(* A command runs as one shard callback that does not suspend, so each    *)
(* handler is one atomic step.  Handlers are written as operators from a  *)
(* database state to [db, recs, status], recs being the journal records   *)
(* the handler appends; the same operators serve the replica in           *)
(* Replication.tla.  Versions, change callbacks and memory accounting are *)
(* in SliceSnapshot.tla and left out here.  Deadlines are absolute and    *)
(* the per-shard expire base is 0, so ExpirePeriod and FromAbsoluteTime   *)
(* are the identity on them.                                              *)
(***************************************************************************)
EXTENDS Integers, Sequences, FiniteSetsExt

CONSTANTS
    Keys,        \* key names (model values)
    Vals,        \* characters of string values (model values)
    Nul,         \* the '\0' character SETRANGE pads with
    MaxLen,      \* bound on the length of a string value
    Offsets,     \* SETRANGE offsets
    McFlags,     \* non-zero memcache flags
    Ttls,        \* relative expiries (ms > 0) of SET PX, GETEX PX, EXPIRE
    GatTimes,    \* absolute exptime arguments of the memcache GAT command
    ExpireAts,   \* expire_at_ms arguments of DbSlice::AddOrUpdate
    MaxTime,     \* bound on the shard clock
    MaxOps,      \* bound on the number of client commands
    MayOom,      \* store mode: an insertion may fail with OUT_OF_MEMORY
    IsReplica,   \* owner_->IsReplica()
    Journaling,  \* owner_->journal() != nullptr
    Absent       \* no entry / no key / no value

VARIABLES
    db,        \* [prime, expire, mcflag, crashed]
    now,       \* cntx.time_now_ms
    journal,   \* journal records appended, oldest first
    ops        \* client commands executed

vars == <<db, now, journal, ops>>

Deadlines == (0 .. MaxTime + Max(Ttls)) \cup GatTimes \cup ExpireAts
\* A string value is the sequence of its characters; a command argument is
\* one character long.
Strs == UNION {[1..n -> Vals \cup {Nul}] : n \in 0..MaxLen}
Words == {<<x>> : x \in Vals}
Entry == [val : Strs, exp : BOOLEAN, flag : BOOLEAN]
DbState == [prime : [Keys -> Entry \cup {Absent}],
            expire : [Keys -> Deadlines],
            mcflag : [Keys -> {0} \cup McFlags],
            crashed : BOOLEAN]

\* A journal record; fields a command does not use keep their NoRec value.
NoRec == [op |-> "NONE", key |-> Absent, val |-> Absent, at |-> 0,
          keep |-> FALSE, flags |-> 0, pairs |-> <<>>, off |-> 0]
KeyRec(o, k) == [NoRec EXCEPT !.op = o, !.key = k]
CmdRec(o, k, v) == [NoRec EXCEPT !.op = o, !.key = k, !.val = v]
AtRec(o, k, at) == [NoRec EXCEPT !.op = o, !.key = k, !.at = at]
Rec(r) == IF Journaling THEN <<r>> ELSE <<>>

\* The result of a handler.
Done(d, recs, status) == [db |-> d, recs |-> recs, status |-> status]

Present(d, k) == d.prime[k] # Absent
HasExpire(d, k) == Present(d, k) /\ d.prime[k].exp
HasFlag(d, k) == Present(d, k) /\ d.prime[k].flag

\* A failed CHECK aborts the process.
Abort(d) == [d EXCEPT !.crashed = TRUE]

(***************************************************************************)
(* DbSlice primitives                                                      *)
(***************************************************************************)

\* CHECK(db.expire.Insert(...).second), then SetExpire(true).
AddExpire(d, k, at) ==
    IF d.expire[k] # 0 THEN Abort(d)
    ELSE [d EXCEPT !.expire[k] = at, !.prime[k].exp = TRUE]

\* Only a key with the has-expire bit is looked up; CHECK_EQ(1u, Erase).
RemoveExpire(d, k) ==
    CASE ~d.prime[k].exp  -> d
      [] d.expire[k] = 0  -> Abort(d)
      [] OTHER            -> [d EXCEPT !.expire[k] = 0, !.prime[k].exp = FALSE]

\* A zero flag erases the entry, any other inserts or overwrites it.
SetMCFlag(d, k, f) == [d EXCEPT !.mcflag[k] = f]

\* expIt: the caller holds a valid expire iterator.  The mcflag entry goes
\* with the has-flag bit.
PerformDeletionAtomic(d, k, expIt) ==
    [d EXCEPT !.expire[k] = IF expIt THEN 0 ELSE @,
              !.mcflag[k] = IF d.prime[k].flag THEN 0 ELSE @,
              !.prime[k]  = Absent]

\* The expire entry is found through the has-expire bit.
PerformDeletion(d, k) ==
    PerformDeletionAtomic(d, k, d.prime[k].exp /\ d.expire[k] # 0)

Del(d, k) == PerformDeletion(d, k)

\* The deadline has passed; a replica never expires keys itself.
Lapsed(d, k) ==
    HasExpire(d, k) /\ d.expire[k] # 0 /\ now >= d.expire[k] /\ ~IsReplica

\* Journals the expiry (RecordExpiryBlocking) and then deletes.
ExpireIfNeeded(d, k) ==
    IF Lapsed(d, k)
    THEN Done(PerformDeletionAtomic(d, k, TRUE), Rec(KeyRec("EXPIRED", k)), "EXPIRED")
    ELSE Done(d, <<>>, "OK")

\* found: the key survives the lookup; expIt: the returned expire iterator
\* is valid, which needs both the bit and the entry.
LookupResult(e, k) ==
    [db |-> e.db, recs |-> e.recs, found |-> Present(e.db, k),
     expIt |-> HasExpire(e.db, k) /\ e.db.expire[k] # 0]

FindInternal(d, k) == LookupResult(ExpireIfNeeded(d, k), k)

\* The value a new entry holds before its caller assigns one.
PrimeValueEmpty == [val |-> Absent, exp |-> FALSE, flag |-> FALSE]

\* oom: the store-mode budget check or InsertNew fails.
AddOrFindAfter(f, k, oom) ==
        CASE f.found -> [db |-> f.db, recs |-> f.recs, status |-> "OK",
                         isNew |-> FALSE, expIt |-> f.expIt]
          [] oom     -> [db |-> f.db, recs |-> f.recs, status |-> "OUT_OF_MEMORY",
                         isNew |-> FALSE, expIt |-> FALSE]
          [] OTHER   -> [db |-> [f.db EXCEPT !.prime[k] = PrimeValueEmpty],
                         recs |-> f.recs, status |-> "OK",
                         isNew |-> TRUE, expIt |-> FALSE]

AddOrFind(d, k, oom) == AddOrFindAfter(FindInternal(d, k), k, oom)

\* Mutant of Calculate: the absolute flag ignored.
CalculateIgnoringAbsolute(ep) ==
    [rel |-> ep.value, abs |-> now + ep.value]

\* ExpireParams::Calculate without the cap (callers here pass cap=false).
Calculate(ep) ==
    LET rel == IF ep.absolute THEN ep.value - now ELSE ep.value
    IN  [rel |-> rel, abs |-> now + rel]

\* DbSlice::UpdateExpire(cntx, prime_it, expire_it, params).  value is the
\* returned deadline, 0 for persist and -1 when the key was deleted.
UpdateExpire(d, k, expIt, ep) ==
    LET c == Calculate(ep)
        Res(d2, s, v) == [db |-> d2, status |-> s, value |-> v]
        skip == \/ ep.opt = "NX"
                \/ ep.opt = "LT" /\ d.expire[k] <= c.abs
                \/ ep.opt = "GT" /\ d.expire[k] >= c.abs
    IN  CASE ep.persist       -> Res(RemoveExpire(d, k), "OK", 0)
          [] c.abs < 0        -> Res(d, "OUT_OF_RANGE", 0)
          [] c.rel <= 0       -> Res(Del(d, k), "OK", -1)
          [] expIt /\ skip    -> Res(d, "SKIPPED", 0)
          [] expIt            -> Res([d EXCEPT !.expire[k] = c.abs], "OK", c.abs)
          [] ep.opt = "XX"    -> Res(d, "SKIPPED", 0)
          [] OTHER            -> Res(AddExpire(d, k, c.abs), "OK", c.abs)

(***************************************************************************)
(* AddOrUpdate (callers are outside src/)                                  *)
(***************************************************************************)

\* DbSlice::AddOrUpdateInternal.  The new object carries neither bit; the
\* expire table is written only when expire_at_ms is set (an existing entry
\* is overwritten, otherwise InsertNew adds one).
AddOrUpdateAfter(a, k, v, at, force) ==
    LET d1 == [a.db EXCEPT !.prime[k] = [val |-> v, exp |-> FALSE, flag |-> FALSE]]
        d2 == IF at # 0 THEN [d1 EXCEPT !.prime[k].exp = TRUE, !.expire[k] = at]
              ELSE d1
    IN  CASE a.status # "OK"       -> Done(a.db, a.recs, a.status)
          [] ~a.isNew /\ ~force    -> Done(a.db, a.recs, "OK")
          [] OTHER                 -> Done(d2, a.recs, "OK")

AddOrUpdateInternal(d, k, v, at, force, oom) ==
    AddOrUpdateAfter(AddOrFind(d, k, oom), k, v, at, force)

(***************************************************************************)
(* SET (SetCmd)                                                            *)
(***************************************************************************)

\* p = [cond: "none"|"NX"|"XX", ttl: expire_after_ms, keepttl, mcflags].
SetRec(k, v, p) ==
    [NoRec EXCEPT !.op = "SET", !.key = k, !.val = v,
                  !.at = IF p.ttl # 0 THEN p.ttl + now ELSE 0,
                  !.keep = p.keepttl, !.flags = p.mcflags]

\* SetCmd::SetExisting: the expiry first, then flags and value; SetString
\* keeps the has-expire bit.
SetExisting(d, k, v, p, expIt) ==
    LET at == IF p.ttl # 0 THEN p.ttl + now ELSE 0
        d1 == CASE p.keepttl        -> d
                [] at # 0 /\ expIt  -> [d EXCEPT !.expire[k] = at]
                [] at # 0           -> AddExpire(d, k, at)
                [] OTHER            -> RemoveExpire(d, k)
    IN  [SetMCFlag(d1, k, p.mcflags) EXCEPT !.prime[k].flag = (p.mcflags # 0),
                                            !.prime[k].val = v]

\* Mutant of SetCmdAddNew: the value assigned after AddExpire, so the
\* assignment clears the has-expire bit AddExpire set.
SetCmdAddNewLateAssign(d, k, v, p) ==
    LET d1 == IF p.ttl # 0 THEN AddExpire(d, k, p.ttl + now) ELSE d
        d2 == [d1 EXCEPT !.prime[k] = [val |-> v, exp |-> FALSE, flag |-> p.mcflags # 0]]
    IN  IF p.mcflags # 0 THEN SetMCFlag(d2, k, p.mcflags) ELSE d2

\* SetCmd::AddNew: assign the value, then the expiry and the mcflag.
SetCmdAddNew(d, k, v, p) ==
    LET d1 == [d EXCEPT !.prime[k] = [val |-> v, exp |-> FALSE, flag |-> p.mcflags # 0]]
        d2 == IF p.ttl # 0 THEN AddExpire(d1, k, p.ttl + now) ELSE d1
    IN  IF p.mcflags # 0 THEN SetMCFlag(d2, k, p.mcflags) ELSE d2

\* SetCmd::Set.  A conditional SET looks the key up first; then AddOrFind.
\* manual: manual_journal_ (PostEdit records SET, NX/XX dropped).
SetCmdDecide(fm, af, k, v, p, manual) ==
    LET r0   == IF p.cond # "none" THEN fm.recs ELSE <<>>
        post == IF manual THEN Rec(SetRec(k, v, p)) ELSE <<>>
    IN  CASE p.cond = "XX" /\ fm.found ->
               Done(SetExisting(fm.db, k, v, p, fm.expIt), r0 \o post, "OK")
          [] p.cond = "XX" \/ (p.cond = "NX" /\ fm.found) ->
               Done(fm.db, r0, "SKIPPED")
          [] af.status # "OK" ->
               Done(af.db, r0 \o af.recs, af.status)
          [] ~af.isNew ->
               Done(SetExisting(af.db, k, v, p, af.expIt), r0 \o af.recs \o post, "OK")
          [] OTHER ->
               Done(SetCmdAddNew(af.db, k, v, p), r0 \o af.recs \o post, "OK")

SetCmdAfterFind(fm, d, k, v, p, oom, manual) ==
    SetCmdDecide(fm, AddOrFind(IF p.cond # "none" THEN fm.db ELSE d, k, oom),
                 k, v, p, manual)

SetCmdSet(d, k, v, p, oom, manual) ==
    SetCmdAfterFind(FindInternal(d, k), d, k, v, p, oom, manual)

PlainSet == [cond |-> "none", ttl |-> 0, keepttl |-> FALSE, mcflags |-> 0]

\* The loop of OpMSet: SET pairs[1], pairs[2], ... and stop at the first
\* that fails.  stored: how many were stored.
MSetStep(prev, s, i) ==
    IF prev.stored < i - 1 THEN prev
    ELSE [db |-> s.db, recs |-> prev.recs \o s.recs,
          stored |-> IF s.status = "OK" THEN i ELSE i - 1]

MSetLoop(d, pairs, ooms) ==
    LET run[i \in 0..Len(pairs)] ==
            IF i = 0 THEN [db |-> d, recs |-> <<>>, stored |-> 0]
            ELSE MSetStep(run[i - 1],
                          SetCmdSet(run[i - 1].db, pairs[i][1], pairs[i][2],
                                    PlainSet, ooms[i], FALSE), i)
    IN  run[Len(pairs)]

\* Mutant of OpMSet: the MSET record holds every pair, stored or not.
OpMSetJournalAll(d, pairs, ooms) ==
    LET r    == MSetLoop(d, pairs, ooms)
        mset == [NoRec EXCEPT !.op = "MSET", !.pairs = pairs]
    IN  Done(r.db, r.recs \o Rec(mset),
             IF r.stored = Len(pairs) THEN "OK" ELSE "OUT_OF_MEMORY")

\* OpMSet: SET each pair until one fails, then journal one MSET holding
\* only the pairs stored.  ooms[i]: the i-th insertion runs out of memory.
MSetDone(r, pairs) ==
    LET mset == [NoRec EXCEPT !.op = "MSET", !.pairs = SubSeq(pairs, 1, r.stored)]
    IN  Done(r.db, r.recs \o (IF r.stored > 0 THEN Rec(mset) ELSE <<>>),
             IF r.stored = Len(pairs) THEN "OK" ELSE "OUT_OF_MEMORY")

OpMSet(d, pairs, ooms) == MSetDone(MSetLoop(d, pairs, ooms), pairs)

(***************************************************************************)
(* Expiry commands                                                         *)
(***************************************************************************)

PersistParams == [persist |-> TRUE, absolute |-> FALSE, value |-> 0, opt |-> "none"]
RelParams(d, o) == [persist |-> FALSE, absolute |-> FALSE, value |-> d, opt |-> o]
AbsParams(t) == [persist |-> FALSE, absolute |-> TRUE, value |-> t, opt |-> "none"]

\* The tail shared by GETEX and GAT: f is the lookup, u the UpdateExpire
\* result, rec the record journaled on success.
ExpiryJournaled(f, u, rec) ==
    IF u.status # "OK" THEN Done(u.db, f.recs, u.status)
    ELSE Done(u.db, f.recs \o Rec(rec), "OK")

GetExAfter(f, k, ep) ==
    IF ~f.found THEN Done(f.db, f.recs, "KEY_NOTFOUND")
    ELSE ExpiryJournaled(f, UpdateExpire(f.db, k, f.expIt, ep),
                         IF ep.persist THEN KeyRec("PERSIST", k)
                         ELSE AtRec("PEXPIREAT", k, Calculate(ep).abs))

\* GETEX: FindMutable, UpdateExpire, then journal PERSIST or PEXPIREAT.
GetExCmd(d, k, ep) == GetExAfter(FindInternal(d, k), k, ep)

\* GAT exptime key: ExpireParams{value, absolute, persist = exptime == 0}.
GatParams(ts) == [persist |-> ts = 0, absolute |-> TRUE, value |-> ts, opt |-> "none"]

\* FindKeyAndSetExpiry: journals DEL when UpdateExpire deleted the key,
\* otherwise PEXPIREAT with the value UpdateExpire returned.
SetExpiryJournaled(f, u, k) ==
    ExpiryJournaled(f, u, IF u.value = -1 THEN KeyRec("DEL", k)
                          ELSE AtRec("PEXPIREAT", k, u.value))

FindKeyAndSetExpiryAfter(f, k, ep) ==
    IF ~f.found THEN Done(f.db, f.recs, "KEY_NOTFOUND")
    ELSE SetExpiryJournaled(f, UpdateExpire(f.db, k, f.expIt, ep), k)

FindKeyAndSetExpiry(d, k, ep) == FindKeyAndSetExpiryAfter(FindInternal(d, k), k, ep)

\* EXPIRE/PEXPIRE/PEXPIREAT/PERSIST: FindMutable, then UpdateExpire.
ExpireUpdated(f, u) == Done(u.db, f.recs, u.status)

ExpireCmdAfter(f, k, ep) ==
    IF ~f.found THEN Done(f.db, f.recs, "KEY_NOTFOUND")
    ELSE ExpireUpdated(f, UpdateExpire(f.db, k, f.expIt, ep))

ExpireCmd(d, k, ep) == ExpireCmdAfter(FindInternal(d, k), k, ep)

\* A command without NO_AUTOJOURNAL is journaled as itself, after the
\* records its callback wrote, when the callback's status is OK (any other
\* status journals a NOOP, left out).
AutoJournal(r, rec) ==
    IF r.status = "OK" THEN Done(r.db, r.recs \o Rec(rec), "OK") ELSE r

\* GETDEL: FindMutable, then Del.
GetDelAfter(f, k) ==
    Done(IF f.found THEN Del(f.db, k) ELSE f.db, f.recs,
         IF f.found THEN "OK" ELSE "KEY_NOTFOUND")

GetDelCmd(d, k) == AutoJournal(GetDelAfter(FindInternal(d, k), k), KeyRec("GETDEL", k))

\* GET: FindReadOnly; only its lazy expiry changes state.
GetAfter(f) == Done(f.db, f.recs, IF f.found THEN "OK" ELSE "KEY_NOTFOUND")

GetCmd(d, k) == GetAfter(FindInternal(d, k))

(***************************************************************************)
(* SETNX, GETSET, SETEX/PSETEX, MSETNX                                     *)
(***************************************************************************)

\* SETNX stores the connection's memcache_flag, which is 0 on a Redis
\* connection.
SetNxParams == [cond |-> "NX", ttl |-> 0, keepttl |-> FALSE, mcflags |-> 0]

\* SETNX: SetCmd::Set with SET_IF_NOTEXIST; SKIPPED when the key exists.
SetNxCmd(d, k, v, oom) ==
    AutoJournal(SetCmdSet(d, k, v, SetNxParams, oom, FALSE), CmdRec("SETNX", k, v))

\* GETSET: a plain SetCmd::Set that also reads the previous value.
GetSetCmd(d, k, v, oom) ==
    AutoJournal(SetCmdSet(d, k, v, PlainSet, oom, FALSE), CmdRec("GETSET", k, v))

\* SetExGeneric: a count below 1 is refused before the transaction runs;
\* otherwise SET with expire_after_ms, journaled by SetCmd (NO_AUTOJOURNAL).
\* SETEX counts seconds and PSETEX milliseconds; both are t clock units.
SetExGeneric(d, k, v, t, oom) ==
    IF t < 1 THEN Done(d, <<>>, "INVALID_EXPIRE")
    ELSE SetCmdSet(d, k, v, [PlainSet EXCEPT !.ttl = t], oom, TRUE)

\* Hop 1 of MSETNX: FindReadOnly on each key in argument order, stopping at
\* the first that exists.
MSetNxCheck(d, pairs) ==
    LET run[i \in 0..Len(pairs)] ==
            IF i = 0 THEN [db |-> d, recs |-> <<>>, exists |-> FALSE]
            ELSE IF run[i - 1].exists THEN run[i - 1]
            ELSE LET f == FindInternal(run[i - 1].db, pairs[i][1])
                 IN  [db |-> f.db, recs |-> run[i - 1].recs \o f.recs, exists |-> f.found]
    IN  run[Len(pairs)]

\* The epilog hop: OpMSet unless a key existed (NO_AUTOJOURNAL; OpMSet
\* journals its MSET record).
MSetNxAfter(c, pairs, ooms) ==
    IF c.exists THEN Done(c.db, c.recs, "SKIPPED")
    ELSE LET m == OpMSet(c.db, pairs, ooms) IN Done(m.db, c.recs \o m.recs, m.status)

MSetNxCmd(d, pairs, ooms) == MSetNxAfter(MSetNxCheck(d, pairs), pairs, ooms)

(***************************************************************************)
(* APPEND, PREPEND, SETRANGE (values held in memory; tiered values are in  *)
(* SliceSnapshot.tla)                                                      *)
(***************************************************************************)

\* ExtendExisting: StrCat of the argument before or after the old value;
\* SetString keeps both bits.
ExtendExisting(d, k, x, prepend) ==
    [d EXCEPT !.prime[k].val = IF prepend THEN x \o @ ELSE @ \o x]

\* OpExtend: AddOrFind; a new key holds the argument.
OpExtendAfter(a, k, x, prepend) ==
    CASE a.status # "OK" -> Done(a.db, a.recs, a.status)
      [] a.isNew         -> Done([a.db EXCEPT !.prime[k].val = x], a.recs, "OK")
      [] OTHER           -> Done(ExtendExisting(a.db, k, x, prepend), a.recs, "OK")

OpExtend(d, k, x, prepend, oom) == OpExtendAfter(AddOrFind(d, k, oom), k, x, prepend)

\* ExtendOrSkip (memcache append/prepend): FindMutable, and a missing key
\* is skipped with the value false, whose status is OK.
ExtendOrSkipAfter(f, k, x, prepend) ==
    Done(IF f.found THEN ExtendExisting(f.db, k, x, prepend) ELSE f.db, f.recs, "OK")

\* ExtendGeneric: OpExtend on a Redis connection, ExtendOrSkip on a
\* memcache one; APPEND and PREPEND are auto-journaled.
ExtendGeneric(d, k, x, prepend, memcache, oom) ==
    AutoJournal(IF memcache THEN ExtendOrSkipAfter(FindInternal(d, k), k, x, prepend)
                ELSE OpExtend(d, k, x, prepend, oom),
                CmdRec(IF prepend THEN "PREPEND" ELSE "APPEND", k, x))

\* SetRange(value, start, range): resize to max(size, start + |range|),
\* the new bytes '\0', then copy range to offset start.
SetRangeStr(s, start, r) ==
    [i \in 1..Max({Len(s), start + Len(r)}) |->
        CASE start < i /\ i <= start + Len(r) -> r[i - start]
          [] i <= Len(s)                      -> s[i]
          [] OTHER                            -> Nul]

\* OpStrLen: FindReadOnly; a missing key has length 0, status OK.
OpStrLenAfter(f) == Done(f.db, f.recs, "OK")

\* OpSetRange: an empty range is OpStrLen; otherwise AddOrFind, and a new
\* key starts from the empty string.
OpSetRangeAfter(a, k, start, r) ==
    IF a.status # "OK" THEN Done(a.db, a.recs, a.status)
    ELSE Done([a.db EXCEPT !.prime[k].val = SetRangeStr(IF a.isNew THEN <<>> ELSE @, start, r)],
              a.recs, "OK")

OpSetRange(d, k, start, r, oom) ==
    IF r = <<>> THEN OpStrLenAfter(FindInternal(d, k))
    ELSE OpSetRangeAfter(AddOrFind(d, k, oom), k, start, r)

\* SETRANGE (auto-journaled).
SetRangeCmd(d, k, start, r, oom) ==
    AutoJournal(OpSetRange(d, k, start, r, oom),
                [CmdRec("SETRANGE", k, r) EXCEPT !.off = start])

(***************************************************************************)
(* A replica executing a journal record                                    *)
(***************************************************************************)

\* Mutant of ReplicaSet: the PXAT deadline read as a relative expiry.
ReplicaSetAsRelative(d, rec) ==
    LET p == [cond |-> "none", ttl |-> rec.at, keepttl |-> rec.keep, mcflags |-> rec.flags]
    IN  SetCmdSet(d, rec.key, rec.val, p, FALSE, TRUE).db

\* StringFamily::Set parsing "PXAT at": a deadline already past deletes the
\* key (OpDel); otherwise expire_after_ms = at - now, and 0 means no expiry.
ReplicaSet(d, rec) ==
    LET rel == rec.at - now
        p   == [cond |-> "none", ttl |-> IF rec.at # 0 THEN rel ELSE 0,
                keepttl |-> rec.keep, mcflags |-> rec.flags]
    IN  IF rec.at # 0 /\ rel < 0 THEN GetDelCmd(d, rec.key).db
        ELSE SetCmdSet(d, rec.key, rec.val, p, FALSE, TRUE).db

ExecuteRecord(d, rec) ==
    CASE rec.op = "SET"        -> ReplicaSet(d, rec)
      [] rec.op = "MSET"       -> OpMSet(d, rec.pairs, [i \in 1..Len(rec.pairs) |-> FALSE]).db
      [] rec.op = "PEXPIREAT"  -> ExpireCmd(d, rec.key, AbsParams(rec.at)).db
      [] rec.op = "PERSIST"    -> ExpireCmd(d, rec.key, PersistParams).db
      [] rec.op = "SETNX"      -> SetCmdSet(d, rec.key, rec.val, SetNxParams, FALSE, FALSE).db
      [] rec.op = "GETSET"     -> SetCmdSet(d, rec.key, rec.val, PlainSet, FALSE, FALSE).db
      [] rec.op = "APPEND"     -> OpExtend(d, rec.key, rec.val, FALSE, FALSE).db
      [] rec.op = "PREPEND"    -> OpExtend(d, rec.key, rec.val, TRUE, FALSE).db
      [] rec.op = "SETRANGE"   -> OpSetRange(d, rec.key, rec.off, rec.val, FALSE).db
      [] OTHER                 -> GetDelCmd(d, rec.key).db

(***************************************************************************)
(* The specification                                                       *)
(***************************************************************************)

\* A table state the server reaches through SET commands: every expire and
\* mcflag entry matches its bit.
Synced(d) ==
    \A k \in Keys : /\ (d.expire[k] # 0) <=> HasExpire(d, k)
                    /\ (d.mcflag[k] # 0) <=> HasFlag(d, k)

Init ==
    /\ db \in {d \in [prime : [Keys -> [val : Words, exp : BOOLEAN, flag : BOOLEAN] \cup {Absent}],
                      expire : [Keys -> {0} \cup Ttls],
                      mcflag : [Keys -> {0} \cup McFlags],
                      crashed : {FALSE}] : Synced(d)}
    /\ now = 0
    /\ journal = <<>>
    /\ ops = 0

OomChoices == IF MayOom /\ ~IsReplica THEN BOOLEAN ELSE {FALSE}

\* One client command, run to completion by its shard callback.
Command(r) ==
    /\ ops < MaxOps
    /\ ~db.crashed
    /\ db' = r.db
    /\ journal' = journal \o r.recs
    /\ ops' = ops + 1
    /\ UNCHANGED now

SetParams ==
    {p \in [cond : {"none", "NX", "XX"}, ttl : {0} \cup Ttls,
            keepttl : BOOLEAN, mcflags : {0} \cup McFlags] :
        ~(p.keepttl /\ p.ttl # 0)}
MSetArgs == {<<x>> : x \in Keys \X Words} \cup {<<x, y>> : x, y \in Keys \X Words}
GetExParamSet == {PersistParams} \cup {RelParams(t, "none") : t \in Ttls}
ExpireParamSet ==
    {PersistParams} \cup
    {RelParams(t, o) : t \in {0} \cup Ttls, o \in {"none", "NX", "XX", "GT", "LT"}}

Set(k, v, p) == \E oom \in OomChoices : Command(SetCmdSet(db, k, v, p, oom, TRUE))
MSet(pairs) == \E ooms \in [1..Len(pairs) -> OomChoices] : Command(OpMSet(db, pairs, ooms))
GetEx(k, ep) == Command(GetExCmd(db, k, ep))
Gat(k, ts) == Command(FindKeyAndSetExpiry(db, k, GatParams(ts)))
GetDel(k) == Command(GetDelCmd(db, k))
Get(k) == Command(GetCmd(db, k))
AddOrUpdate(k, v, at) ==
    \E oom \in OomChoices : Command(AddOrUpdateInternal(db, k, v, at, TRUE, oom))
Expire(k, ep) == Command(ExpireCmd(db, k, ep))
SetNx(k, v) == \E oom \in OomChoices : Command(SetNxCmd(db, k, v, oom))
GetSet(k, v) == \E oom \in OomChoices : Command(GetSetCmd(db, k, v, oom))
SetEx(k, v, t) == \E oom \in OomChoices : Command(SetExGeneric(db, k, v, t, oom))
MSetNx(pairs) ==
    \E ooms \in [1..Len(pairs) -> OomChoices] : Command(MSetNxCmd(db, pairs, ooms))

\* A command whose result is longer than MaxLen is not explored.
Fits(r) == \A k \in Keys : Present(r.db, k) => Len(r.db.prime[k].val) <= MaxLen

\* StringFamily::Append and Prepend.
Extend(k, x, prepend, memcache) ==
    \E oom \in OomChoices : LET r == ExtendGeneric(db, k, x, prepend, memcache, oom)
                            IN  Fits(r) /\ Command(r)
SetRange(k, start, r) ==
    \E oom \in OomChoices : LET res == SetRangeCmd(db, k, start, r, oom)
                            IN  Fits(res) /\ Command(res)

\* Mutant of DeleteExpiredStep: an entry is taken as expired only once its
\* ttl is negative.
DeleteExpiredStepStrict(k) ==
    /\ ~db.crashed
    /\ db.expire[k] # 0
    /\ db.expire[k] - now < 0
    /\ LET r == IF ~Present(db, k) THEN Done([db EXCEPT !.expire[k] = 0], <<>>, "OK")
                ELSE ExpireIfNeeded(db, k)
       IN  db' = r.db /\ journal' = journal \o r.recs
    /\ UNCHANGED <<now, ops>>

\* The callback DeleteExpiredStep runs on one expire entry: an entry whose
\* key is gone is erased (the inconsistency workaround), otherwise
\* ExpireIfNeeded, which does nothing for a key without the has-expire bit.
DeleteExpiredStep(k) ==
    /\ ~db.crashed
    /\ db.expire[k] # 0
    /\ db.expire[k] - now <= 0
    /\ LET r == IF ~Present(db, k) THEN Done([db EXCEPT !.expire[k] = 0], <<>>, "OK")
                ELSE ExpireIfNeeded(db, k)
       IN  db' = r.db /\ journal' = journal \o r.recs
    /\ UNCHANGED <<now, ops>>

Tick ==
    /\ now < MaxTime
    /\ now' = now + 1
    /\ UNCHANGED <<db, journal, ops>>

\* Commands whose journaling is in string_family.cc.
JournaledCommand ==
    \/ \E k \in Keys, v \in Words, p \in SetParams : Set(k, v, p)
    \/ \E pairs \in MSetArgs : MSet(pairs)
    \/ \E k \in Keys, ep \in GetExParamSet : GetEx(k, ep)
    \/ \E k \in Keys, ts \in GatTimes : Gat(k, ts)
    \/ \E k \in Keys : GetDel(k)
    \/ \E k \in Keys : Get(k)
    \/ \E k \in Keys, v \in Words : SetNx(k, v) \/ GetSet(k, v)
    \/ \E k \in Keys, v \in Words, t \in {0} \cup Ttls : SetEx(k, v, t)
    \/ \E pairs \in MSetArgs : MSetNx(pairs)
    \/ \E k \in Keys, x \in Words, prepend \in BOOLEAN : Extend(k, x, prepend, FALSE)
    \/ \E k \in Keys, start \in Offsets, r \in {<<>>} \cup Words : SetRange(k, start, r)

\* Memcache APPEND and PREPEND, whose skip of a missing key is journaled
\* as the Redis command (see README).
MemcacheCommand ==
    \E k \in Keys, x \in Words, prepend \in BOOLEAN : Extend(k, x, prepend, TRUE)

\* Entry points whose callers (and their journaling) are outside src/.
ExternalCommand ==
    \/ \E k \in Keys, v \in Words, at \in ExpireAts : AddOrUpdate(k, v, at)
    \/ \E k \in Keys, ep \in ExpireParamSet : Expire(k, ep)

Heartbeat == \E k \in Keys : DeleteExpiredStep(k)

Quiescent == ops = MaxOps /\ now = MaxTime /\ UNCHANGED vars

Next ==
    JournaledCommand \/ MemcacheCommand \/ ExternalCommand \/ Heartbeat \/ Tick \/ Quiescent

\* The heartbeat keeps calling DeleteExpiredStep, whose cursor visits every
\* expire entry.
Spec == Init /\ [][Next]_vars /\ \A k \in Keys : WF_vars(DeleteExpiredStep(k))

(***************************************************************************)
(* Properties                                                              *)
(***************************************************************************)

JournalRec ==
    [op : {"SET", "MSET", "PEXPIREAT", "PERSIST", "DEL", "GETDEL", "EXPIRED",
           "SETNX", "GETSET", "APPEND", "PREPEND", "SETRANGE"},
     key : Keys \cup {Absent}, val : Strs \cup {Absent}, at : Deadlines,
     keep : BOOLEAN, flags : {0} \cup McFlags, pairs : Seq(Keys \X Strs),
     off : {0} \cup Offsets]

TypeOK ==
    /\ db \in DbState
    /\ now \in 0..MaxTime
    /\ ops \in 0..MaxOps
    /\ journal \in Seq(JournalRec)

\* Spec invariant I1/P1: a key has an expire-table entry exactly when it is
\* in the prime table with the has-expire bit; and a key with the mcflag bit
\* has an mcflag entry (GetMCFlag and PerformDeletionAtomic LOG(DFATAL)
\* otherwise).  Broken by any path through SET, GETEX, GAT, EXPIRE, MSET,
\* AddOrUpdate or expiry that updates a bit without its table, or the reverse.
TablesConsistent ==
    \A k \in Keys : /\ (db.expire[k] # 0) <=> HasExpire(db, k)
                    /\ HasFlag(db, k) => db.mcflag[k] # 0

\* No CHECK fails: AddExpire never finds an entry already in the expire
\* table, and RemoveExpire always finds the one the has-expire bit promises.
\* A failed CHECK aborts the server in every build.
NoCheckFailure == ~db.crashed

\* An expire entry whose deadline has passed is eventually removed: the
\* heartbeat's DeleteExpiredStep deletes the key, or erases the orphan entry.
DueEntry(k) == db.expire[k] # 0 /\ db.expire[k] <= now
ExpiredKeysRemoved == \A k \in Keys : DueEntry(k) ~> ~DueEntry(k)

=============================================================================
