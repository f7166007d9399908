------------------------------ MODULE Eviction ------------------------------
(***************************************************************************)
(* Memory budget, eviction and garbage collection of one DbSlice database *)
(* (src/server/db_slice.cc: PrimeEvictionPolicy, AddOrFindInternal's      *)
(* insertion path, FreeMemWithEvictionStepAtomic, PerformDeletion,        *)
(* AutoUpdater) under SET, MSET and DEL hops of transactions that hold    *)
(* key locks (trans_locks) across hops.                                    *)
(*                                                                         *)
(* The prime table is one segment directory of `capacity` slots: an       *)
(* insertion finds its segment full exactly when every slot is taken, and *)
(* growing adds SegCap slots and SegBytes of table memory.  Which entries *)
(* sit in the hot buckets GarbageCollect scans, which entry occupies the  *)
(* last slot of the stash bucket Evict picks, and which entries the       *)
(* heartbeat scan reaches are nondeterministic.  The journal is consumed  *)
(* by a replica as it is written; `replica` is the key set the records    *)
(* written so far leave on it.  Tiered storage is absent.                 *)
(***************************************************************************)
EXTENDS Integers, FiniteSetsExt

CONSTANTS
    Keys,            \* key names (model values)
    Vals,            \* string values (model values)
    BigVals,         \* values with heap memory (MallocUsed() > 0)
    KeyLen,          \* key -> key.size()
    InlineLen,       \* longest key CompactObj stores inline
    Clients,         \* transactions (model values)
    SegCap,          \* PrimeTable::kSegCapacity
    SegBytes,        \* PrimeTable::kSegBytes
    SoftLimit,       \* soft_budget_limit: 0.3 * max_memory_limit / shards
    BytesPerObject,  \* bytes_per_object()
    InitBudgets,     \* memory_budget_ when the model starts
    ApplyMemoryLimit,\* !IsReplica() and not LOADING
    MaxEvictPerHb,   \* FLAGS_max_eviction_per_heartbeat
    Goals,           \* increase_goal_bytes passed by the heartbeat
    MaxOps,          \* bound on hops
    Absent           \* no entry

VARIABLES
    shard,   \* [prime, capacity, budget, objMem, replica, cache]
    locks,   \* client -> keys it holds in trans_locks
    ops,     \* hops executed
    last     \* who took the last step: a client, the heartbeat or the clock

vars == <<shard, locks, ops, last>>

Shard == "shard"   \* the heartbeat
Clock == "clock"   \* time passing a deadline

Exps == {"none", "live", "due"}   \* no expiry / deadline ahead / passed
Entry == [val : Vals, sticky : BOOLEAN, exp : Exps]

KeyHeap(k) == IF KeyLen[k] > InlineLen THEN KeyLen[k] ELSE 0
ValHeap(v) == IF v \in BigVals THEN 1 ELSE 0
\* MallocUsed() of key and value: what PerformDeletionAtomic gives back.
Heap(s, k) == KeyHeap(k) + ValHeap(s.prime[k].val)

Present(s, k) == s.prime[k] # Absent
PresentKeys(s) == {k \in Keys : Present(s, k)}
Due(s, k) == Present(s, k) /\ s.prime[k].exp = "due"
Locked == UNION {locks[c] : c \in Clients}

(***************************************************************************)
(* Deletion and accounting                                                *)
(***************************************************************************)

\* AccountObjectMemory: stats.obj_memory_usage += size.
Account(s, size) == [s EXCEPT !.objMem = @ + size]

\* PerformDeletionAtomic: erase the entry, account its key and value out
\* of obj_memory_usage and give their bytes back to memory_budget_.
PerformDeletion(s, k) ==
    [Account(s, -Heap(s, k)) EXCEPT !.prime[k] = Absent,
                                    !.budget = @ + Heap(s, k)]

\* RecordExpiryBlocking: the replica drops the key.
RecordExpiry(s, k) == [s EXCEPT !.replica = @ \ {k}]

\* ExpireIfNeeded on a key whose deadline passed: journal, then delete.
ExpireKey(k, s) == PerformDeletion(RecordExpiry(s, k), k)

\* FindInternal's lazy expiry.
Lookup(s, k) == IF Due(s, k) THEN ExpireKey(k, s) ELSE s

(***************************************************************************)
(* PrimeEvictionPolicy                                                     *)
(***************************************************************************)

\* CanGrow: below the soft limit growth is refused only when the budget
\* cannot hold a segment plus the objects the free slots will take.
CanGrow(s, offset) ==
    LET avail == s.budget + offset
        free  == (((s.capacity - Cardinality(PresentKeys(s))) + SegCap) * 4) \div 10
    IN  \/ ~ApplyMemoryLimit
        \/ avail > SoftLimit
        \/ avail > SegBytes + BytesPerObject * free

\* GarbageCollect: expire every due entry of the hot buckets; returns how
\* many were deleted.  Nothing when the journal write would block.
GarbageCollect(s, hot, jblock) ==
    LET due == IF jblock THEN {} ELSE {k \in hot : Due(s, k)}
    IN  [s |-> FoldSet(ExpireKey, s, due), n |-> Cardinality(due)]

\* Mutants of EvictVictim: the trans_locks or the sticky check dropped.
EvictVictimUnlocked(s, v, locked) ==
    IF s.prime[v].sticky THEN [s |-> s, n |-> 0]
    ELSE [s |-> PerformDeletion(RecordExpiry(s, v), v), n |-> 1]

EvictVictimNonSticky(s, v, locked) ==
    IF v \in locked THEN [s |-> s, n |-> 0]
    ELSE [s |-> PerformDeletion(RecordExpiry(s, v), v), n |-> 1]

\* The occupant v of the stash bucket's last slot: kept when sticky or
\* locked, otherwise journaled as expired and deleted.
EvictVictim(s, v, locked) ==
    IF s.prime[v].sticky \/ v \in locked THEN [s |-> s, n |-> 0]
    ELSE [s |-> PerformDeletion(RecordExpiry(s, v), v), n |-> 1]

\* The entry in the last slot: the chosen key when it is in the table.
Occupant(s, v) == IF Present(s, v) THEN v ELSE CHOOSE k \in PresentKeys(s) : TRUE

\* Evict: only in cache mode and when the journal write would not block.
\* The segment is full, so the last slot is occupied.
Evict(s, ch, locked) ==
    IF ~s.cache \/ ch.jblock THEN [s |-> s, n |-> 0]
    ELSE EvictVictim(s, Occupant(s, ch.victim), locked)

(***************************************************************************)
(* AddOrFindInternal for a key that is not in the table                    *)
(***************************************************************************)

\* The new entry, empty until the caller assigns it; the table growth is
\* charged to memory_budget_ and the key to obj_memory_usage.
Placed(s, k, increase) ==
    [s |-> [Account(s, KeyHeap(k)) EXCEPT
                !.prime[k] = [val |-> Absent, sticky |-> FALSE, exp |-> "none"],
                !.budget = @ - increase],
     st |-> "OK"]

AfterEvict(e, k) == IF e.n > 0 THEN Placed(e.s, k, 0) ELSE [s |-> e.s, st |-> "OOM"]

AfterGC(g, k, ch, locked) ==
    IF g.n > 0 THEN Placed(g.s, k, 0) ELSE AfterEvict(Evict(g.s, ch, locked), k)

\* PrimeTable::InsertNew with the policy: a free slot, else grow, else
\* garbage-collect the hot buckets, else evict; bad_alloc otherwise.
InsertNew(s, k, offset, ch, locked) ==
    CASE Cardinality(PresentKeys(s)) < s.capacity -> Placed(s, k, 0)
      [] CanGrow(s, offset) ->
            Placed([s EXCEPT !.capacity = @ + SegCap], k, SegBytes)
      [] OTHER -> AfterGC(GarbageCollect(s, ch.hot, ch.jblock), k, ch, locked)

\* In store mode an insertion over the budget is refused before InsertNew.
AddNewKey(s, k, ch, locked) ==
    IF ApplyMemoryLimit /\ ~s.cache /\ s.budget - KeyLen[k] < 0
    THEN [s |-> s, st |-> "OOM"]
    ELSE InsertNew(s, k, -KeyLen[k], ch, locked)

(***************************************************************************)
(* SET, MSET and DEL                                                       *)
(***************************************************************************)

\* Mutant of ReduceHeapUsage: orig_heap_size not reset, so the
\* AutoUpdater subtracts the old value a second time.
ReduceHeapUsageNoReset(s, k) == Account(s, -2 * ValHeap(s.prime[k].val))

\* AutoUpdater::ReduceHeapUsage followed by Run with orig_heap_size 0.
ReduceHeapUsage(s, k) == Account(s, -ValHeap(s.prime[k].val))

\* SetCmd::SetExisting / AddNew: expiry, STICK, value; the AutoUpdater
\* accounts the new value.  p = [px, stick].
Assign(s, k, v, p) ==
    LET e == s.prime[k]
    IN  Account([s EXCEPT !.prime[k] = [val |-> v, sticky |-> e.sticky \/ p.stick,
                                        exp |-> IF p.px THEN "live" ELSE "none"]],
                ValHeap(v))

SetExisting(s, k, v, p) == Assign(ReduceHeapUsage(s, k), k, v, p)

\* Mutant of SetAdded: the new entry is left without its value.
SetAddedNoAssign(a, k, v, p) == a

SetAdded(a, k, v, p) ==
    IF a.st # "OK" THEN a ELSE [s |-> Assign(a.s, k, v, p), st |-> "OK"]

\* SetCmd::Set on a looked-up shard state.
SetFound(s, k, v, p, ch, locked) ==
    IF Present(s, k) THEN [s |-> SetExisting(s, k, v, p), st |-> "OK"]
    ELSE SetAdded(AddNewKey(s, k, ch, locked), k, v, p)

SetKey(s, k, v, p, ch, locked) == SetFound(Lookup(s, k), k, v, p, ch, locked)

\* SET / MSET and DEL records as the replica applies them.
Journal(s, ks) == [s EXCEPT !.replica = @ \cup ks]
JournalDel(s, k) == [s EXCEPT !.replica = @ \ {k}]

PlainSet == [px |-> FALSE, stick |-> FALSE]

\* OpMSet over two pairs: stop at the first failed SET; one MSET record
\* holds the pairs stored.
MSetSecond(r2, k1, k2) ==
    Journal(r2.s, IF r2.st = "OK" THEN {k1, k2} ELSE {k1})

MSetFirst(r1, k1, k2, v2, ch2, locked) ==
    IF r1.st # "OK" THEN r1.s
    ELSE MSetSecond(SetKey(r1.s, k2, v2, PlainSet, ch2, locked), k1, k2)

OpMSet(s, k1, v1, k2, v2, ch1, ch2, locked) ==
    MSetFirst(SetKey(s, k1, v1, PlainSet, ch1, locked), k1, k2, v2, ch2, locked)

\* SET with its journal record.
SetJournaled(r, k) == IF r.st = "OK" THEN Journal(r.s, {k}) ELSE r.s

OpSet(s, k, v, p, ch, locked) == SetJournaled(SetKey(s, k, v, p, ch, locked), k)

\* DEL: FindMutable, Del, and the DEL record.
DelFound(f, k) == IF Present(f, k) THEN JournalDel(PerformDeletion(f, k), k) ELSE f

OpDel(s, k) == DelFound(Lookup(s, k), k)

(***************************************************************************)
(* FreeMemWithEvictionStepAtomic                                           *)
(***************************************************************************)

Bytes(s, E) == MapThenSumSet(LAMBDA k : Heap(s, k), E)

\* Mutant of HbEligible: the trans_locks check dropped.
HbEligibleUnlocked(s, k, locked) ==
    Present(s, k) /\ ~s.prime[k].sticky /\ Heap(s, k) > 0

\* The scan skips sticky entries, entries with nothing allocated and
\* entries whose key is in trans_locks.
HbEligible(s, k, locked) ==
    Present(s, k) /\ ~s.prime[k].sticky /\ Heap(s, k) > 0 /\ k \notin locked

\* The scan visits at most max_segment_to_consider segments from a random
\* one, so E is any set of eligible entries it could have evicted before it
\* stopped: before the last eviction neither max_eviction_per_heartbeat nor
\* the byte goal was reached.
HbScan(s, E, goal, locked) ==
    /\ \A k \in E : HbEligible(s, k, locked)
    /\ E = {} \/ \E e \in E : /\ Cardinality(E \ {e}) < MaxEvictPerHb
                              /\ Bytes(s, E \ {e}) < goal

\* Delete the entries, then journal each as expired.
FreeMemWithEvictionStepAtomic(s, E) ==
    FoldSet(LAMBDA k, acc : RecordExpiry(acc, k),
            FoldSet(LAMBDA k, acc : PerformDeletion(acc, k), s, E), E)

(***************************************************************************)
(* Steps                                                                   *)
(***************************************************************************)

Init ==
    /\ shard \in [prime : {[k \in Keys |-> Absent]}, capacity : {SegCap},
                  budget : InitBudgets, objMem : {0}, replica : {{}},
                  cache : BOOLEAN]
    /\ locks = [c \in Clients |-> {}]
    /\ ops = 0
    /\ last = Clock

\* What an insertion finds when the policy runs: the hot buckets, the key
\* in the stash bucket's last slot, and whether a journal write would
\* block.  An insertion with a free slot, or no insertion, consults none.
NoChoice == [hot |-> {}, victim |-> CHOOSE k \in Keys : TRUE, jblock |-> FALSE]
InsertChoices(s, k) ==
    LET f == Lookup(s, k)
    IN  IF Present(f, k) \/ Cardinality(PresentKeys(f)) < f.capacity THEN {NoChoice}
        ELSE [hot : SUBSET {x \in Keys : Due(f, x)}, victim : PresentKeys(f),
              jblock : BOOLEAN]
Params == [px : BOOLEAN, stick : BOOLEAN]

\* A transaction takes the locks of its keys (Transaction::Schedule).
Lock(c, K) ==
    /\ locks[c] = {}
    /\ K # {}
    /\ K \cap Locked = {}
    /\ locks' = [locks EXCEPT ![c] = K]
    /\ last' = c
    /\ UNCHANGED <<shard, ops>>

Release(c) ==
    /\ locks[c] # {}
    /\ locks' = [locks EXCEPT ![c] = {}]
    /\ last' = c
    /\ UNCHANGED <<shard, ops>>

\* One hop of c, run to completion by the shard.
Hop(c, s) ==
    /\ ops < MaxOps
    /\ shard' = s
    /\ ops' = ops + 1
    /\ last' = c
    /\ UNCHANGED locks

Set(c, k, v, p) ==
    /\ k \in locks[c]
    /\ \E ch \in InsertChoices(shard, k) : Hop(c, OpSet(shard, k, v, p, ch, Locked))

MSet(c, k1, v1, k2, v2) ==
    /\ locks[c] = {k1, k2}
    /\ k1 # k2
    /\ \E ch1 \in InsertChoices(shard, k1) :
          \E ch2 \in InsertChoices(SetKey(shard, k1, v1, PlainSet, ch1, Locked).s, k2) :
             Hop(c, OpMSet(shard, k1, v1, k2, v2, ch1, ch2, Locked))

Del(c, k) ==
    /\ k \in locks[c]
    /\ Hop(c, OpDel(shard, k))

\* The heartbeat frees memory in cache mode.
Heartbeat(goal) ==
    /\ shard.cache
    /\ \E E \in SUBSET Keys :
          /\ HbScan(shard, E, goal, Locked)
          /\ shard' = FreeMemWithEvictionStepAtomic(shard, E)
    /\ last' = Shard
    /\ UNCHANGED <<locks, ops>>

\* Time passes a key's deadline.
Lapse(k) ==
    /\ Present(shard, k)
    /\ shard.prime[k].exp = "live"
    /\ shard' = [shard EXCEPT !.prime[k].exp = "due"]
    /\ last' = Clock
    /\ UNCHANGED <<locks, ops>>

Next ==
    \/ \E c \in Clients :
          \/ \E K \in SUBSET Keys : Lock(c, K)
          \/ Release(c)
          \/ \E k \in Keys, v \in Vals, p \in Params : Set(c, k, v, p)
          \/ \E k1, k2 \in Keys, v1, v2 \in Vals : MSet(c, k1, v1, k2, v2)
          \/ \E k \in Keys : Del(c, k)
    \/ \E goal \in Goals : Heartbeat(goal)
    \/ \E k \in Keys : Lapse(k)

Spec == Init /\ [][Next]_vars

(***************************************************************************)
(* Properties                                                              *)
(***************************************************************************)

TypeOK ==
    /\ shard \in [prime : [Keys -> Entry \cup {Absent}], capacity : Nat,
                  budget : Int, objMem : Int, replica : SUBSET Keys,
                  cache : BOOLEAN]
    /\ locks \in [Clients -> SUBSET Keys]
    /\ ops \in 0..MaxOps
    /\ last \in Clients \cup {Shard, Clock}

\* Spec P2: obj_memory_usage equals the heap bytes of the keys and values
\* in the table, through inserts, overwrites (AutoUpdater with
\* ReduceHeapUsage), deletions, lazy expiry, garbage collection and both
\* eviction paths.
ObjMemoryExact ==
    shard.objMem = Bytes(shard, PresentKeys(shard))

\* Every key the table loses is journaled: the replica applying the
\* records holds exactly the master's keys, whichever of DEL, lazy expiry,
\* GarbageCollect, Evict or the heartbeat removed them.
EvictionsReplicated ==
    shard.replica = PresentKeys(shard)

\* Spec P6: a sticky key whose deadline has not passed leaves the table
\* only by a DEL of the transaction holding it; neither Evict (inside
\* another key's insertion) nor the heartbeat removes it.
StickyNeverEvicted ==
    [][\A k \in Keys :
          /\ Present(shard, k) /\ shard.prime[k].sticky /\ ~Due(shard, k)
          /\ ~Present(shard', k)
          => last' \in Clients /\ k \in locks[last']]_vars

\* While a transaction holds a key's lock, no step of another transaction
\* or of the heartbeat changes the key's entry unless its deadline passed:
\* a value read in one hop is still there in the next.
LockedKeysStable ==
    [][\A c \in Clients : \A k \in locks[c] :
          last' \notin {c, Clock} /\ ~Due(shard, k)
          => shard'.prime[k] = shard.prime[k]]_vars

====
