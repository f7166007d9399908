---------------------------- MODULE SliceSnapshot ----------------------------
(***************************************************************************)
(* Point-in-time snapshotting of one shard (server/snapshot.cc) against   *)
(* the versioned prime table and the change-callback registry of DbSlice  *)
(* (server/db_slice.cc).                                                   *)
(*                                                                         *)
(* Every bucket carries a version.  A snapshot registers a change         *)
(* callback whose id is its snapshot_version_ and serializes each bucket  *)
(* whose version is below it exactly once, raising the version.  Command  *)
(* fibers fire the callbacks before they touch a bucket, so the bucket is *)
(* side-saved with its pre-mutation contents.  Serializing a bucket may   *)
(* preempt between entries (big values flush to the consumer); the        *)
(* per-snapshot big_value_mu_ and the serialization latch keep the other  *)
(* fibers out.  The serialized stream of a snapshot also receives journal *)
(* entries (replication), which must follow the rdb record of their key.  *)
(*                                                                         *)
(* DbSlice::FlushSlotsFb is the other owner of a change callback: it       *)
(* deletes the keys of the flushed slots from every bucket whose version  *)
(* is below its own, by its traversal or from its callback before a       *)
(* command or a snapshot raises the bucket above it.                      *)
(***************************************************************************)
EXTENDS Naturals, Sequences, FiniteSets

CONSTANTS
  Keys,       \* keys of the database (model values)
  Vals,       \* values a key can hold
  NoVal,      \* marks an absent key
  NB,         \* number of physical buckets, traversed in order 1..NB
  Home,       \* Home[k]: the bucket a key hashes to
  Snapshots,  \* SliceSnapshot instances; each is also the id of its fiber
  Cmds,       \* command fibers of the shard
  MaxOps,     \* bound on the number of commands and flushes started
  StartWaitsLatch, \* the caller of Start waits for serialization_latch_
  Flushes,    \* FlushSlotsFb fibers (at most one run each)
  FlushKeys,  \* keys whose slots the flushes delete
  None        \* no fiber / no serialization in progress

ASSUME NB \in Nat \ {0} /\ MaxOps \in Nat /\ StartWaitsLatch \in BOOLEAN
ASSUME Home \in [Keys -> 1..NB] /\ FlushKeys \subseteq Keys

Buckets == 1..NB
Fibers  == Cmds \cup Snapshots \cup Flushes

\* The buckets an insert of k may touch: its home bucket and the neighbour
\* that dash uses for displacement (PrimeTable::CVCUponInsert).
Cands(k) == {Home[k], (Home[k] % NB) + 1}

VARIABLES
  table,       \* DbTable::prime: key -> value, NoVal when absent
  loc,         \* bucket holding each key
  ver,         \* bucket versions
  nextVersion, \* DbSlice::version_, consumed by NextVersion()
  changeCb,    \* DbSlice::change_cb_: sequence of [v, snap], ordered by v;
               \* snap is the owning snapshot or flush
  latch,       \* fibers holding serialization_latch_ (LocalLatch counter)
  jlock,       \* fibers iterating the journal callbacks, holding their
               \* lock shared; (un)registering takes it exclusively
  snapVer,     \* SliceSnapshot::snapshot_version_
  phase,       \* lifecycle of each snapshot
  cursor,      \* snapshot_cursor_: next bucket to traverse
  mu,          \* big_value_mu_ holder of each snapshot
  tpc,         \* where the traversal fiber is inside BucketSaveCb
  tcb,         \* FlushChangeToEarlierCallbacks loop: index and bucket_version
  ser,         \* SerializeBucket in progress, per fiber
  stream,      \* serialized records and journal entries, per snapshot
  cmd,         \* command fiber state
  ops,         \* commands started so far
  image,       \* ghost: the table when each snapshot registered
  lost,        \* ghost: keys expired before the snapshot saved them
  running,     \* the fiber the shard thread is running, None between fibers
  flush        \* FlushSlotsFb of each flush: phase, next_version, cursor

vars == <<table, loc, ver, nextVersion, changeCb, latch, jlock, snapVer, phase,
          cursor, mu, tpc, tcb, ser, stream, cmd, ops, image, lost, running,
          flush>>

snapVars == <<snapVer, phase, cursor, tpc, tcb, image, flush>>

Phases == {"idle", "registering", "traverse", "finished", "done"}
Journaled(s) == phase[s] \in {"traverse", "finished"}
Present(k) == table[k] /= NoVal
InBucket(b) == {k \in Keys : Present(k) /\ loc[k] = b}

RdbIdx(s) == {i \in 1..Len(stream[s]) : stream[s][i].kind = "rdb"}
Saved(s, k) == \E i \in RdbIdx(s) : stream[s][i].key = k

\* The lost ghost after keys K are deleted without a change callback: a key
\* of a snapshot's image that it has not saved yet can no longer be saved.
Forgotten(K) ==
  [s \in Snapshots |->
     lost[s] \cup {k \in K : phase[s] /= "idle" /\ image[s][k] /= NoVal /\ ~Saved(s, k)}]

Record == [kind : {"rdb", "jrnl", "jexp"}, key : Keys, val : Vals \cup {NoVal}]
Rdb(k, v) == [kind |-> "rdb", key |-> k, val |-> v]

IdleCmd == [pc |-> "idle", op |-> "none", key |-> None, val |-> NoVal,
            bkt |-> 1, i |-> 0, limit |-> 0, todo |-> {}, jpend |-> {}]

-----------------------------------------------------------------------------
(* SerializeBucket: raise the bucket version, then write its entries one   *)
(* at a time; the fiber may be preempted between two entries.             *)

\* Mutant: SerializeBucket that forgets to raise the bucket version.
StartSerializeNoVersion(f, s, b) ==
  /\ ver' = ver
  /\ ser' = [ser EXCEPT ![f] = [snap |-> s, bkt |-> b, done |-> {}]]


StartSerialize(f, s, b) ==
  /\ ver' = [ver EXCEPT ![b] = snapVer[s]]
  /\ ser' = [ser EXCEPT ![f] = [snap |-> s, bkt |-> b, done |-> {}]]

\* SerializeEntry: one entry of the bucket goes to the snapshot's stream.
SerializeEntry(f) ==
  /\ ser[f] /= None
  /\ \E k \in InBucket(ser[f].bkt) \ ser[f].done :
       /\ stream' = [stream EXCEPT ![ser[f].snap] = Append(@, Rdb(k, table[k]))]
       /\ ser' = [ser EXCEPT ![f].done = @ \cup {k}]
  /\ running' \in {f, None}  \* a big value flush may preempt
  /\ UNCHANGED <<table, loc, ver, nextVersion, changeCb, latch, jlock, snapVars,
                 mu, cmd, ops, lost>>

\* The loop over the bucket reached its end.
SerializeDone(f) ==
  /\ ser[f] /= None
  /\ InBucket(ser[f].bkt) \subseteq ser[f].done
  /\ ser' = [ser EXCEPT ![f] = None]
  /\ running' = f
  /\ UNCHANGED <<table, loc, ver, nextVersion, changeCb, latch, jlock, snapVars,
                 mu, stream, cmd, ops, lost>>

-----------------------------------------------------------------------------
(* DbSlice::FlushSlotsFb.  iterate_bucket deletes, with PerformDeletion    *)
(* and without any change callback, every key of the flushed slots in a  *)
(* bucket whose version is below the flush's next_version.  It runs from  *)
(* the flush's own traversal and from its on_change, which a command or a *)
(* snapshot calls before it raises a bucket (CVCUponInsert for a key).    *)

IterateBuckets(f, B) ==
  LET K == {k \in FlushKeys : Present(k) /\ loc[k] \in B /\ ver[loc[k]] < flush[f].v}
  IN  /\ table' = [k \in Keys |-> IF k \in K THEN NoVal ELSE table[k]]
      /\ lost' = Forgotten(K)

\* FlushSlots spawns FlushSlotsFb, which registers its callback (without
\* waiting for the latch) and traverses the first bucket before it yields.
\* The node no longer serves the slots, so no command on their keys is in
\* flight.
FlushSlotsStart(f) ==
  /\ flush[f].phase = "idle" /\ ops < MaxOps
  /\ \A c \in Cmds : cmd[c].key \notin FlushKeys
  /\ flush' = [flush EXCEPT ![f] = [phase |-> "traverse", v |-> nextVersion,
                                    cursor |-> 1]]
  /\ nextVersion' = nextVersion + 1
  /\ changeCb' = Append(changeCb, [v |-> nextVersion, snap |-> f])
  /\ ops' = ops + 1
  /\ running' = f
  /\ UNCHANGED <<table, loc, ver, latch, jlock, snapVer, phase, cursor, mu, tpc,
                 tcb, ser, stream, cmd, image, lost>>

\* One TraverseBuckets step of the flush, then ThisFiber::Yield.
FlushTraverse(f) ==
  /\ flush[f].phase = "traverse" /\ flush[f].cursor <= NB
  /\ IterateBuckets(f, {flush[f].cursor})
  /\ flush' = [flush EXCEPT ![f].cursor = @ + 1]
  /\ running' = None
  /\ UNCHANGED <<loc, ver, nextVersion, changeCb, latch, jlock, snapVer, phase,
                 cursor, mu, tpc, tcb, ser, stream, cmd, ops, image>>

\* The traversal is over: UnregisterOnChange waits for the latch.
FlushUnregister(f) ==
  /\ flush[f].phase = "traverse" /\ flush[f].cursor = NB + 1
  /\ latch = {}
  /\ changeCb' = SelectSeq(changeCb, LAMBDA e : e.snap /= f)
  /\ flush' = [flush EXCEPT ![f].phase = "done"]
  /\ running' = None
  /\ UNCHANGED <<table, loc, ver, nextVersion, latch, jlock, snapVer, phase,
                 cursor, mu, tpc, tcb, ser, stream, cmd, ops, image, lost>>

-----------------------------------------------------------------------------
(* SliceSnapshot::Start: RegisterOnChange hands out the next version as    *)
(* the snapshot version and the callback id.  RegisterOnChange itself does *)
(* not wait for the latch; StartWaitsLatch says whether the caller does.   *)
Start(s) ==
  /\ phase[s] = "idle"
  /\ StartWaitsLatch => latch = {}
  /\ snapVer' = [snapVer EXCEPT ![s] = nextVersion]
  /\ nextVersion' = nextVersion + 1
  /\ changeCb' = Append(changeCb, [v |-> nextVersion, snap |-> s])
  /\ phase' = [phase EXCEPT ![s] = "registering"]
  /\ image' = [image EXCEPT ![s] = table]
  /\ running' = s
  /\ UNCHANGED <<table, loc, ver, latch, jlock, cursor, mu, tpc, tcb, ser,
                 stream, cmd, ops, lost, flush>>

\* Start continued: journal->RegisterOnChange waits while a journal record
\* is being handed to the callbacks; then the traversal fiber is spawned.
RegisterJournal(s) ==
  /\ phase[s] = "registering"
  /\ jlock = {}
  /\ phase' = [phase EXCEPT ![s] = "traverse"]
  /\ cursor' = [cursor EXCEPT ![s] = 1]
  /\ running' = None
  /\ UNCHANGED <<table, loc, ver, nextVersion, changeCb, latch, jlock, snapVer,
                 mu, tpc, tcb, ser, stream, cmd, ops, image, lost, flush>>

\* Mutant: the cursor is not advanced past a skipped bucket.
BucketSaveCbNoAdvance(s) ==
  LET b == cursor[s] IN
  /\ phase[s] = "traverse" /\ tpc[s] = "next" /\ b <= NB
  /\ mu[s] = None
  /\ IF ver[b] >= snapVer[s]
       THEN /\ running' \in {s, None}
            /\ UNCHANGED <<cursor, mu, latch, tpc, tcb>>
       ELSE /\ mu' = [mu EXCEPT ![s] = s]
            /\ latch' = latch \cup {s}
            /\ tpc' = [tpc EXCEPT ![s] = "earlier"]
            /\ tcb' = [tcb EXCEPT ![s] = [i |-> 1, bv |-> ver[b]]]
            /\ running' = s
            /\ UNCHANGED cursor
  /\ UNCHANGED <<table, loc, ver, nextVersion, changeCb, jlock, snapVer, phase,
                 ser, stream, cmd, ops, image, lost, flush>>

\* BucketSaveCb: lock big_value_mu_, skip a bucket already at or above the
\* snapshot version, otherwise let older snapshots save it first.
BucketSaveCb(s) ==
  LET b == cursor[s] IN
  /\ phase[s] = "traverse" /\ tpc[s] = "next" /\ b <= NB
  /\ mu[s] = None
  /\ IF ver[b] >= snapVer[s]
       THEN /\ cursor' = [cursor EXCEPT ![s] = b + 1]
            /\ running' \in {s, None}  \* PushSerialized or Yield
            /\ UNCHANGED <<mu, latch, tpc, tcb>>
       ELSE /\ mu' = [mu EXCEPT ![s] = s]
            /\ latch' = latch \cup {s}
            /\ tpc' = [tpc EXCEPT ![s] = "earlier"]
            /\ tcb' = [tcb EXCEPT ![s] = [i |-> 1, bv |-> ver[b]]]
            /\ running' = s
            /\ UNCHANGED cursor
  /\ UNCHANGED <<table, loc, ver, nextVersion, changeCb, jlock, snapVer, phase,
                 ser, stream, cmd, ops, image, lost, flush>>

\* Mutant: BucketSaveCb without FlushChangeToEarlierCallbacks.
FlushChangeToNoEarlier(s) ==
  /\ phase[s] = "traverse" /\ tpc[s] = "earlier"
  /\ latch' = latch \ {s}
  /\ tpc' = [tpc EXCEPT ![s] = "own"]
  /\ running' = s
  /\ UNCHANGED <<table, loc, ver, nextVersion, changeCb, jlock, snapVer, phase,
                 cursor, mu, tcb, ser, stream, cmd, ops, image, lost, flush>>

\* FlushChangeToEarlierCallbacks: one iteration of its loop over change_cb_.
\* It stops at the snapshot's own callback; an older callback is fired when
\* its version is above the bucket version read on entry.
FlushChangeToEarlierCallbacks(s) ==
  LET b == cursor[s]
      e == changeCb[tcb[s].i]
  IN
  /\ phase[s] = "traverse" /\ tpc[s] = "earlier"
  /\ CASE e.v = snapVer[s] ->
            /\ latch' = latch \ {s}
            /\ tpc' = [tpc EXCEPT ![s] = "own"]
            /\ UNCHANGED <<table, ver, ser, mu, tcb, lost>>
       [] tcb[s].bv < e.v /\ e.snap \in Flushes ->
            \* the on_change of FlushSlotsFb, which never suspends
            /\ IterateBuckets(e.snap, {b})
            /\ tcb' = [tcb EXCEPT ![s].i = @ + 1]
            /\ UNCHANGED <<ver, ser, mu, tpc, latch>>
       [] tcb[s].bv < e.v ->
            \* OnDbChange of the older snapshot, under its big_value_mu_
            /\ mu[e.snap] = None
            /\ IF ver[b] < snapVer[e.snap]
                 THEN /\ StartSerialize(s, e.snap, b)
                      /\ mu' = [mu EXCEPT ![e.snap] = s]
                      /\ tpc' = [tpc EXCEPT ![s] = "earlier_ser"]
                      /\ UNCHANGED tcb
                 ELSE /\ tcb' = [tcb EXCEPT ![s].i = @ + 1]
                      /\ UNCHANGED <<ver, ser, mu, tpc>>
            /\ UNCHANGED <<table, latch, lost>>
       [] OTHER ->
            /\ tcb' = [tcb EXCEPT ![s].i = @ + 1]
            /\ UNCHANGED <<table, ver, ser, mu, tpc, latch, lost>>
  /\ running' = s
  /\ UNCHANGED <<loc, nextVersion, changeCb, jlock, snapVer, phase,
                 cursor, stream, cmd, ops, image, flush>>

\* The older snapshot's OnDbChange returned: release its big_value_mu_.
EarlierSaved(s) ==
  LET e == changeCb[tcb[s].i] IN
  /\ phase[s] = "traverse" /\ tpc[s] = "earlier_ser" /\ ser[s] = None
  /\ mu' = [mu EXCEPT ![e.snap] = None]
  /\ tcb' = [tcb EXCEPT ![s].i = @ + 1]
  /\ tpc' = [tpc EXCEPT ![s] = "earlier"]
  /\ running' = s
  /\ UNCHANGED <<table, loc, ver, nextVersion, changeCb, latch, jlock, snapVer,
                 phase, cursor, ser, stream, cmd, ops, image, lost, flush>>

\* BucketSaveCb continued: under the latch, SerializeBucket for this snapshot.
SaveOwnBucket(s) ==
  /\ phase[s] = "traverse" /\ tpc[s] = "own"
  /\ StartSerialize(s, s, cursor[s])
  /\ latch' = latch \cup {s}
  /\ tpc' = [tpc EXCEPT ![s] = "own_ser"]
  /\ running' = s
  /\ UNCHANGED <<table, loc, nextVersion, changeCb, jlock, snapVer, phase,
                 cursor, mu, tcb, stream, cmd, ops, image, lost, flush>>

\* Mutant: the cursor is advanced twice after a saved bucket.
OwnBucketSavedDoubleStep(s) ==
  /\ phase[s] = "traverse" /\ tpc[s] = "own_ser" /\ ser[s] = None
  /\ latch' = latch \ {s}
  /\ mu' = [mu EXCEPT ![s] = None]
  /\ cursor' = [cursor EXCEPT ![s] = @ + 2]
  /\ tpc' = [tpc EXCEPT ![s] = "next"]
  /\ running' \in {s, None}
  /\ UNCHANGED <<table, loc, ver, nextVersion, changeCb, jlock, snapVer, phase,
                 tcb, ser, stream, cmd, ops, image, lost, flush>>

\* BucketSaveCb returns: drop the latch and big_value_mu_, advance the cursor.
OwnBucketSaved(s) ==
  /\ phase[s] = "traverse" /\ tpc[s] = "own_ser" /\ ser[s] = None
  /\ latch' = latch \ {s}
  /\ mu' = [mu EXCEPT ![s] = None]
  /\ cursor' = [cursor EXCEPT ![s] = @ + 1]
  /\ tpc' = [tpc EXCEPT ![s] = "next"]
  /\ running' \in {s, None}  \* PushSerialized or Yield
  /\ UNCHANGED <<table, loc, ver, nextVersion, changeCb, jlock, snapVer, phase,
                 tcb, ser, stream, cmd, ops, image, lost, flush>>

\* End of IterateBucketsFb: UnregisterOnChange waits for the latch to drop
\* to zero and erases the callback.
UnregisterOnChange(s) ==
  /\ phase[s] = "traverse" /\ tpc[s] = "next" /\ cursor[s] = NB + 1
  /\ latch = {}
  /\ changeCb' = SelectSeq(changeCb, LAMBDA e : e.snap /= s)
  /\ phase' = [phase EXCEPT ![s] = "finished"]
  /\ running' = None
  /\ UNCHANGED <<table, loc, ver, nextVersion, latch, jlock, snapVer, cursor,
                 mu, tpc, tcb, ser, stream, cmd, ops, image, lost, flush>>

\* Mutant: the journal callback is dropped without waiting for a record
\* being handed to the callbacks.
FinalizeJournalStreamNoWait(s) ==
  /\ phase[s] = "finished"
  /\ phase' = [phase EXCEPT ![s] = "done"]
  /\ running' = None
  /\ UNCHANGED <<table, loc, ver, nextVersion, changeCb, latch, jlock, snapVer,
                 cursor, mu, tpc, tcb, ser, stream, cmd, ops, image, lost, flush>>

\* FinalizeJournalStream: unregister the journal callback.
FinalizeJournalStream(s) ==
  /\ phase[s] = "finished"
  /\ jlock = {}
  /\ phase' = [phase EXCEPT ![s] = "done"]
  /\ running' = None
  /\ UNCHANGED <<table, loc, ver, nextVersion, changeCb, latch, jlock, snapVer,
                 cursor, mu, tpc, tcb, ser, stream, cmd, ops, image, lost, flush>>

-----------------------------------------------------------------------------
(* Command fibers.  A command holds its key locked for its whole run, so   *)
(* no two commands touch one key at once (transaction intent locks).       *)

KeyFree(k) == \A c \in Cmds : cmd[c].key /= k

\* Cluster routing: no command writes a key of a slot being flushed.
Routed(k) == k \in FlushKeys => \A f \in Flushes : flush[f].phase = "idle"

\* Mutant: the loop bound misses the newest callback.
EnterCallbacksShortLimit(c, rec) ==
  /\ cmd' = [cmd EXCEPT ![c] = [rec EXCEPT !.pc = "cb", !.i = 1,
                                           !.limit = Len(changeCb) - 1]]
  /\ latch' = IF changeCb = <<>> THEN latch ELSE latch \cup {c}
  /\ ops' = ops + 1

\* Entry of CallChangeCallbacks: the latch is taken only when change_cb_ is
\* not empty, and the loop runs over the callbacks registered right now.
EnterCallbacks(c, rec) ==
  /\ cmd' = [cmd EXCEPT ![c] = [rec EXCEPT !.pc = "cb", !.i = 1,
                                           !.limit = Len(changeCb)]]
  /\ latch' = IF changeCb = <<>> THEN latch ELSE latch \cup {c}
  /\ ops' = ops + 1

\* FindMutable / AddOrFind on an existing key, followed by an overwrite
\* (val in Vals) or by Del (val = NoVal): PreUpdateBlocking starts with the
\* callbacks, on the bucket iterator found now.
FindMutable(c, k, v) ==
  /\ cmd[c].pc = "idle" /\ ops < MaxOps
  /\ Present(k) /\ KeyFree(k) /\ Routed(k)
  /\ EnterCallbacks(c, [IdleCmd EXCEPT !.op = "update", !.key = k, !.val = v,
                                        !.bkt = loc[k]])
  /\ running' = c
  /\ UNCHANGED <<table, loc, ver, nextVersion, changeCb, jlock, snapVars, mu,
                 ser, stream, image, lost>>

\* AddOrFindInternal on a missing key: CallChangeCallbacks(ChangeReq{key}).
AddOrFind(c, k, v) ==
  /\ cmd[c].pc = "idle" /\ ops < MaxOps
  /\ ~Present(k) /\ KeyFree(k) /\ Routed(k)
  /\ EnterCallbacks(c, [IdleCmd EXCEPT !.op = "insert", !.key = k, !.val = v])
  /\ running' = c
  /\ UNCHANGED <<table, loc, ver, nextVersion, changeCb, jlock, snapVars, mu,
                 ser, stream, image, lost>>

\* ExpireIfNeeded on a key whose deadline passed: the expiry is journaled
\* (RecordExpiryBlocking) before the deletion, and no change callback runs.
ExpireIfNeeded(c, k) ==
  /\ cmd[c].pc = "idle" /\ ops < MaxOps
  /\ Present(k) /\ KeyFree(k)
  /\ cmd' = [cmd EXCEPT ![c] = [IdleCmd EXCEPT !.pc = "jwait", !.op = "expire",
                                                !.key = k, !.val = NoVal]]
  /\ ops' = ops + 1
  /\ running' = c
  /\ UNCHANGED <<table, loc, ver, nextVersion, changeCb, latch, jlock, snapVars,
                 mu, ser, stream, image, lost>>

\* Mutant: OnDbChange without big_value_mu_.
CallChangeCallbacksNoMutex(c) ==
  LET r == cmd[c]
      s == changeCb[r.i].snap
      cvc == {b \in Cands(r.key) : ver[b] < snapVer[s]}
  IN
  /\ r.pc = "cb" /\ r.i <= r.limit /\ s \in Snapshots
  /\ \/ /\ r.op = "update" /\ ver[r.bkt] < snapVer[s]
        /\ StartSerialize(c, s, r.bkt)
        /\ mu' = [mu EXCEPT ![s] = c]
        /\ cmd' = [cmd EXCEPT ![c].pc = "cbser"]
     \/ /\ r.op = "insert" /\ cvc /= {}
        /\ mu' = [mu EXCEPT ![s] = c]
        /\ cmd' = [cmd EXCEPT ![c].pc = "cvc", ![c].todo = cvc]
        /\ UNCHANGED <<ver, ser>>
     \/ /\ \/ r.op = "update" /\ ver[r.bkt] >= snapVer[s]
           \/ r.op = "insert" /\ cvc = {}
        /\ cmd' = [cmd EXCEPT ![c].i = @ + 1]
        /\ UNCHANGED <<ver, ser, mu>>
  /\ running' = c
  /\ UNCHANGED <<table, loc, nextVersion, changeCb, latch, jlock, snapVars,
                 stream, ops, image, lost>>

\* One iteration of CallChangeCallbacks: SliceSnapshot::OnDbChange under the
\* snapshot's big_value_mu_.  An update side-saves the iterator's bucket if
\* it is below the snapshot version; an insert side-saves every bucket the
\* insertion may touch that is below it (CVCUponInsert).
CallChangeCallbacks(c) ==
  LET r == cmd[c]
      s == changeCb[r.i].snap
      cvc == {b \in Cands(r.key) : ver[b] < snapVer[s]}
  IN
  /\ r.pc = "cb" /\ r.i <= r.limit /\ s \in Snapshots
  /\ mu[s] = None
  /\ \/ /\ r.op = "update" /\ ver[r.bkt] < snapVer[s]
        /\ StartSerialize(c, s, r.bkt)
        /\ mu' = [mu EXCEPT ![s] = c]
        /\ cmd' = [cmd EXCEPT ![c].pc = "cbser"]
     \/ /\ r.op = "insert" /\ cvc /= {}
        /\ mu' = [mu EXCEPT ![s] = c]
        /\ cmd' = [cmd EXCEPT ![c].pc = "cvc", ![c].todo = cvc]
        /\ UNCHANGED <<ver, ser>>
     \/ /\ \/ r.op = "update" /\ ver[r.bkt] >= snapVer[s]
           \/ r.op = "insert" /\ cvc = {}
        /\ cmd' = [cmd EXCEPT ![c].i = @ + 1]
        /\ UNCHANGED <<ver, ser, mu>>
  /\ running' = c
  /\ UNCHANGED <<table, loc, nextVersion, changeCb, latch, jlock, snapVars,
                 stream, ops, image, lost>>

\* One iteration of CallChangeCallbacks that reaches the callback of a
\* flush: it cleans the iterator's bucket, or for a new key the buckets
\* the insertion may touch, when they are below the flush's version.
CallFlushCallback(c) ==
  LET r == cmd[c]
      f == changeCb[r.i].snap
  IN
  /\ r.pc = "cb" /\ r.i <= r.limit /\ f \in Flushes
  /\ IterateBuckets(f, IF r.op = "update" THEN {r.bkt} ELSE Cands(r.key))
  /\ cmd' = [cmd EXCEPT ![c].i = @ + 1]
  /\ running' = c
  /\ UNCHANGED <<loc, ver, nextVersion, changeCb, latch, jlock, snapVars, mu,
                 ser, stream, ops, image>>

\* The CVCUponInsert callback: SerializeBucket on the next collected bucket.
CVCUponInsert(c) ==
  LET r == cmd[c] IN
  /\ r.pc = "cvc" /\ ser[c] = None /\ r.todo /= {}
  /\ \E b \in r.todo :
       /\ StartSerialize(c, changeCb[r.i].snap, b)
       /\ cmd' = [cmd EXCEPT ![c].todo = @ \ {b}]
  /\ running' = c
  /\ UNCHANGED <<table, loc, nextVersion, changeCb, latch, jlock, snapVars, mu,
                 stream, ops, image, lost>>

\* OnDbChange returns: release big_value_mu_ and go to the next callback.
OnDbChangeDone(c) ==
  LET r == cmd[c] IN
  /\ \/ r.pc = "cbser"
     \/ r.pc = "cvc" /\ r.todo = {}
  /\ ser[c] = None
  /\ mu' = [mu EXCEPT ![changeCb[r.i].snap] = None]
  /\ cmd' = [cmd EXCEPT ![c].pc = "cb", ![c].i = @ + 1]
  /\ running' = c
  /\ UNCHANGED <<table, loc, ver, nextVersion, changeCb, latch, jlock, snapVars,
                 ser, stream, ops, image, lost>>

\* CallChangeCallbacks returned on an existing key: PreUpdateBlocking bumps
\* the version of the bucket the iterator points at (which may no longer be
\* the key's bucket), and the command writes or deletes the entry.
PreUpdateBlocking(c) ==
  LET r == cmd[c] IN
  /\ r.pc = "cb" /\ r.i > r.limit /\ r.op = "update"
  /\ latch' = latch \ {c}
  /\ ver' = [ver EXCEPT ![r.bkt] = nextVersion]
  /\ nextVersion' = nextVersion + 1
  /\ table' = [table EXCEPT ![r.key] = r.val]
  /\ cmd' = [cmd EXCEPT ![c].pc = "jwait"]
  /\ running' = c
  /\ UNCHANGED <<loc, changeCb, jlock, snapVars, mu, ser, stream, ops, image,
                 lost>>

\* CallChangeCallbacks returned on a missing key: InsertNew places it in a
\* candidate bucket, possibly displacing another key between candidate
\* buckets, and the bucket it landed in gets SetVersion(NextVersion()).
InsertNew(c) ==
  LET r == cmd[c]
      k == r.key
  IN
  /\ r.pc = "cb" /\ r.i > r.limit /\ r.op = "insert"
  /\ latch' = latch \ {c}
  /\ \E land \in Cands(k) :
       /\ ver' = [ver EXCEPT ![land] = nextVersion]
       /\ \/ loc' = [loc EXCEPT ![k] = land]
          \/ \E j \in Keys \ {k} :
               \E to \in (Cands(k) \cap Cands(j)) \ {land} :
                 /\ Present(j) /\ loc[j] = land
                 /\ loc' = [loc EXCEPT ![k] = land, ![j] = to]
  /\ nextVersion' = nextVersion + 1
  /\ table' = [table EXCEPT ![k] = r.val]
  /\ cmd' = [cmd EXCEPT ![c].pc = "jwait"]
  /\ running' = c
  /\ UNCHANGED <<changeCb, jlock, snapVars, mu, ser, stream, ops, image, lost>>

-----------------------------------------------------------------------------
(* Journaling.  The journal hands a record to each registered snapshot     *)
(* while holding its callback lock; SliceSnapshot::ConsumeJournalChange    *)
(* takes big_value_mu_, so it waits for a bucket being serialized.        *)

JournalRecord(c) ==
  /\ cmd[c].pc = "jwait"
  /\ jlock' = jlock \cup {c}
  /\ cmd' = [cmd EXCEPT ![c].pc = "journal",
                        ![c].jpend = {s \in Snapshots : Journaled(s)}]
  /\ running' = c
  /\ UNCHANGED <<table, loc, ver, nextVersion, changeCb, latch, snapVars, mu,
                 ser, stream, ops, image, lost>>

ConsumeJournalChange(c) ==
  LET r == cmd[c]
      kind == IF r.op = "expire" THEN "jexp" ELSE "jrnl"
  IN
  /\ r.pc = "journal"
  /\ \E s \in r.jpend :
       /\ mu[s] = None
       /\ stream' = [stream EXCEPT ![s] =
                       Append(@, [kind |-> kind, key |-> r.key, val |-> r.val])]
       /\ cmd' = [cmd EXCEPT ![c].jpend = @ \ {s}]
  /\ running' = c
  /\ UNCHANGED <<table, loc, ver, nextVersion, changeCb, latch, jlock, snapVars,
                 mu, ser, ops, image, lost>>

\* The journal record was handed to every callback.  For an expiry the
\* entry is now deleted (PerformDeletionAtomic), without a version bump.
JournalDone(c) ==
  LET r == cmd[c]
      k == r.key
  IN
  /\ r.pc = "journal" /\ r.jpend = {}
  /\ jlock' = jlock \ {c}
  /\ IF r.op = "expire"
       THEN /\ table' = [table EXCEPT ![k] = NoVal]
            /\ lost' = Forgotten({k})
       ELSE UNCHANGED <<table, lost>>
  /\ cmd' = [cmd EXCEPT ![c] = IdleCmd]
  /\ running' = None
  /\ UNCHANGED <<loc, ver, nextVersion, changeCb, latch, snapVars, mu, ser,
                 stream, ops, image>>

-----------------------------------------------------------------------------
\* Any table contents; every bucket version predates the first snapshot.
Init ==
  /\ table \in [Keys -> Vals \cup {NoVal}]
  /\ loc = Home
  /\ ver = [b \in Buckets |-> 0]
  /\ nextVersion = 1
  /\ changeCb = <<>>
  /\ latch = {}
  /\ jlock = {}
  /\ snapVer = [s \in Snapshots |-> 0]
  /\ phase = [s \in Snapshots |-> "idle"]
  /\ cursor = [s \in Snapshots |-> 1]
  /\ mu = [s \in Snapshots |-> None]
  /\ tpc = [s \in Snapshots |-> "next"]
  /\ tcb = [s \in Snapshots |-> [i |-> 1, bv |-> 0]]
  /\ ser = [f \in Fibers |-> None]
  /\ stream = [s \in Snapshots |-> <<>>]
  /\ cmd = [c \in Cmds |-> IdleCmd]
  /\ ops = 0
  /\ image = [s \in Snapshots |-> [k \in Keys |-> NoVal]]
  /\ lost = [s \in Snapshots |-> {}]
  /\ running = None
  /\ flush = [f \in Flushes |-> [phase |-> "idle", v |-> 0, cursor |-> 1]]

FlushStep(f) == FlushTraverse(f) \/ FlushUnregister(f)

SnapshotStep(s) ==
  \/ RegisterJournal(s)
  \/ BucketSaveCb(s)
  \/ FlushChangeToEarlierCallbacks(s)
  \/ EarlierSaved(s)
  \/ SaveOwnBucket(s)
  \/ OwnBucketSaved(s)
  \/ UnregisterOnChange(s)
  \/ FinalizeJournalStream(s)

CmdStep(c) ==
  \/ CallChangeCallbacks(c)
  \/ CallFlushCallback(c)
  \/ CVCUponInsert(c)
  \/ OnDbChangeDone(c)
  \/ PreUpdateBlocking(c)
  \/ InsertNew(c)
  \/ JournalRecord(c)
  \/ ConsumeJournalChange(c)
  \/ JournalDone(c)

\* A running fiber that waits for a mutex held by another fiber, for the
\* latch to drop or for the journal callback lock gives up the thread.
Blocked(f) ==
  \/ /\ f \in Cmds
     /\ LET r == cmd[f] IN
        \/ /\ r.pc = "cb" /\ r.i <= r.limit /\ changeCb[r.i].snap \in Snapshots
           /\ mu[changeCb[r.i].snap] /= None
        \/ r.pc = "journal" /\ r.jpend /= {} /\ \A s \in r.jpend : mu[s] /= None
  \/ /\ f \in Snapshots
     /\ \/ phase[f] = "registering" /\ jlock /= {}
        \/ /\ phase[f] = "traverse" /\ tpc[f] = "next"
           /\ IF cursor[f] <= NB THEN mu[f] /= None ELSE latch /= {}
        \/ /\ phase[f] = "traverse" /\ tpc[f] = "earlier"
           /\ LET e == changeCb[tcb[f].i] IN
                /\ e.v /= snapVer[f] /\ tcb[f].bv < e.v /\ e.snap \in Snapshots
                /\ mu[e.snap] /= None
  \/ /\ f \in Flushes
     /\ flush[f].phase = "traverse" /\ flush[f].cursor = NB + 1 /\ latch /= {}

Suspend(f) ==
  /\ running = f /\ Blocked(f)
  /\ running' = None
  /\ UNCHANGED <<table, loc, ver, nextVersion, changeCb, latch, jlock, snapVars,
                 mu, ser, stream, cmd, ops, lost>>

\* Steps of a fiber: the one the thread runs, or any ready fiber when the
\* thread is free.  The scheduler keeps running every fiber that is ready.
FiberStep(f) ==
  \/ /\ running \in {f, None}
     /\ \/ f \in Snapshots /\ SnapshotStep(f)
        \/ f \in Cmds /\ CmdStep(f)
        \/ f \in Flushes /\ FlushStep(f)
        \/ SerializeEntry(f)
        \/ SerializeDone(f)
  \/ Suspend(f)

\* Work that arrives from outside: snapshots requested and commands issued.
Request ==
  /\ running = None
  /\ \/ \E s \in Snapshots : Start(s)
     \/ \E f \in Flushes : FlushSlotsStart(f)
     \/ \E c \in Cmds, k \in Keys :
          \/ \E v \in Vals \cup {NoVal} : FindMutable(c, k, v)
          \/ \E v \in Vals : AddOrFind(c, k, v)
          \/ ExpireIfNeeded(c, k)

\* The bounded run is over: all snapshots done and the command budget spent.
Quiescent ==
  /\ \A s \in Snapshots : phase[s] = "done"
  /\ \A f \in Flushes : flush[f].phase /= "traverse"
  /\ ops = MaxOps
  /\ \A c \in Cmds : cmd[c].pc = "idle"
  /\ UNCHANGED vars

Next == Request \/ (\E f \in Fibers : FiberStep(f)) \/ Quiescent

Spec == Init /\ [][Next]_vars /\ \A f \in Fibers : WF_vars(FiberStep(f))

-----------------------------------------------------------------------------
TypeOK ==
  /\ table \in [Keys -> Vals \cup {NoVal}]
  /\ loc \in [Keys -> Buckets]
  /\ ver \in [Buckets -> Nat] /\ nextVersion \in Nat
  /\ \A i \in 1..Len(changeCb) : changeCb[i].snap \in Snapshots \cup Flushes
  /\ latch \subseteq Fibers /\ jlock \subseteq Cmds
  /\ phase \in [Snapshots -> Phases]
  /\ cursor \in [Snapshots -> 1..NB + 1]
  /\ mu \in [Snapshots -> Fibers \cup {None}]
  /\ \A f \in Fibers : ser[f] = None \/ ser[f].snap \in Snapshots
  /\ \A s \in Snapshots : \A i \in 1..Len(stream[s]) : stream[s][i] \in Record
  /\ ops \in 0..MaxOps
  /\ running \in Fibers \cup {None}
  /\ flush \in [Flushes -> [phase : {"idle", "traverse", "done"}, v : Nat,
                            cursor : 1..NB + 1]]

\* Point in time: every rdb record a snapshot emits, by its own traversal or
\* side-saved by a command or a newer snapshot, carries the value the key
\* had when the snapshot registered its change callback.
RdbPointInTime ==
  \A s \in Snapshots : \A i \in RdbIdx(s) :
    image[s][stream[s][i].key] = stream[s][i].val

\* Exactly once: a bucket raised to the snapshot version is never serialized
\* again for it, so no key has two rdb records in one snapshot.
RdbExactlyOnce ==
  \A s \in Snapshots : \A i, j \in RdbIdx(s) :
    i < j => stream[s][i].key /= stream[s][j].key

\* Completeness: once IterateBucketsFb is over, every key present at
\* registration has been serialized, unless it expired first.
SnapshotComplete ==
  \A s \in Snapshots : phase[s] \in {"finished", "done"} =>
    \A k \in Keys : image[s][k] /= NoVal /\ k \notin lost[s] => Saved(s, k)

\* The ordering promised above ConsumeJournalChange: a journal entry of a
\* command reaches the stream after the rdb record of its key, never before.
JournalAfterRdb ==
  \A s \in Snapshots : \A i, j \in 1..Len(stream[s]) :
    (i < j /\ stream[s][i].kind = "jrnl") =>
      ~(stream[s][j].kind = "rdb" /\ stream[s][j].key = stream[s][i].key)

\* Spec P8 and the comment at the head of DbSlice::FlushSlotsFb: once the
\* flush has unregistered its callback, no key of the flushed slots that
\* existed when it started is left.  Commands and snapshots that raise a
\* bucket's version above the flush's are meant to run its callback first.
FlushSlotsComplete ==
  \A f \in Flushes : flush[f].phase = "done" => \A k \in FlushKeys : ~Present(k)

\* Every snapshot that is started finishes its traversal and unregisters.
SnapshotTerminates ==
  \A s \in Snapshots : phase[s] = "registering" ~> phase[s] = "finished"

-----------------------------------------------------------------------------
(* Refinement of the abstract snapshot.  Registering and traversing are   *)
(* the abstract "open"; the fibers, locks, versions and cursors are       *)
(* hidden.                                                                *)

AbstractPhase ==
  [s \in Snapshots |-> IF phase[s] \in {"registering", "traverse"} THEN "open" ELSE phase[s]]

PIT == INSTANCE PointInTimeSnapshot WITH db <- table, phase <- AbstractPhase

\* SliceSnapshot implements PointInTimeSnapshot: every rdb record that
\* SerializeEntry writes, from the traversal or a side-save, is an owed key
\* of the image with its image value; ConsumeJournalChange writes a
\* command's record only after the key's rdb record; UnregisterOnChange
\* ends the traversal only when nothing is owed; after
\* FinalizeJournalStream nothing reaches the stream; expiries and slot
\* flushes are the only deletions a snapshot does not see first.
PointInTimeRefined == PIT!Spec

=============================================================================
