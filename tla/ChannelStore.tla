---------------------------- MODULE ChannelStore ----------------------------
(***************************************************************************)
(* The pub/sub channel store (server/channel_store.cc).                    *)
(*                                                                         *)
(* control_block.most_recent names the current ChannelStore, a pair of     *)
(* ChannelMaps (channels and patterns) whose slots point to SubscribeMaps. *)
(* Every thread keeps its own pointer to a store (ServerState's            *)
(* channel_store()) and reads it without locks (FetchSubscribers).         *)
(* Writers (ChannelStoreUpdater::Apply) serialize on update_mu, copy a map *)
(* when a slot must be added or removed and otherwise swap one slot in     *)
(* place, publish the store, refresh every thread's pointer with           *)
(* AwaitBrief and only then delete what they replaced.  A cluster slot     *)
(* migration drops whole channels (UnsubscribeAfterClusterSlotMigration,   *)
(* ApplyAndUnsubscribe).                                                   *)
(*                                                                         *)
(* Objects live on a heap: stores, maps and submaps are indexed by         *)
(* allocation id, and live holds the ids not yet deleted, so reading a     *)
(* deleted object and leaking one are both visible.  Threads run in        *)
(* parallel; a FetchSubscribers is never preempted on its own thread, so   *)
(* a brief for that thread waits for it to finish.                         *)
(***************************************************************************)
EXTENDS Naturals, FiniteSets, TLC

CONSTANTS
    Threads,           \* proactor threads
    Conns,             \* connections (ConnectionContext)
    Channels,          \* channel names; pattern keys are drawn from the same set
    ConnThread,        \* the thread each connection lives on
    Migrator,          \* the fiber running a cluster slot migration
    MigThread,         \* the thread it runs on
    MaxMigrations,     \* bound on slot migrations
    MaxCmds,           \* bound on SUBSCRIBE/UNSUBSCRIBE commands
    AllowUnsubscribe   \* may connections unsubscribe?

Kinds == {"chans", "pats"}
Nil == 0
Free == "free"
Actors == Conns \cup {Migrator}

VARIABLES
    stores,      \* id -> [chans, pats]: ChannelStore objects
    maps,        \* id -> [Channels -> id or Nil]: ChannelMap objects
    submaps,     \* id -> SUBSET Conns: SubscribeMap objects
    live,        \* ids allocated and not deleted
    nextId,      \* the next id to allocate
    mostRecent,  \* control_block.most_recent
    mu,          \* holder of control_block.update_mu, or Free
    local,       \* thread -> its ServerState channel_store pointer
    upd,         \* actor -> its ChannelStoreUpdater in progress
    rd,          \* thread -> its FetchSubscribers in progress
    subscribed,  \* conn -> kind -> channels the connection holds (subscribe_info)
    cmds,        \* commands issued
    migs,        \* migrations run
    crashed,     \* an end() iterator was dereferenced
    resized      \* a map reachable by a reader had a slot added or removed

vars == <<stores, maps, submaps, live, nextId, mostRecent, mu, local, upd, rd,
          subscribed, cmds, migs, crashed, resized>>

IdleUpd == [pc |-> "idle", kind |-> "chans", add |-> FALSE, ops |-> {}, todo |-> {},
            store |-> Nil, target |-> Nil, copied |-> FALSE, free |-> {},
            pending |-> {}, subs |-> [ch \in Channels |-> {}]]

Slot(s, k, ch) == maps[stores[s][k]][ch]
Members(s, k, ch) == IF Slot(s, k, ch) = Nil THEN {} ELSE submaps[Slot(s, k, ch)]

\* Every object reachable from store s.
Reach(s) ==
    {s, stores[s].chans, stores[s].pats} \cup
    ({Slot(s, k, ch) : k \in Kinds, ch \in Channels} \ {Nil})

\* The maps a reader can be looking at: those of any thread's store and of
\* the published one.
ReaderMaps ==
    {stores[s][k] : s \in {local[t] : t \in Threads} \cup {mostRecent}, k \in Kinds}

Init ==
    /\ stores = (1 :> [chans |-> 2, pats |-> 3])
    /\ maps = (2 :> [ch \in Channels |-> Nil]) @@ (3 :> [ch \in Channels |-> Nil])
    /\ submaps = <<>>
    /\ live = {1, 2, 3}
    /\ nextId = 4
    /\ mostRecent = 1
    /\ mu = Free
    /\ local = [t \in Threads |-> 1]
    /\ upd = [a \in Actors |-> IdleUpd]
    /\ rd = [t \in Threads |-> [pc |-> "idle", ptr |-> Nil]]
    /\ subscribed = [c \in Conns |-> [k \in Kinds |-> {}]]
    /\ cmds = 0
    /\ migs = 0
    /\ crashed = FALSE
    /\ resized = FALSE

(***************************************************************************)
(* Connections                                                             *)
(***************************************************************************)

\* (P)SUBSCRIBE / (P)UNSUBSCRIBE: the connection updates its own
\* subscription set and records only the keys that changed, then runs Apply.
ChangeSubscription(c, k, add, keys) ==
    /\ ~crashed
    /\ upd[c].pc = "idle"
    /\ cmds < MaxCmds
    /\ add \/ AllowUnsubscribe
    /\ keys # {}
    /\ IF add THEN keys \cap subscribed[c][k] = {} ELSE keys \subseteq subscribed[c][k]
    /\ subscribed' = [subscribed EXCEPT ![c][k] = IF add THEN @ \cup keys ELSE @ \ keys]
    /\ upd' = [upd EXCEPT ![c] = [IdleUpd EXCEPT !.pc = "lock", !.kind = k,
                                                 !.add = add, !.ops = keys]]
    /\ cmds' = cmds + 1
    /\ UNCHANGED <<stores, maps, submaps, live, nextId, mostRecent, mu, local, rd,
                   migs, crashed, resized>>

(***************************************************************************)
(* ChannelStoreUpdater::Apply                                              *)
(***************************************************************************)

\* Mutant of GetTargetMap: a removed slot is not treated as a resize.
GetTargetMapAddOnly(m, add, ops) ==
    \E key \in ops : add /\ maps[m][key] = Nil

\* GetTargetMap: copy the map when a key must get a new slot or lose its
\* last subscriber.  (A missing key on removal is the crash of ApplyLock.)
GetTargetMap(m, add, ops) ==
    \E key \in ops : IF add THEN maps[m][key] = Nil
                     ELSE maps[m][key] = Nil \/ Cardinality(submaps[maps[m][key]]) = 1

\* An unsubscribe of a key the map does not hold dereferences find()'s end().
MissingKey(m, ops) == \E key \in ops : maps[m][key] = Nil

\* Lock update_mu, load most_recent and pick (or copy) the target map.
ApplyLockAfter(c, u, s, m, copied) ==
    /\ IF ~u.add /\ MissingKey(m, u.ops)
       THEN /\ crashed' = TRUE
            /\ UNCHANGED <<maps, live, nextId, mu, upd>>
       ELSE /\ mu' = c
            /\ maps' = IF copied THEN maps @@ (nextId :> maps[m]) ELSE maps
            /\ live' = IF copied THEN live \cup {nextId} ELSE live
            /\ nextId' = IF copied THEN nextId + 1 ELSE nextId
            /\ upd' = [upd EXCEPT ![c] = [u EXCEPT !.pc = "modify", !.store = s,
                          !.target = IF copied THEN nextId ELSE m,
                          !.copied = copied, !.todo = u.ops]]
            /\ UNCHANGED crashed
    /\ UNCHANGED <<stores, submaps, mostRecent, local, rd, subscribed, cmds, migs, resized>>

ApplyLock(c) ==
    /\ ~crashed
    /\ upd[c].pc = "lock"
    /\ mu = Free
    /\ ApplyLockAfter(c, upd[c], mostRecent, stores[mostRecent][upd[c].kind],
                      GetTargetMap(stores[mostRecent][upd[c].kind], upd[c].add, upd[c].ops))

\* Mutant of Replacement: the added subscriber's map does not copy the old one.
ReplacementFresh(sub, add, c) == IF add THEN {c} ELSE sub \ {c}

\* Mutant of Replacement: the erase path leaves a default-constructed map.
ReplacementNoCopyOnErase(sub, add, c) == IF add THEN sub \cup {c} ELSE {}

\* The updated copy of a SubscribeMap that replaces it in its slot.
Replacement(sub, add, c) == IF add THEN sub \cup {c} ELSE sub \ {c}

\* Modify for one key: add a slot, drop the slot of the last subscriber, or
\* swap the slot to an updated copy of its SubscribeMap; the old SubscribeMap
\* goes to the freelist.  Adding or removing a slot resizes the target map.
ModifyAfter(c, key, u, t, sl) ==
    /\ CASE u.add /\ sl = Nil ->
              /\ maps' = [maps EXCEPT ![t][key] = nextId]
              /\ submaps' = submaps @@ (nextId :> {c})
              /\ live' = live \cup {nextId}
              /\ nextId' = nextId + 1
              /\ resized' = (resized \/ t \in ReaderMaps)
              /\ upd' = [upd EXCEPT ![c].todo = @ \ {key}]
         [] ~u.add /\ Cardinality(submaps[sl]) = 1 ->
              /\ maps' = [maps EXCEPT ![t][key] = Nil]
              /\ resized' = (resized \/ t \in ReaderMaps)
              /\ upd' = [upd EXCEPT ![c].todo = @ \ {key}, ![c].free = @ \cup {sl}]
              /\ UNCHANGED <<submaps, live, nextId>>
         [] OTHER ->
              /\ maps' = [maps EXCEPT ![t][key] = nextId]
              /\ submaps' = submaps @@ (nextId :> Replacement(submaps[sl], u.add, c))
              /\ live' = live \cup {nextId}
              /\ nextId' = nextId + 1
              /\ upd' = [upd EXCEPT ![c].todo = @ \ {key}, ![c].free = @ \cup {sl}]
              /\ UNCHANGED resized
    /\ UNCHANGED <<stores, mostRecent, mu, local, rd, subscribed, cmds, migs, crashed>>

Modify(c, key) ==
    /\ ~crashed
    /\ upd[c].pc = "modify"
    /\ key \in upd[c].todo
    /\ ModifyAfter(c, key, upd[c], upd[c].target, maps[upd[c].target][key])

\* Mutant of ReleaseMu: update_mu is released only on the path that built a
\* new store.
ReleaseMuIfCopied(u) == IF u.copied THEN Free ELSE mu

\* update_mu after the store pointer is published.
ReleaseMu(u) == Free

\* Build the replacement store if a map was copied, store it to most_recent
\* and unlock update_mu.
ApplyPublishAfter(c, u) ==
    /\ stores' = IF u.copied
                 THEN stores @@ (nextId :> [stores[u.store] EXCEPT ![u.kind] = u.target])
                 ELSE stores
    /\ live' = IF u.copied THEN live \cup {nextId} ELSE live
    /\ nextId' = IF u.copied THEN nextId + 1 ELSE nextId
    /\ mostRecent' = IF u.copied THEN nextId ELSE u.store
    /\ mu' = ReleaseMu(u)
    /\ upd' = [upd EXCEPT ![c] = [u EXCEPT !.pc = "await", !.pending = Threads]]
    /\ UNCHANGED <<maps, submaps, local, rd, subscribed, cmds, migs, crashed, resized>>

ApplyPublish(c) ==
    /\ ~crashed
    /\ upd[c].pc = "modify"
    /\ upd[c].todo = {}
    /\ ApplyPublishAfter(c, upd[c])

\* Mutant of Brief: the thread keeps the store the updater replaced.
BriefStale(a, t) == upd[a].store

\* The store a thread loads in the AwaitBrief callback: most_recent.
Brief(a, t) == mostRecent

\* The AwaitBrief callback on thread t.  It cannot run while a
\* FetchSubscribers is in progress on t.
ApplyBrief(c, t) ==
    /\ ~crashed
    /\ upd[c].pc = "await"
    /\ t \in upd[c].pending
    /\ rd[t].pc = "idle"
    /\ local' = [local EXCEPT ![t] = Brief(c, t)]
    /\ upd' = [upd EXCEPT ![c].pending = @ \ {t}]
    /\ UNCHANGED <<stores, maps, submaps, live, nextId, mostRecent, mu, rd, subscribed,
                   cmds, migs, crashed, resized>>

\* Mutant of Retired: the replaced store object itself is not deleted.
RetiredKeepStore(u) ==
    (IF u.copied THEN {stores[u.store][u.kind]} ELSE {}) \cup u.free

\* What Apply deletes after AwaitBrief: the replaced map and store, then the
\* freelist.
Retired(u) ==
    (IF u.copied THEN {stores[u.store][u.kind], u.store} ELSE {}) \cup u.free

\* Mutant of BriefsDone: the deletion does not wait for AwaitBrief.
BriefsDoneEarly(u) == TRUE

\* AwaitBrief has returned: every thread ran the callback.
BriefsDone(u) == u.pending = {}

ApplyFree(c) ==
    /\ ~crashed
    /\ upd[c].pc = "await"
    /\ BriefsDone(upd[c])
    /\ live' = live \ Retired(upd[c])
    /\ upd' = [upd EXCEPT ![c] = IdleUpd]
    /\ UNCHANGED <<stores, maps, submaps, nextId, mostRecent, mu, local, rd,
                   subscribed, cmds, migs, crashed, resized>>
(***************************************************************************)
(* Cluster slot migration: UnsubscribeAfterClusterSlotMigration and        *)
(* ChannelStoreUpdater::ApplyAndUnsubscribe.  Slots are abstracted: the    *)
(* deleted slots are given as the set of channels they hold.               *)
(***************************************************************************)

\* Record every channel of the thread's own store that lies in a deleted
\* slot; with none, ApplyAndUnsubscribe returns at once.  The updater is a
\* channels-only, remove-only one that always copies.
MigrationRecord(deleted) ==
    LET ops == {ch \in deleted : Slot(local[MigThread], "chans", ch) # Nil}
    IN  /\ ~crashed
        /\ upd[Migrator].pc = "idle"
        /\ migs < MaxMigrations
        /\ rd[MigThread].pc = "idle"
        /\ upd' = [upd EXCEPT ![Migrator] =
                      IF ops = {} THEN IdleUpd
                      ELSE [IdleUpd EXCEPT !.pc = "lock", !.ops = ops, !.copied = TRUE]]
        /\ migs' = migs + 1
        /\ UNCHANGED <<stores, maps, submaps, live, nextId, mostRecent, mu, local, rd,
                       subscribed, cmds, crashed, resized>>

\* Under update_mu: deep-copy the channel map of most_recent, erase every
\* recorded channel (find() must succeed), publish a new store and unlock.
\* Then, on the migrator's thread, FetchSubscribers of each channel from the
\* thread's own store pointer: its channel subscribers and the subscribers
\* of every pattern that matches it (a pattern key matches the channel of
\* the same name).
\* Mutant of Dropped: the erased slots' SubscribeMaps are not queued.
DroppedNone(m, ops) == {}

\* The SubscribeMaps of the erased slots, queued on the freelist.
Dropped(m, ops) == {maps[m][ch] : ch \in ops}

MigrationLockAfter(u, s, m) ==
    /\ IF MissingKey(m, u.ops)
       THEN /\ crashed' = TRUE
            /\ UNCHANGED <<stores, maps, live, nextId, mostRecent, upd>>
       ELSE /\ maps' = maps @@ (nextId :> [ch \in Channels |->
                                               IF ch \in u.ops THEN Nil ELSE maps[m][ch]])
            /\ stores' = stores @@ (nextId + 1 :> [chans |-> nextId, pats |-> stores[s].pats])
            /\ live' = live \cup {nextId, nextId + 1}
            /\ nextId' = nextId + 2
            /\ mostRecent' = nextId + 1
            /\ upd' = [upd EXCEPT ![Migrator] =
                          [u EXCEPT !.pc = "await", !.store = s, !.pending = Threads,
                                    !.free = Dropped(m, u.ops),
                                    !.subs = [ch \in Channels |->
                                                IF ch \in u.ops
                                                THEN Members(local[MigThread], "chans", ch)
                                                     \cup Members(local[MigThread], "pats", ch)
                                                ELSE {}]]]
            /\ UNCHANGED crashed
    /\ UNCHANGED <<submaps, mu, local, rd, subscribed, cmds, migs, resized>>

MigrationLock ==
    /\ ~crashed
    /\ upd[Migrator].pc = "lock"
    /\ mu = Free
    /\ rd[MigThread].pc = "idle"
    /\ MigrationLockAfter(upd[Migrator], mostRecent, stores[mostRecent].chans)

\* The AwaitFiberOnAll callback on thread t
\* (UnsubscribeSlotsAndUpdateChannelStore): the connections of t fetched as
\* subscribers of a dropped channel are told to unsubscribe from it, and
\* the thread reloads most_recent.  A pattern subscriber among them fails
\* DCHECK(it->pattern.empty()) in a debug build; this is the release
\* build, where it is sent the same unsubscribe from the channel.
MigrationHop(t) ==
    LET u == upd[Migrator]
    IN  /\ ~crashed
        /\ u.pc = "await"
        /\ t \in u.pending
        /\ rd[t].pc = "idle"
        /\ local' = [local EXCEPT ![t] = Brief(Migrator, t)]
        /\ subscribed' = [c \in Conns |->
                            IF ConnThread[c] = t
                            THEN [subscribed[c] EXCEPT !["chans"] =
                                      @ \ {ch \in Channels : c \in u.subs[ch]}]
                            ELSE subscribed[c]]
        /\ upd' = [upd EXCEPT ![Migrator].pending = @ \ {t}]
        /\ UNCHANGED <<stores, maps, submaps, live, nextId, mostRecent, mu, rd, cmds,
                       migs, crashed, resized>>

\* Delete the replaced channel map and store, then the dropped SubscribeMaps.
MigrationFree ==
    /\ ~crashed
    /\ upd[Migrator].pc = "await"
    /\ BriefsDone(upd[Migrator])
    /\ live' = live \ Retired(upd[Migrator])
    /\ upd' = [upd EXCEPT ![Migrator] = IdleUpd]
    /\ UNCHANGED <<stores, maps, submaps, nextId, mostRecent, mu, local, rd,
                   subscribed, cmds, migs, crashed, resized>>

(***************************************************************************)
(* Readers: FetchSubscribers on thread t through the thread's own store,   *)
(* first the slot lookup, then Fill reading the SubscribeMap it points to. *)
(***************************************************************************)

FetchSlot(t, k, ch) ==
    /\ ~crashed
    /\ rd[t].pc = "idle"
    /\ Slot(local[t], k, ch) # Nil
    /\ rd' = [rd EXCEPT ![t] = [pc |-> "deref", ptr |-> Slot(local[t], k, ch)]]
    /\ UNCHANGED <<stores, maps, submaps, live, nextId, mostRecent, mu, local, upd,
                   subscribed, cmds, migs, crashed, resized>>

Fill(t) ==
    /\ rd[t].pc = "deref"
    /\ rd' = [rd EXCEPT ![t] = [pc |-> "idle", ptr |-> Nil]]
    /\ UNCHANGED <<stores, maps, submaps, live, nextId, mostRecent, mu, local, upd,
                   subscribed, cmds, migs, crashed, resized>>

\* Every command and migration has run and no update is in flight: the
\* system stays as it is (readers find nothing to read once every map is
\* empty).
Quiescent ==
    /\ cmds = MaxCmds
    /\ migs = MaxMigrations
    /\ \A a \in Conns \cup {Migrator} : upd[a].pc = "idle"
    /\ UNCHANGED vars

Next ==
    \/ \E c \in Conns, k \in Kinds, add \in BOOLEAN, keys \in SUBSET Channels :
          ChangeSubscription(c, k, add, keys)
    \/ \E c \in Conns :
          \/ ApplyLock(c)
          \/ \E key \in Channels : Modify(c, key)
          \/ ApplyPublish(c)
          \/ \E t \in Threads : ApplyBrief(c, t)
          \/ ApplyFree(c)
    \/ \E deleted \in SUBSET Channels \ {{}} : MigrationRecord(deleted)
    \/ MigrationLock
    \/ \E t \in Threads : MigrationHop(t)
    \/ MigrationFree
    \/ \E t \in Threads : \/ \E k \in Kinds, ch \in Channels : FetchSlot(t, k, ch)
                          \/ Fill(t)
    \/ Quiescent

\* Fibers blocked on update_mu get it when it is free; a FetchSubscribers
\* runs to completion.  A brief queued on a thread, and the migration fiber
\* on its thread, run between that thread's other fibers however often
\* readers run there: those steps are strongly fair.
Fairness ==
    /\ \A c \in Conns : /\ WF_vars(ApplyLock(c))
                        /\ WF_vars(\E key \in Channels : Modify(c, key))
                        /\ WF_vars(ApplyPublish(c))
                        /\ \A t \in Threads : SF_vars(ApplyBrief(c, t))
                        /\ WF_vars(ApplyFree(c))
    /\ SF_vars(MigrationLock)
    /\ \A t \in Threads : SF_vars(MigrationHop(t))
    /\ WF_vars(MigrationFree)
    /\ \A t \in Threads : WF_vars(Fill(t))

Spec == Init /\ [][Next]_vars /\ Fairness

-----------------------------------------------------------------------------

\* Types.  A SubscribeMap in a slot is never empty (the DCHECK in Modify).
TypeOK ==
    /\ live \subseteq 1..(nextId - 1)
    /\ mostRecent \in DOMAIN stores
    /\ mu \in Actors \cup {Free}
    /\ local \in [Threads -> DOMAIN stores]
    /\ \A s \in DOMAIN stores : stores[s] \in [Kinds -> DOMAIN maps]
    /\ \A m \in DOMAIN maps : \A ch \in Channels :
          maps[m][ch] = Nil \/ (maps[m][ch] \in DOMAIN submaps /\ submaps[maps[m][ch]] # {})
    /\ \A a \in Actors : upd[a].pc \in {"idle", "lock", "modify", "await"}
    /\ rd \in [Threads -> [pc : {"idle", "deref"}, ptr : {Nil} \cup DOMAIN submaps]]
    /\ subscribed \in [Conns -> [Kinds -> SUBSET Channels]]

\* Every object a thread can reach through its own store pointer, or
\* through most_recent, and every SubscribeMap a FetchSubscribers holds, is
\* still allocated: Apply and ApplyAndUnsubscribe delete only after every
\* thread has reloaded its pointer.
MemorySafe ==
    /\ Reach(mostRecent) \subseteq live
    /\ \A t \in Threads : /\ Reach(local[t]) \subseteq live
                          /\ rd[t].pc = "deref" => rd[t].ptr \in live

\* No map that a reader may be iterating ever gains or loses a slot: Apply
\* copies the map whenever a slot is added or removed (GetTargetMap).
NoSharedResize == ~resized

Quiet == \A a \in Actors : upd[a].pc = "idle"

\* When no update is in flight, what every connection believes it is
\* subscribed to (its subscribe_info) is exactly what the published store
\* holds for it.
SubscriptionsAgree ==
    Quiet => \A c \in Conns, k \in Kinds, ch \in Channels :
                (ch \in subscribed[c][k]) = (c \in Members(mostRecent, k, ch))

\* When no update is in flight, the allocated objects are exactly those
\* reachable from most_recent: every replaced map, store and SubscribeMap
\* was deleted.
NoLeak == Quiet => live = Reach(mostRecent)

\* No unsubscribe or migration dereferences a missing channel's iterator.
NoInvalidIterator == ~crashed

\* Every SUBSCRIBE, UNSUBSCRIBE and migration that starts an update
\* finishes it.
UpdatesComplete == \A a \in Actors : upd[a].pc # "idle" ~> upd[a].pc = "idle"

====
