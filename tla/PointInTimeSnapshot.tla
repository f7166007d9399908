------------------------- MODULE PointInTimeSnapshot -------------------------
(***************************************************************************)
(* What a point-in-time snapshot of a shard promises (spec 4.C and the    *)
(* comments of server/snapshot.cc), with every step atomic.               *)
(*                                                                         *)
(* A snapshot registers and fixes its image, the database as it is at     *)
(* that moment.  Until it finishes it emits, in any order, one rdb record *)
(* per key of the image, carrying the image's value.  A key deleted       *)
(* without a change callback (an expiry, a slot flush) before it was      *)
(* emitted is lost to the snapshot.  While the snapshot is registered for *)
(* the journal it also receives journal records; a command's record of a  *)
(* key never precedes that key's rdb record.  It finishes only when no    *)
(* key of its image is still owed, and after its journal stream is closed *)
(* nothing more is written to it.  The database itself changes freely.    *)
(*                                                                         *)
(* SliceSnapshot implements this specification (PointInTimeRefined).       *)
(***************************************************************************)
EXTENDS Naturals, Sequences

CONSTANTS Keys, Vals, NoVal, Snapshots

VARIABLES
  db,      \* the shard's table: key -> value, NoVal when absent
  phase,   \* "idle", "open", "finished" (traversal over), "done" (closed)
  image,   \* the table when each snapshot registered
  lost,    \* keys of the image deleted before the snapshot emitted them
  stream   \* records written to each snapshot's sink

vars == <<db, phase, image, lost, stream>>

Value == Vals \cup {NoVal}
Record == [kind : {"rdb", "jrnl", "jexp"}, key : Keys, val : Value]

Emitted(s, k) == \E i \in 1..Len(stream[s]) : stream[s][i] = [kind |-> "rdb", key |-> k, val |-> image[s][k]]

\* A key the snapshot still owes: in its image, not lost, not yet emitted.
Owed(s, k) == image[s][k] /= NoVal /\ k \notin lost[s] /\ ~Emitted(s, k)

Init ==
  /\ db \in [Keys -> Value]
  /\ phase = [s \in Snapshots |-> "idle"]
  /\ image = [s \in Snapshots |-> [k \in Keys |-> NoVal]]
  /\ lost = [s \in Snapshots |-> {}]
  /\ stream = [s \in Snapshots |-> <<>>]

Register(s) ==
  /\ phase[s] = "idle"
  /\ phase' = [phase EXCEPT ![s] = "open"]
  /\ image' = [image EXCEPT ![s] = db]
  /\ UNCHANGED <<db, lost, stream>>

\* A command writes or deletes a key; every snapshot keeps its image.
Write(k, v) ==
  /\ db' = [db EXCEPT ![k] = v]
  /\ UNCHANGED <<phase, image, lost, stream>>

\* Keys deleted without a change callback are lost to every open snapshot
\* that still owes them.
Drop(K) ==
  /\ K /= {} /\ \A k \in K : db[k] /= NoVal
  /\ db' = [k \in Keys |-> IF k \in K THEN NoVal ELSE db[k]]
  /\ lost' = [s \in Snapshots |-> lost[s] \cup {k \in K : phase[s] /= "idle" /\ Owed(s, k)}]
  /\ UNCHANGED <<phase, image, stream>>

Emit(s, k) ==
  /\ phase[s] = "open" /\ Owed(s, k)
  /\ stream' = [stream EXCEPT ![s] = Append(@, [kind |-> "rdb", key |-> k, val |-> image[s][k]])]
  /\ UNCHANGED <<db, phase, image, lost>>

\* A journal record of a command follows the rdb record of its key; an
\* expiry record may come first (it is journaled before the deletion).
Log(s, r) ==
  /\ phase[s] \in {"open", "finished"}
  /\ r.kind = "jrnl" => ~Owed(s, r.key)
  /\ stream' = [stream EXCEPT ![s] = Append(@, r)]
  /\ UNCHANGED <<db, phase, image, lost>>

Finish(s) ==
  /\ phase[s] = "open" /\ \A k \in Keys : ~Owed(s, k)
  /\ phase' = [phase EXCEPT ![s] = "finished"]
  /\ UNCHANGED <<db, image, lost, stream>>

Close(s) ==
  /\ phase[s] = "finished"
  /\ phase' = [phase EXCEPT ![s] = "done"]
  /\ UNCHANGED <<db, image, lost, stream>>

Next ==
  \/ \E s \in Snapshots : Register(s) \/ Finish(s) \/ Close(s)
  \/ \E s \in Snapshots, k \in Keys : Emit(s, k)
  \/ \E s \in Snapshots, r \in Record : Log(s, r)
  \/ \E k \in Keys, v \in Value : Write(k, v)
  \/ \E K \in SUBSET Keys : Drop(K)

Spec == Init /\ [][Next]_vars

====
