----------------------------- MODULE Replication -----------------------------
(***************************************************************************)
(* A primary shard and a replica of it.  The primary runs the string       *)
(* commands of DbTables with its journal on; every record it appends goes  *)
(* to the replication stream, and the replica executes the records in      *)
(* order, with the same handlers, at its own time (the stream may lag).    *)
(* The replica never expires keys itself (ExpireIfNeeded returns early on  *)
(* a replica) and applies no memory limit (apply_memory_limit is false on  *)
(* a replica).  Entry points whose journaling is outside src/ (AddOrUpdate *)
(* and the EXPIRE family) are left out.                                    *)
(***************************************************************************)
EXTENDS Integers, Sequences

CONSTANTS Keys, Vals, Nul, MaxLen, Offsets, McFlags, Ttls, GatTimes, MaxTime, MaxOps,
          MayOom, Absent,
          LagAllowed  \* may the clock move on while records are in flight?

VARIABLES
    now,       \* the shard clock, shared by both nodes
    primary,   \* the primary's tables
    stream,    \* journal records sent and not yet applied, oldest first
    ops,       \* client commands the primary executed
    replica    \* the replica's tables

vars == <<now, primary, stream, ops, replica>>

P == INSTANCE DbTables WITH db <- primary, journal <- stream, ExpireAts <- {},
                            IsReplica <- FALSE, Journaling <- TRUE
R == INSTANCE DbTables WITH db <- replica, journal <- stream, ExpireAts <- {},
                            IsReplica <- TRUE, Journaling <- FALSE

Init == P!Init /\ replica = primary

PrimaryCommand == P!JournaledCommand /\ UNCHANGED replica

PrimaryHeartbeat(k) == P!DeleteExpiredStep(k) /\ UNCHANGED replica

\* Without lag the replica applies every record within the millisecond the
\* primary wrote it.
Tick == (LagAllowed \/ stream = <<>>) /\ P!Tick /\ UNCHANGED replica

\* The replica executes the oldest record of the stream.
ReplicaApply ==
    /\ stream # <<>>
    /\ ~replica.crashed
    /\ replica' = R!ExecuteRecord(replica, Head(stream))
    /\ stream' = Tail(stream)
    /\ UNCHANGED <<now, primary, ops>>

Quiescent == ops = MaxOps /\ now = MaxTime /\ stream = <<>> /\ UNCHANGED vars

Next ==
    \/ PrimaryCommand
    \/ \E k \in Keys : PrimaryHeartbeat(k)
    \/ Tick
    \/ ReplicaApply
    \/ Quiescent

Spec ==
    /\ Init /\ [][Next]_vars
    /\ WF_vars(ReplicaApply)
    /\ \A k \in Keys : WF_vars(PrimaryHeartbeat(k))

(***************************************************************************)
(* Properties                                                              *)
(***************************************************************************)

TypeOK ==
    /\ P!TypeOK
    /\ replica \in P!DbState

\* What a client of a node reads for key k: value, deadline and flag.
View(d, k) ==
    IF d.prime[k] = Absent THEN Absent
    ELSE [val |-> d.prime[k].val,
          deadline |-> IF d.prime[k].exp THEN d.expire[k] ELSE 0,
          mcflag |-> IF d.prime[k].flag THEN d.mcflag[k] ELSE 0]

\* The key's deadline has passed on the primary (whether or not it has
\* been deleted yet); until the primary journals the expiry the replica may
\* still hold it.
ExpiredOnPrimary(k) ==
    P!HasExpire(primary, k) /\ primary.expire[k] # 0 /\ primary.expire[k] <= now

\* A replica that has applied the whole stream holds what the primary
\* holds, for every key that has not expired on the primary.  This is what
\* the journal records of SET, MSET, GETEX, GAT, GETDEL and the expiry
\* records promise; it breaks when a handler journals something that does
\* not reproduce its own effect, or journals effects that did not happen.
ReplicaAgrees ==
    stream = <<>> =>
        \A k \in Keys : ~ExpiredOnPrimary(k) => View(primary, k) = View(replica, k)
=============================================================================
