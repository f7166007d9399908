--------------------------- MODULE MC_SliceSnapshot ---------------------------
(* Two snapshots, command fibers, a slot flush, two keys over two buckets. *)
EXTENDS SliceSnapshot

CONSTANTS k1, k2, c1, c2, s1, s2, v1, v2, fl

\* Both keys hash to bucket 1, so an insert may displace the other key into
\* bucket 2.
MCHome == [k \in Keys |-> 1]

\* Both keys hash to the last bucket, the one a traversal reaches last.
MCHomeLast == [k \in Keys |-> NB]
====
