--------------------------- MODULE MC_ChannelStore ---------------------------
(* Model-checking instance of ChannelStore: two threads with one connection *)
(* each, and the migration fiber on the first thread.                      *)
EXTENDS ChannelStore

CONSTANTS t1, t2, c1, c2, ch1, ch2, mig

MCConnThread == (c1 :> t1) @@ (c2 :> t2)
====
