------------------------------ MODULE MC_IncrBy ------------------------------
(* IncrBy at a four-bit int64_t: every value and argument, both overflow   *)
(* bounds and the unnegatable minimum are enumerated.                      *)
EXTENDS IncrBy

CONSTANTS absent, str, list, notint
====
