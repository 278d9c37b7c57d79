------------------------------- MODULE MCLru -------------------------------
(* Instances of LruCache for TLC. *)
EXTENDS LruCache, TLC

CONSTANTS v1, v2, v3, d1, d2

\* A count of 0, and one above LRU_COUNT_MAX, are refused.
AllConfigs == [count : 0 .. LRU_COUNT_MAX + 1, dir : {d1, d2}]

=============================================================================
