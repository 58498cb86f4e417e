---------------------------- MODULE MCLockTable ----------------------------
(* Small instances of LockTable: two processes and colliding keys. *)
EXTENDS LockTable, TLC

CONSTANTS c1, c2, k1, k2, k3

\* Two keys share a home slot, which the third one overflows into.
Homes == k1 :> 0 @@ k2 :> 0 @@ k3 :> 1

ProcessesAndKeys == Permutations({c1, c2}) \cup Permutations({k1, k2})
=============================================================================
