---------------------------- MODULE MCClientPool ----------------------------
(* A floor of one idle client; two clients used one at a time; a floor     *)
(* above the ceiling.                                                      *)
EXTENDS ClientPool, TLC
CONSTANTS r1, r2
MCOptions ==
  { [min_idle |-> 1, max_idle |-> 1, max_live |-> 1, max_concurrency |-> 2, max_waiting |-> 1],
    [min_idle |-> 0, max_idle |-> 1, max_live |-> 2, max_concurrency |-> 1, max_waiting |-> 1],
    [min_idle |-> 2, max_idle |-> 1, max_live |-> 2, max_concurrency |-> 1, max_waiting |-> 1] }
Symmetry == Permutations(Requests)
=============================================================================
