----------------------------- MODULE MCShmRing -----------------------------
(* Small instances of ShmRing: two writers and their processes. *)
EXTENDS ShmRing, TLC

CONSTANTS w1, w2, w3, p1, p2, r1

\* Two threads of one process and one of another; one thread each.
TwoAndOne == w1 :> p1 @@ w2 :> p1 @@ w3 :> p2
OneAndOne == w1 :> p1 @@ w2 :> p2

\* The threads of one process, and processes with one thread each, are
\* interchangeable.
Threads == Permutations({w1, w2})
Twins ==
    {w1 :> w1 @@ w2 :> w2 @@ p1 :> p1 @@ p2 :> p2,
     w1 :> w2 @@ w2 :> w1 @@ p1 :> p2 @@ p2 :> p1}
=============================================================================
