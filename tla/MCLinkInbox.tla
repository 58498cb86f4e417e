---------------------------- MODULE MCLinkInbox ----------------------------
EXTENDS LinkInbox, TLC

CONSTANTS w1, w2, r1, r2

Twins == Permutations({w1, w2}) \cup Permutations({r1, r2})

Bounded(capacity, form, writes, crashes, joins, moves, mortal, leaves) ==
    [capacity |-> capacity, form |-> form, writes |-> writes,
     crashes |-> crashes, joins |-> joins, moves |-> moves,
     mortal |-> mortal, leaves |-> leaves]

\* Two writers of which one dies; one writer that fills two slots; deaths
\* around readers that take turns, for both ways to wait; a directory that
\* changes.
Instances ==
    {Bounded(1, "park", 2, 1, 1, 0, Writers, FALSE),
     Bounded(2, "park", 2, 0, 1, 0, {}, FALSE),
     Bounded(1, "park", 1, 1, 2, 0, Procs, TRUE),
     Bounded(1, "socket", 1, 1, 1, 0, Procs, TRUE),
     Bounded(1, "socket", 1, 0, 1, 1, {}, TRUE)}

\* A receiver on its socket, and a writer that dies.
OneDeath == {Bounded(1, "socket", 1, 1, 1, 0, Writers, FALSE)}
=============================================================================
