---------------------------- MODULE MCPoolTable ----------------------------
EXTENDS PoolTable, TLC

CONSTANTS n1, n2, t1, t2, t3

TwoNodes == t1 :> n1 @@ t2 :> n2
ThreeThreads == t1 :> n1 @@ t2 :> n1 @@ t3 :> n2
OneLane == <<n1>>
TwoLanes == <<n1, n2>>

\* What callers do together, one set of operations and options at a time.
Races ==
    {{"acquire", "attempts", "availability", "accept", "cancel"},
     {"acquire", "attempts", "availability", "active", "idle"},
     {"acquire", "attempts", "accept", "reconcile", "availability"},
     {"acquire", "accept", "unregister"},
     {"warm", "availability", "active", "drain", "unregister"},
     {"warm", "availability"},
     {"warm", "availability", "admit", "crash"},
     {"acquire", "crash"}}

Sleepers ==
    {{"acquire", "versionFirst", "accept", "cancel", "timeout"},
     {"acquire", "versionFirst", "accept", "cancel", "reconcile", "remote"}}

PlanSleepers == {{"acquire", "accept"}, {"acquire", "accept", "reconcile"}}

\* The two threads of the first node can be exchanged.
Siblings == Permutations({t1, t2})

Reusers == {{"acquire", "accept", "unregister"}}
=============================================================================
